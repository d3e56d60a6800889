--------------------------- MODULE AccountTokens ---------------------------
(***************************************************************************)
(* What the Account of one tab holds to talk to the servers: its session   *)
(* token, the access token for its profile, the assertion it buys access   *)
(* tokens with, and the cached request for its profile (models/account.js, *)
(* lib/assertion.js, lib/oauth-client.js, lib/profile-client.js).          *)
(*                                                                         *)
(* A call is a request of a screen.  It may take several steps, each with  *)
(* an answer that arrives later, while other calls change the account.     *)
(* Tokens are numbers; 0 is "none".  The screens are in Settings.          *)
(***************************************************************************)
EXTENDS Naturals, FiniteSets

CONSTANTS
    Slots,      \* calls that may be under way at the same time
    MaxToken,   \* access tokens the OAuth server issues in a behaviour
    MaxTrouble  \* failures of a server in a behaviour

ASSUME TokenAssumption == MaxToken \in Nat /\ MaxTrouble \in Nat

VARIABLES
    server,     \* what the servers know of the account
    account,    \* the Account model of this tab
    assertion,  \* _assertionPromises[sessionToken]
    profile,    \* _profileFetchPromise
    calls,      \* the calls under way
    trouble     \* failures and expired things so far

tokenVars == <<server, account, assertion, profile, calls, trouble>>

Tokens == 1 .. MaxToken

\* The methods that need a verified account and an access token.
ProfileMethods == {"getProfile", "getAvatar", "deleteAvatar", "uploadAvatar", "postDisplayName"}

\* The methods of the OAuth server, sent with the access token as it is.
OAuthAppMethods == {"fetchOAuthApps", "destroyOAuthApp"}

\* Those that create a token of their own, for the newsletter.
MarketingMethods == {"fetchPrefs", "optIn"}

\* What an answer tells of the servers: what it was when it was made.
NoView == [name |-> "none", image |-> "none", clients |-> {}, value |-> "none", gate |-> FALSE]

NoCall ==
    [op |-> "none", arg |-> "none", step |-> "none", token |-> 0,
     first |-> 0, seen |-> "none", view |-> NoView]

Free(s) == calls[s].op = "none"

UnderWay(op) == \E s \in Slots : calls[s].op = op

(***************************************************************************)
(* Account.set and onChange: a change of the account clears the cached     *)
(* profile, but not while it is being fetched, when the listener is off;   *)
(* it stays off when the fetch fails.                                      *)
(***************************************************************************)
SetAccount(a) ==
    /\ account' = a
    /\ profile' = IF a # account /\ profile = "fetched" THEN "none" ELSE profile

DiscardSessionToken == [account EXCEPT !.access = 0, !.session = 0]

UnsetSessionToken == [account EXCEPT !.session = 0]

SetProfileImage(a, image) ==
    [a EXCEPT !.image = image, !.hadImage = @ \/ image = "picture"]

(***************************************************************************)
(* The steps of a call.                                                    *)
(***************************************************************************)
Goto(s, step) == calls' = [calls EXCEPT ![s].step = step]

\* The call rejects: what its caller does about it is in Settings.
Reject(s, why) == calls' = [calls EXCEPT ![s].step = "rejected", ![s].seen = why]

\* The request itself, with the access token the account has now.
Send(s) == calls' = [calls EXCEPT ![s].step = "request", ![s].token = account.access]

(***************************************************************************)
(* Account.fetch: the status of the session is asked for only if the       *)
(* account is not known to be verified.                                    *)
(***************************************************************************)
FirstStep(op) ==
    IF op \in ProfileMethods
        THEN IF account.session # 0 /\ ~account.verified THEN "status" ELSE "gate"
        ELSE IF op \in MarketingMethods THEN "assertion" ELSE "request"

\* All other methods are sent with the session token.
Credential(op) == IF op \in OAuthAppMethods THEN account.access ELSE account.session

NewCall(op, arg) ==
    [op |-> op, arg |-> arg, step |-> FirstStep(op), token |-> Credential(op),
     first |-> 0, seen |-> "none", view |-> NoView]

Call(s, op, arg) ==
    /\ Free(s)
    /\ calls' = [calls EXCEPT ![s] = NewCall(op, arg)]

(***************************************************************************)
(* Account.fetch: its failures are swallowed, but an invalid token is      *)
(* discarded, and the access token with it.                                *)
(***************************************************************************)
StatusArrives(s) ==
    /\ calls[s].step = "status"
    /\ \/ /\ account.session \in server.sessions
          /\ SetAccount([account EXCEPT !.verified = server.verified])
          /\ UNCHANGED trouble
       \/ /\ account.session \notin server.sessions
          /\ SetAccount(DiscardSessionToken)
          /\ UNCHANGED trouble
       \/ /\ trouble < MaxTrouble
          /\ trouble' = trouble + 1
          /\ UNCHANGED <<account, profile>>
    /\ Goto(s, "gate")
    /\ UNCHANGED <<server, assertion>>

NeedsAccessToken == account.verified /\ account.access = 0

ProfileClient(s) ==
    /\ calls[s].step = "gate"
    /\ IF ~account.verified THEN Reject(s, "UNVERIFIED_ACCOUNT")
       ELSE IF NeedsAccessToken THEN Goto(s, "assertion")
       ELSE Send(s)
    /\ UNCHANGED <<server, account, assertion, profile, trouble>>

(***************************************************************************)
(* An assertion is made once and shared, also when making it fails, until  *)
(* its hour is over.  A profile method that learns of an invalid session   *)
(* discards the session before it rejects.                                 *)
(***************************************************************************)
RejectAssertion(s, why) ==
    /\ Reject(s, why)
    /\ SetAccount(IF calls[s].op \in ProfileMethods /\ calls[s].first = 0 /\ why = "INVALID_TOKEN"
                     THEN DiscardSessionToken
                     ELSE account)

GenerateAssertion(s) ==
    /\ calls[s].step = "assertion"
    /\ \/ /\ account.session = 0
          /\ RejectAssertion(s, "INVALID_TOKEN")
          /\ UNCHANGED assertion
       \/ /\ account.session # 0
          /\ assertion = "none"
          /\ assertion' = "pending"
          /\ UNCHANGED <<account, profile, calls>>
       \/ /\ account.session # 0
          /\ assertion = "made"
          /\ Goto(s, "token")
          /\ UNCHANGED <<account, profile, assertion>>
       \/ /\ account.session # 0
          /\ assertion \in {"INVALID_TOKEN", "error"}
          /\ RejectAssertion(s, assertion)
          /\ UNCHANGED assertion
    /\ UNCHANGED <<server, trouble>>

CertificateSigned ==
    /\ assertion = "pending"
    /\ \/ /\ assertion' = IF account.session \in server.sessions THEN "made" ELSE "INVALID_TOKEN"
          /\ UNCHANGED trouble
       \/ /\ trouble < MaxTrouble
          /\ assertion' = "error"
          /\ trouble' = trouble + 1
    /\ UNCHANGED <<server, account, profile, calls>>

IsAssertionValid == assertion # "none"

AssertionExpires ==
    /\ IsAssertionValid
    /\ assertion # "pending"
    /\ trouble < MaxTrouble
    /\ trouble' = trouble + 1
    /\ assertion' = "none"
    /\ UNCHANGED <<server, account, profile, calls>>

(***************************************************************************)
(* createOAuthToken: the token goes to the account, or to the one place    *)
(* MarketingEmailPrefs has for it (_accessToken, here account.prefs).      *)
(* destroyOAuthApp renews the token and sends its request again with the   *)
(* one it had read before.                                                 *)
(***************************************************************************)
NewToken == CHOOSE t \in Tokens : t \notin server.issued /\ \A u \in Tokens \ server.issued : t <= u

CreateOAuthToken(s) ==
    /\ calls[s].step = "token"
    /\ server.issued # Tokens
    /\ server' = [server EXCEPT !.issued = @ \cup {NewToken}, !.tokens = @ \cup {NewToken}]
    /\ IF calls[s].op \in MarketingMethods
         THEN account' = [account EXCEPT !.prefs = NewToken] /\ UNCHANGED profile
         ELSE SetAccount([account EXCEPT !.access = NewToken])
    /\ calls' = [calls EXCEPT ![s].step = "request",
           ![s].token = IF calls[s].op = "destroyOAuthApp" THEN @ ELSE NewToken]
    /\ UNCHANGED <<assertion, trouble>>

(***************************************************************************)
(* The wrapper of the profile methods, and the methods of the OAuth apps:  *)
(* a refused access token is renewed and the request sent once more.  Only *)
(* the profile methods drop a token that is refused again.                 *)
(***************************************************************************)
Refused(s) ==
    /\ calls[s].step = "request"
    /\ calls[s].op \in ProfileMethods \cup OAuthAppMethods
    /\ calls[s].token \notin server.tokens

\* Mutant: the second attempt takes the token there is, as the first did.
FetchProfileOAuthTokenIfNeeded(s) ==
    /\ Refused(s)
    /\ calls[s].first = 0
    /\ calls' = [calls EXCEPT ![s].first = calls[s].token + 1, ![s].step = "gate"]
    /\ UNCHANGED <<server, account, assertion, profile, trouble>>

FetchProfileOAuthToken(s) ==
    /\ Refused(s)
    /\ calls[s].first = 0
    /\ calls' = [calls EXCEPT ![s].first = calls[s].token + 1, ![s].step = "assertion"]
    /\ UNCHANGED <<server, account, assertion, profile, trouble>>

RefusedAgain(s) ==
    /\ Refused(s)
    /\ calls[s].first # 0
    /\ SetAccount(IF calls[s].op \in ProfileMethods THEN [account EXCEPT !.access = 0] ELSE account)
    /\ Reject(s, "UNAUTHORIZED")
    /\ UNCHANGED <<server, assertion, trouble>>

(***************************************************************************)
(* The servers.  A request with a session token that has ended is told so; *)
(* Effect is what the request does to the account, given in Settings.      *)
(***************************************************************************)
WithAccessToken == ProfileMethods \cup OAuthAppMethods \cup MarketingMethods \cup {"destroyToken"}

Accept(s, after) ==
    /\ calls[s].step = "request"
    /\ calls[s].token \in IF calls[s].op \in WithAccessToken THEN server.tokens ELSE server.sessions
    /\ server' = after
    /\ calls' = [calls EXCEPT ![s].step = "answered", ![s].view = [f \in DOMAIN NoView |-> after[f]]]
    /\ UNCHANGED <<account, assertion, profile, trouble>>

InvalidToken(s) ==
    /\ calls[s].step = "request"
    /\ calls[s].op \notin WithAccessToken
    /\ calls[s].token \notin server.sessions
    /\ Reject(s, "INVALID_TOKEN")
    /\ UNCHANGED <<server, account, assertion, profile, trouble>>

ServerFails(s) ==
    /\ calls[s].step = "request"
    /\ trouble < MaxTrouble
    /\ trouble' = trouble + 1
    /\ Reject(s, "error")
    /\ UNCHANGED <<server, account, assertion, profile>>

ExpireToken ==
    /\ account.access \in server.tokens
    /\ trouble < MaxTrouble
    /\ trouble' = trouble + 1
    /\ server' = [server EXCEPT !.tokens = @ \ {account.access}]
    /\ UNCHANGED <<account, assertion, profile, calls>>

SessionEnds ==
    /\ server.sessions # {}
    /\ trouble < MaxTrouble
    /\ trouble' = trouble + 1
    /\ server' = [server EXCEPT !.sessions = {}]
    /\ UNCHANGED <<account, assertion, profile, calls>>
=============================================================================
