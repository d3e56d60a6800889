------------------------------- MODULE Reliers -------------------------------
(***************************************************************************)
(* The relying party a page is opened for (models/reliers): what is taken  *)
(* of its URL, of the session and of the OAuth server, what of it is       *)
(* refused, and which permissions the user must have seen.                 *)
(*                                                                         *)
(* A URL is a record: path, client (client_id, or the last part of the     *)
(* path), redirect (redirect_uri), scope, keys (keys_jwk is there),        *)
(* consent (prompt=consent), service, context, link (the code of an e-mail *)
(* it carries, or "none"), channel (the parameters of a pairing channel),  *)
(* valid (its email and uid pass their patterns) and signin (the code of a *)
(* text message is there).  A redirect URI is named by the client it is    *)
(* registered for.  A relier is a record too; its error is "none" until a  *)
(* step of fetch() throws.                                                 *)
(***************************************************************************)
EXTENDS Naturals, FiniteSets

\* OAUTH_UNTRUSTED_ALLOWED_PERMISSIONS
UntrustedAllowed == {"openid", "profile:display_name", "profile:email", "profile:uid"}

\* OAUTH_TRUSTED_PROFILE_SCOPE_EXPANSION, the permissions the screen knows as well.
ProfileScopes == {"profile:uid", "profile:email", "profile:display_name", "profile:avatar"}

(***************************************************************************)
(* The OAuth server: a trusted client that may have keys, one that may not *)
(* and a client that is not trusted.  The configuration lists where the    *)
(* keys of a scope may be sent (scopedKeysValidation), and who may pair.   *)
(***************************************************************************)
Clients == {"rp", "plain", "app"}

Trusted == {"rp", "plain"}

ScopedKeysValidation == [oldsync |-> {"rp"}]

PairingClients == {"rp"}

NoSession == [client |-> "none", scope |-> {}]

(***************************************************************************)
(* A relier starts with its defaults; a step that throws ends the row.     *)
(***************************************************************************)
NewRelier(kind) ==
    [kind |-> kind, client |-> "none", redirect |-> "none", scope |-> {}, permissions |-> {},
     keys |-> FALSE, consent |-> FALSE, trusted |-> TRUE, service |-> "none", error |-> "none"]

Throw(relier, error) == [relier EXCEPT !.error = error]

Then(relier, Step(_)) == IF relier.error = "none" THEN Step(relier) ELSE relier

\* The patterns are relaxed for the links of e-mails, which mail programs break.
FetchBase(relier, url, isVerification) ==
    IF url.valid \/ isVerification THEN relier ELSE Throw(relier, "INVALID_PARAMETER")

FetchSync(relier, url) == [relier EXCEPT !.service = url.service]

\* The URL names the client and what it wants, and no service.
SetupSignInSignUpFlow(relier, url) ==
    IF url.client = "none" \/ url.scope = {} THEN Throw(relier, "MISSING_PARAMETER")
    ELSE IF url.service # "none" THEN Throw(relier, "INVALID_PARAMETER")
    ELSE [relier EXCEPT !.client = url.client, !.redirect = url.redirect, !.scope = url.scope,
                        !.keys = url.keys, !.consent = url.consent]

\* The session knows the client and its scope if the e-mail was asked for in
\* this browser; otherwise the link names the client, and no scope.
SetupVerificationFlow(relier, url, session) ==
    LET resume == IF session = NoSession THEN [session EXCEPT !.client = url.service] ELSE session
    IN  IF resume.client \in {"none", "sync"} THEN Throw(relier, "INVALID_PARAMETER")
        ELSE [relier EXCEPT !.client = resume.client, !.scope = resume.scope]

SetupSuccessFlow(relier, url) ==
    IF url.client = "none" THEN Throw(relier, "INVALID_PARAMETER") ELSE [relier EXCEPT !.client = url.client]

IsSuccessFlow(url) == url.path = "oauth/success"

\* Which flow the page is of; the client is the service where none was given.
SetupFlow(relier, url, session) ==
    LET set == IF IsSuccessFlow(url) THEN SetupSuccessFlow(relier, url)
               ELSE IF url.link # "none" THEN SetupVerificationFlow(relier, url, session)
               ELSE SetupSignInSignUpFlow(relier, url)
    IN  [set EXCEPT !.service = set.client]

IsCorrectRedirect(asked, registered) == asked \in {"none", registered, "authority"}

\* What the server knows of the client takes the place of what the URL said.
SetupOAuthRPInfo(relier) ==
    IF relier.client \notin Clients THEN Throw(relier, "UNKNOWN_CLIENT")
    ELSE IF ~IsCorrectRedirect(relier.redirect, relier.client) THEN Throw(relier, "INCORRECT_REDIRECT")
    ELSE [relier EXCEPT !.redirect = relier.client, !.trusted = relier.client \in Trusted]

ReplaceProfile(scope) ==
    IF "profile" \in scope THEN (scope \ {"profile"}) \cup ProfileScopes ELSE scope

SanitizeUntrustedPermissions(scope) == scope \cap UntrustedAllowed

NormalizeScopesAndPermissions(relier) ==
    LET permissions == IF ~relier.trusted THEN SanitizeUntrustedPermissions(relier.scope)
                       ELSE IF relier.consent THEN ReplaceProfile(relier.scope)
                       ELSE relier.scope
    IN  IF relier.scope = {} THEN relier
        ELSE IF permissions = {} THEN Throw(relier, "INVALID_PARAMETER")
        ELSE [relier EXCEPT !.scope = permissions, !.permissions = permissions]

\* Who asks for keys asks for a scope that has some, to be sent where they may be.
ValidateKeyScopeRequest(relier) ==
    LET bearing == relier.scope \cap DOMAIN ScopedKeysValidation
    IN  IF ~relier.keys THEN relier
        ELSE IF bearing = {} \/ \E s \in bearing : relier.redirect \notin ScopedKeysValidation[s]
             THEN Throw(relier, "UNEXPECTED_ERROR")
        ELSE relier

(***************************************************************************)
(* fetch(), before and after the answer of the OAuth server.               *)
(***************************************************************************)
FetchOAuth(relier, url, session, isVerification) ==
    LET Setup(r) == SetupFlow(r, url, session)
    IN  Then(FetchBase(relier, url, isVerification), Setup)

\* The desktop's relier is made without a session and is never told of an e-mail:
\* its patterns are strict, and the code of an e-mail has nothing to be read from.
FetchAuthority(relier, url) ==
    LET Setup(r) == IF url.link # "none" /\ ~IsSuccessFlow(url) THEN Throw(r, "TypeError")
                    ELSE SetupFlow(r, url, NoSession)
    IN  IF ~url.channel THEN Throw(relier, "MISSING_PARAMETER")
        ELSE Then(FetchBase(relier, url, FALSE), Setup)

\* The phone's URL is read by a schema of its own, and nothing else looks at it.
FetchSupplicant(relier, url) ==
    IF ~url.channel \/ url.client = "none" \/ url.redirect \in {"none", "authority"} \/ url.scope = {} \/ ~url.keys
    THEN Throw(relier, "MISSING_PARAMETER")
    ELSE [relier EXCEPT !.client = url.client, !.redirect = url.redirect, !.scope = url.scope, !.keys = url.keys]

Fetch(kind, url, session, isVerification) ==
    LET relier == NewRelier(kind)
        Sync(r) == FetchSync(r, url)
    IN  CASE kind = "authority"  -> FetchAuthority(relier, url)
          [] kind = "supplicant" -> FetchSupplicant(relier, url)
          [] kind = "oauth"      -> FetchOAuth(relier, url, session, isVerification)
          [] kind = "sync"       -> Then(FetchBase(relier, url, isVerification), Sync)
          [] kind = "web"        -> FetchBase(relier, url, isVerification)

IsOAuthRelier(relier) == relier.kind \in {"oauth", "authority", "supplicant"}

IsSyncRelier(relier) == relier.kind = "sync"

FetchAnswered(relier) ==
    LET informed == SetupOAuthRPInfo(relier)
    IN  IF relier.kind = "supplicant" THEN informed
        ELSE Then(Then(informed, NormalizeScopesAndPermissions), ValidateKeyScopeRequest)

(***************************************************************************)
(* Consent.  An account is a record of the profile values the browser has  *)
(* of it, named by their scope, and of what it has seen for each client.   *)
(***************************************************************************)
WithValues(permissions, account) == permissions \cap ProfileScopes \cap account.values

\* A mutant: whoever has seen something for the client is not asked again.
HasSeenSome(account, client, permissions) == permissions = {} \/ account.seen[client] # {}

HasSeenPermissions(account, client, permissions) == permissions \subseteq account.seen[client]

AccountNeedsPermissions(relier, account) ==
    /\ IsOAuthRelier(relier)
    /\ ~relier.trusted \/ relier.consent
    /\ ~HasSeenPermissions(account, relier.client, WithValues(relier.permissions, account))

\* Each choice is kept; the ones of an earlier screen of the client are not.
SetClientPermissions(account, client, permissions) == [account EXCEPT !.seen[client] = permissions]
=============================================================================
