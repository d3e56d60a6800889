---------------------------- MODULE Start_proofs ----------------------------
(***************************************************************************)
(* Proofs about the start of the application, for any URLs and any         *)
(* browsers.  First what a relier is made of: fetch() takes the client and *)
(* its scope of the URL or of the session, and the answer of the server    *)
(* only narrows them or writes the profile out.  Then an invariant that    *)
(* follows a page from phase to phase and the session from page to page:   *)
(* what the session keeps for a link is what its client may have and what  *)
(* the user of this browser has seen.  A relier and a broker that were     *)
(* chosen by the same URL and the same storage fit each other.             *)
(***************************************************************************)
EXTENDS Start, TLAPS

KindsOfReliers == {"authority", "supplicant", "oauth", "sync", "web"}

IsRelier(r) ==
    /\ DOMAIN r = {"kind", "client", "redirect", "scope", "permissions", "keys", "consent", "trusted", "service", "error"}
    /\ r.kind \in KindsOfReliers

(***************************************************************************)
(* What a relier is made of.                                               *)
(***************************************************************************)
\* A relier takes its client and its scope of the URL, or of the session.
TakenOfUrl(r, u) == r.client = u.client /\ r.scope \subseteq u.scope

TakenOfSession(r, session) ==
    ~r.keys /\ ~r.consent /\ (r.scope = {} \/ (r.client = session.client /\ r.scope = session.scope))

\* What fetch() has found before it asks the server for the client.
Made(r, u, session) ==
    /\ IsRelier(r)
    /\ r.permissions = {} /\ r.trusted
    /\ r.kind = "web" => r.service = "none"
    /\ r.kind \in {"oauth", "authority"} /\ r.error = "none" =>
         /\ r.service = r.client
         /\ IF u.link # "none" /\ ~IsSuccessFlow(u) THEN TakenOfSession(r, session) ELSE TakenOfUrl(r, u)
         /\ u.link = "none" \/ r.kind = "authority" => u.client # "none"
    /\ r.kind = "supplicant" /\ r.error = "none" => r.service = "none" /\ r.client = u.client /\ u.client # "none"

LEMMA OAuthFetched ==
    ASSUME NEW kind \in {"oauth", "authority"}, NEW u, NEW session, session = NoSession => session.scope = {}, NEW v,
           kind = "authority" => u.link = "none" \/ IsSuccessFlow(u),
           NEW r, r = FetchOAuth(NewRelier(kind), u, session, v)
    PROVE  r.kind = kind /\ Made(r, u, session)
  <1> DEFINE base == FetchBase(NewRelier(kind), u, v)
             set == IF IsSuccessFlow(u) THEN SetupSuccessFlow(base, u)
                    ELSE IF u.link # "none" THEN SetupVerificationFlow(base, u, session)
                    ELSE SetupSignInSignUpFlow(base, u)
  <1>1. base = NewRelier(kind) \/ base = Throw(NewRelier(kind), "INVALID_PARAMETER")
    BY DEF FetchBase
  <1>2. NewRelier(kind).error = "none" /\ Throw(NewRelier(kind), "INVALID_PARAMETER").error = "INVALID_PARAMETER"
    BY DEF NewRelier, Throw
  <1>3. r = IF base.error = "none" THEN [set EXCEPT !.service = set.client] ELSE base
    BY DEF FetchOAuth, Then, SetupFlow
  <1>4. CASE base.error # "none"
    BY <1>1, <1>2, <1>3, <1>4 DEF Made, NewRelier, Throw, IsRelier, KindsOfReliers
  <1>5. CASE base.error = "none"
    <2>1. base = NewRelier(kind) /\ r = [set EXCEPT !.service = set.client]
      BY <1>1, <1>2, <1>3, <1>5
    <2> HIDE DEF set
    <2>a. /\ IsRelier(base) /\ base.kind = kind /\ base.permissions = {} /\ base.trusted /\ base.error = "none"
          /\ base.scope = {} /\ base.client = "none" /\ ~base.keys /\ ~base.consent
      <3>0. base = NewRelier(kind)
        BY <2>1
      <3>1. IsRelier(base) 
        BY <3>0 DEF NewRelier, IsRelier, KindsOfReliers
      <3>2. base.permissions = {} /\ base.error = "none"
        BY <3>0 DEF NewRelier
      <3>6. base.kind = kind
        BY <3>0 DEF NewRelier
      <3>3. base.trusted
        BY <3>0 DEF NewRelier
      <3>4. base.scope = {} /\ base.client = "none"
        BY <3>0 DEF NewRelier
      <3>5. ~base.keys /\ ~base.consent
        BY <3>0 DEF NewRelier
      <3> QED BY <3>1, <3>2, <3>3, <3>4, <3>5, <3>6
    <2> HIDE DEF base
    <2>b. (\E e : e # "none" /\ set = Throw(base, e)) => r.kind = kind /\ Made(r, u, session)
      BY <2>a, <2>1 DEF Throw, Made, IsRelier, KindsOfReliers
    <2>2. CASE IsSuccessFlow(u)
      <3>1. set = Throw(base, "INVALID_PARAMETER") \/ (u.client # "none" /\ set = [base EXCEPT !.client = u.client])
        BY <2>2 DEF SetupSuccessFlow, set
      <3> QED BY <3>1, <2>1, <2>2, <2>a, <2>b DEF Made, IsRelier, KindsOfReliers, TakenOfUrl
    <2>3. CASE ~IsSuccessFlow(u) /\ u.link # "none"
      <3>1. \/ set = Throw(base, "INVALID_PARAMETER")
            \/ set = [base EXCEPT !.client = session.client, !.scope = session.scope]
            \/ session = NoSession /\ \E c : set = [base EXCEPT !.client = c, !.scope = {}]
        BY <2>3 DEF SetupVerificationFlow, NoSession, set
      <3>2. CASE set # Throw(base, "INVALID_PARAMETER")
        <4>a. PICK c, d : /\ set = [base EXCEPT !.client = c, !.scope = d]
                          /\ d = {} \/ (c = session.client /\ d = session.scope)
          BY <3>1, <3>2
        <4>b. r = [set EXCEPT !.service = set.client] /\ IsRelier(base)
          BY <2>1, <2>a
        <4> HIDE DEF base
        <4>c. /\ DOMAIN r = DOMAIN base /\ r.client = c /\ r.scope = d /\ r.service = c
              /\ \A f \in (DOMAIN base) \ {"client", "scope", "service"} : r[f] = base[f]
          BY <4>a, <4>b DEF IsRelier
        <4>d. /\ r.kind = base.kind /\ r.permissions = base.permissions /\ r.trusted = base.trusted
              /\ r.keys = base.keys /\ r.consent = base.consent
          BY <4>b, <4>c DEF IsRelier
        <4>1. r.kind = kind /\ IsRelier(r)
          BY <2>a, <4>b, <4>c, <4>d DEF IsRelier
        <4>2. r.permissions = {} /\ r.trusted
          BY <2>a, <4>d
        <4>3. r.service = r.client
          BY <4>c
        <4>4. TakenOfSession(r, session)
          BY <2>a, <4>a, <4>c, <4>d DEF TakenOfSession
        <4> QED BY <4>1, <4>2, <4>3, <4>4, <2>3 DEF Made
      <3> QED BY <3>2, <2>b
    <2>4. CASE ~IsSuccessFlow(u) /\ u.link = "none"
      <3>1. \/ \E e : e # "none" /\ set = Throw(base, e)
            \/ u.client # "none" /\ set = [base EXCEPT !.client = u.client, !.redirect = u.redirect, !.scope = u.scope,
                                                       !.keys = u.keys, !.consent = u.consent]
        <4>1. set = SetupSignInSignUpFlow(base, u)
          BY <2>4 DEF set
        <4> QED BY <4>1 DEF SetupSignInSignUpFlow
      <3>2. CASE set = [base EXCEPT !.client = u.client, !.redirect = u.redirect, !.scope = u.scope,
                                    !.keys = u.keys, !.consent = u.consent] /\ u.client # "none"
        <4>1. r.kind = kind /\ IsRelier(r)
          BY <3>2, <2>1, <2>a DEF IsRelier
        <4>2. r.permissions = {} /\ r.trusted
          BY <3>2, <2>1, <2>a DEF IsRelier
        <4>3. r.service = r.client
          BY <3>2, <2>1, <2>a DEF IsRelier
        <4>4. TakenOfUrl(r, u)
          BY <3>2, <2>1, <2>a DEF IsRelier, TakenOfUrl
        <4> QED BY <4>1, <4>2, <4>3, <4>4, <2>4, <3>2 DEF Made
      <3> QED BY <3>1, <3>2, <2>b
    <2> QED BY <2>2, <2>3, <2>4
  <1> QED BY <1>4, <1>5

LEMMA Fetched ==
    ASSUME NEW kind \in KindsOfReliers, NEW u, NEW session, session = NoSession => session.scope = {}, NEW v,
           NEW r, r = Fetch(kind, u, session, v)
    PROVE  r.kind = kind /\ Made(r, u, session)
  <1> DEFINE base == FetchBase(NewRelier(kind), u, v)
  <1>1. base = NewRelier(kind) \/ base = Throw(NewRelier(kind), "INVALID_PARAMETER")
    BY DEF FetchBase
  <1>2. /\ IsRelier(NewRelier(kind)) /\ NewRelier(kind).permissions = {} /\ NewRelier(kind).trusted
        /\ NewRelier(kind).error = "none" /\ NewRelier(kind).service = "none"
    BY DEF NewRelier, IsRelier
  <1>3. NewRelier(kind).kind = kind
    BY DEF NewRelier
  <1>4. \A e : /\ IsRelier(Throw(NewRelier(kind), e)) /\ Throw(NewRelier(kind), e).kind = kind
               /\ Throw(NewRelier(kind), e).permissions = {} /\ Throw(NewRelier(kind), e).trusted
               /\ Throw(NewRelier(kind), e).error = e /\ Throw(NewRelier(kind), e).service = "none"
    BY <1>2, <1>3 DEF Throw, IsRelier
  <1> HIDE DEF base
  <1>5. CASE kind = "oauth"
    <2>1. r = FetchOAuth(NewRelier(kind), u, session, v)
      BY <1>5 DEF Fetch
    <2> QED BY <2>1, <1>5, OAuthFetched
  <1>6. CASE kind = "authority"
    <2>1. r = FetchAuthority(NewRelier(kind), u)
      BY <1>6 DEF Fetch
    <2>2. CASE \E e : e # "none" /\ r = Throw(NewRelier(kind), e)
      BY <2>2, <1>4, <1>6 DEF Made
    <2>3. CASE ~ \E e : e # "none" /\ r = Throw(NewRelier(kind), e)
      <3>1. u.channel /\ FetchBase(NewRelier(kind), u, FALSE) = NewRelier(kind)
        <4>1. u.channel
          BY <2>1, <2>3 DEF FetchAuthority
        <4>2. CASE FetchBase(NewRelier(kind), u, FALSE) = Throw(NewRelier(kind), "INVALID_PARAMETER")
          BY <4>1, <4>2, <2>1, <2>3, <1>4 DEF FetchAuthority, Then
        <4> QED BY <4>1, <4>2 DEF FetchBase
      <3>2. u.link = "none" \/ IsSuccessFlow(u)
        BY <3>1, <2>1, <2>3, <1>2 DEF FetchAuthority, Then
      <3>3. r = FetchOAuth(NewRelier(kind), u, NoSession, FALSE)
        BY <3>1, <3>2, <2>1, <1>2 DEF FetchAuthority, FetchOAuth, Then
      <3>4. r.kind = kind /\ Made(r, u, NoSession)
        <4>1. NoSession.scope = {}
          BY DEF NoSession
        <4> QED BY <3>2, <3>3, <4>1, <1>6, OAuthFetched
      <3> QED BY <3>2, <3>4 DEF Made
    <2> QED BY <2>2, <2>3
  <1>7. CASE kind = "supplicant"
    <2>1. r = FetchSupplicant(NewRelier(kind), u)
      BY <1>7 DEF Fetch
    <2>2. CASE r = Throw(NewRelier(kind), "MISSING_PARAMETER")
      BY <2>2, <1>4, <1>7 DEF Made
    <2>3. CASE r # Throw(NewRelier(kind), "MISSING_PARAMETER")
      <3>1. u.client # "none" /\ r = [NewRelier(kind) EXCEPT !.client = u.client, !.redirect = u.redirect,
                                                              !.scope = u.scope, !.keys = u.keys]
        BY <2>1, <2>3 DEF FetchSupplicant
      <3>2. r.kind = kind /\ IsRelier(r)
        BY <3>1, <1>2, <1>3 DEF IsRelier
      <3>3. r.permissions = {} /\ r.trusted /\ r.service = "none" /\ r.client = u.client
        BY <3>1, <1>2 DEF IsRelier
      <3> QED BY <3>1, <3>2, <3>3, <1>7 DEF Made
    <2> QED BY <2>2, <2>3
  <1>8. CASE kind = "sync"
    <2>1. r = IF base.error = "none" THEN [base EXCEPT !.service = u.service] ELSE base
      BY <1>8 DEF Fetch, Then, FetchSync, base
    <2>2. IsRelier(base) /\ base.kind = kind /\ base.permissions = {} /\ base.trusted
      BY <1>1, <1>2, <1>3, <1>4
    <2>3. r.kind = kind /\ IsRelier(r)
      BY <2>1, <2>2 DEF IsRelier
    <2>4. r.permissions = {} /\ r.trusted
      BY <2>1, <2>2 DEF IsRelier
    <2> QED BY <2>3, <2>4, <1>8 DEF Made
  <1>9. CASE kind = "web"
    <2>1. r = base
      BY <1>9 DEF Fetch, base
    <2> QED BY <2>1, <1>1, <1>2, <1>3, <1>4, <1>9 DEF Made
  <1> QED BY <1>5, <1>6, <1>7, <1>8, <1>9 DEF KindsOfReliers

\* What is known of an OAuth relier once the server has answered.
ClientIsKnown(r) ==
    /\ r.client \in Clients
    /\ r.kind \in {"oauth", "authority"} =>
         /\ r.trusted = (r.client \in Trusted)
         /\ r.permissions = r.scope
         /\ ~r.trusted => r.scope \subseteq UntrustedAllowed
         /\ r.keys => \E s \in r.scope \cap DOMAIN ScopedKeysValidation : r.client \in ScopedKeysValidation[s]

\* A client's answer leaves what was taken of the URL, but for the scope.
SameRequest(r, asked) ==
    /\ IsRelier(r)
    /\ r.kind = asked.kind /\ r.client = asked.client /\ r.keys = asked.keys /\ r.consent = asked.consent
    /\ r.service = asked.service
    /\ r.scope \subseteq asked.scope \cup ReplaceProfile(asked.scope)
    /\ ~asked.consent => r.scope \subseteq asked.scope

LEMMA Answered ==
    ASSUME NEW asked, IsRelier(asked), asked.error = "none", asked.permissions = {},
           NEW r, r = FetchAnswered(asked), r.error = "none"
    PROVE  SameRequest(r, asked) /\ ClientIsKnown(r)
  <1> DEFINE informed == SetupOAuthRPInfo(asked)
             normal == NormalizeScopesAndPermissions(informed)
  <1>1. \A x, e : IsRelier(x) => IsRelier(Throw(x, e)) /\ Throw(x, e).error = e
    BY DEF Throw, IsRelier
  <1>2. /\ r = IF asked.kind = "supplicant" THEN informed
               ELSE IF informed.error # "none" THEN informed
               ELSE IF normal.error # "none" THEN normal
               ELSE ValidateKeyScopeRequest(normal)
    BY DEF FetchAnswered, Then
  <1>3. informed.error # "none" \/ (asked.client \in Clients /\ informed = [asked EXCEPT !.redirect = asked.client, !.trusted = asked.client \in Trusted])
    BY <1>1 DEF SetupOAuthRPInfo
  <1> HIDE DEF informed
  <1>a. CASE informed.error = "none"
    <2> DEFINE permissions == IF ~informed.trusted THEN SanitizeUntrustedPermissions(informed.scope)
                              ELSE IF informed.consent THEN ReplaceProfile(informed.scope)
                              ELSE informed.scope
    <2>1. /\ IsRelier(informed) /\ informed.client = asked.client /\ asked.client \in Clients
          /\ informed.redirect = asked.client /\ informed.scope = asked.scope /\ informed.keys = asked.keys
          /\ informed.consent = asked.consent /\ informed.permissions = {} /\ informed.service = asked.service
      BY <1>a, <1>3 DEF IsRelier
    <2>2. informed.kind = asked.kind /\ informed.trusted = (asked.client \in Trusted)
      BY <1>a, <1>3 DEF IsRelier
    <2>3. CASE asked.kind = "supplicant"
      <3>1. r = informed
        BY <1>2, <2>3
      <3> QED BY <3>1, <2>1, <2>2, <2>3 DEF SameRequest, ClientIsKnown
    <2>4. CASE asked.kind # "supplicant"
      <3>1. normal.error = "none" /\ r = ValidateKeyScopeRequest(normal)
        BY <2>4, <1>2, <1>a
      <3>2. r = normal
        <4>1. IsRelier(normal)
          BY <2>1 DEF NormalizeScopesAndPermissions, Throw, IsRelier
        <4> HIDE DEF normal
        <4>2. r = normal \/ r = Throw(normal, "UNEXPECTED_ERROR")
          BY <3>1 DEF ValidateKeyScopeRequest
        <4> QED BY <4>1, <4>2, <1>1
      <3>3. CASE informed.scope = {}
        <4>1. r = informed
          BY <3>2, <3>3 DEF NormalizeScopesAndPermissions
        <4>2. ~r.keys
          BY <4>1, <3>1, <3>2, <3>3 DEF ValidateKeyScopeRequest, Throw
        <4> QED BY <4>1, <4>2, <2>1, <2>2, <3>3 DEF SameRequest, ClientIsKnown
      <3>4. CASE informed.scope # {}
        <4>1. normal = IF permissions = {} THEN Throw(informed, "INVALID_PARAMETER")
                       ELSE [informed EXCEPT !.scope = permissions, !.permissions = permissions]
          BY <3>4 DEF NormalizeScopesAndPermissions
        <4> HIDE DEF normal
        <4>2. normal = [informed EXCEPT !.scope = permissions, !.permissions = permissions]
          BY <4>1, <3>1, <2>1, <1>1
        <4>3. permissions \subseteq informed.scope \cup ReplaceProfile(informed.scope)
          BY DEF SanitizeUntrustedPermissions
        <4>4. ~informed.consent => permissions \subseteq informed.scope
          BY DEF SanitizeUntrustedPermissions
        <4>5. ~informed.trusted => permissions \subseteq UntrustedAllowed
          BY DEF SanitizeUntrustedPermissions
        <4> HIDE DEF permissions
        <4>6. /\ r.client = asked.client /\ r.redirect = asked.client /\ r.keys = asked.keys /\ r.consent = asked.consent
              /\ r.service = asked.service /\ r.scope = permissions /\ r.permissions = permissions
          BY <4>2, <3>2, <2>1 DEF IsRelier
        <4>7. IsRelier(r) /\ r.kind = asked.kind /\ r.trusted = informed.trusted
          BY <4>2, <3>2, <2>1, <2>2 DEF IsRelier
        <4>8. r.keys => \E s \in r.scope \cap DOMAIN ScopedKeysValidation : r.client \in ScopedKeysValidation[s]
          <5>1. r = Throw(r, "UNEXPECTED_ERROR") => FALSE
            BY <1>1, <4>7
          <5>2. r.keys => LET bearing == r.scope \cap DOMAIN ScopedKeysValidation
                          IN  bearing # {} /\ \A s \in bearing : r.redirect \in ScopedKeysValidation[s]
            BY <5>1, <3>1, <3>2 DEF ValidateKeyScopeRequest
          <5> QED BY <5>2, <4>6
        <4> QED BY <2>1, <2>2, <4>3, <4>4, <4>5, <4>6, <4>7, <4>8 DEF SameRequest, ClientIsKnown
      <3> QED BY <3>3, <3>4
    <2> QED BY <2>3, <2>4
  <1>b. CASE informed.error # "none"
    BY <1>2, <1>b
  <1> QED BY <1>a, <1>b

(***************************************************************************)
(* The inductive invariant.                                                *)
(***************************************************************************)
Shapes ==
    /\ DOMAIN page = {"phase", "screen", "relier", "context", "fxaStatus", "told", "user", "memory", "before"}
    /\ DOMAIN disk = {"user", "session", "context", "account"}
    /\ DOMAIN disk.account = {"values", "seen"} /\ DOMAIN disk.account.seen = Clients
    /\ DOMAIN server = {"opened", "account", "mailed", "granted", "values", "asked"}
    /\ DOMAIN server.asked = Clients
    /\ server.opened \in 1..MaxVisits
    /\ \A g \in server.granted : g.client \in Clients
    /\ url.path \notin InnerScreens

Starting == {"l10n", "relier", "client", "broker", "status", "signinCode", "user", "ready"}

Screens ==
    /\ page.phase \in Starting \cup {"started", "failed"}
    /\ (page.screen = "blank") = (page.phase \in Starting)
    /\ page.phase = "failed" => page.screen \in {"400", "500"}
    /\ page.screen = "permissions" => page.relier.kind = "oauth"
    /\ page.screen = "verify_email" => url.path = "verify_email"

\* The relier before the answer of the server, and after it.
RelierIsMade ==
    page.phase = "client" =>
        /\ page.relier.kind = RelierKind(url, Stored)
        /\ page.relier.error = "none"
        /\ IsOAuthRelier(page.relier)
        /\ Made(page.relier, url, Stored.session)

Known == {"broker", "status", "signinCode", "user", "ready", "started"}

Allowed(client) == server.asked[client] \cup ReplaceProfile(server.asked[client])

RelierIsKnown ==
    page.phase \in Known =>
        /\ IsRelier(page.relier)
        /\ page.relier.kind = "web" => page.relier.service = "none"
        /\ IsOAuthRelier(page.relier) => ClientIsKnown(page.relier) /\ page.relier.service \in {"none", page.relier.client}
        /\ page.relier.kind = "oauth" => page.relier.scope \subseteq Allowed(page.relier.client)

\* The broker is chosen by what the relier was chosen by.
RightBroker(kind, context) ==
    /\ kind = "authority" => context = "device_pairing_authority"
    /\ kind = "supplicant" => context = "device_pairing_supplicant"
    /\ kind = "oauth" => context \in {"oauth", "oauth_chrome_android"}

FitsBroker(u, stored, kind, context) ==
    IF AsksForFirstRun(u, stored) THEN context = "fx_firstrun_v1" ELSE RightBroker(kind, context)

BrokerFits ==
    /\ page.phase = "broker" /\ IsOAuthRelier(page.relier) =>
         /\ page.relier.kind = RelierKind(url, Stored)
         /\ url.link = "none" \/ page.relier.kind \in {"authority", "supplicant"} => url.client # "none"
    /\ page.phase \in Known \ {"broker"} /\ page.screen \notin {"confirm", "finished"} /\ IsOAuthRelier(page.relier) =>
         FitsBroker(url, Stored, page.relier.kind, page.context)

\* What a link wants is what the session of this browser was left with.
LinkFits ==
    page.phase \in Known /\ page.screen \in {"blank", "verify_email"} /\ page.relier.kind = "oauth"
    /\ url.path = "verify_email" /\ url.link # "none" =>
        /\ ~page.relier.keys /\ ~page.relier.consent
        /\ \/ page.relier.scope = {}
           \/ page.relier.client = disk.session.client /\ page.relier.scope \subseteq disk.session.scope

\* A client that is not trusted may have what the user has seen.
HasSeen(client, scope, account) == WithValues(scope, account) \subseteq account.seen[client]

SessionIsSound ==
    /\ disk.session.client \in Clients \cup {"none"}
    /\ disk.session.client = "none" => disk.session.scope = {}
    /\ disk.session.client \in Clients =>
         /\ disk.session.scope \subseteq Allowed(disk.session.client)
         /\ disk.session.client \notin Trusted =>
              /\ disk.session.scope \subseteq UntrustedAllowed
              /\ HasSeen(disk.session.client, disk.session.scope, disk.account)

UrlIsAsked == url.client \in Clients => url.scope \subseteq server.asked[url.client]

UserFits ==
    page.phase = "ready" \/ (page.phase = "started" /\ page.screen \notin InnerScreens) =>
        /\ IsSyncRelier(page.relier) /\ page.fxaStatus => page.user = page.told /\ page.before = disk.user
        /\ ~IsSyncRelier(page.relier) /\ page.before # "none" /\ CanWrite(browser) => page.user = page.before

IInv ==
    /\ Shapes
    /\ Screens
    /\ RelierIsMade
    /\ RelierIsKnown
    /\ BrokerFits
    /\ LinkFits
    /\ SessionIsSound
    /\ UrlIsAsked
    /\ UserFits
    /\ GrantsAreAllowed

(***************************************************************************)
(* What a step leaves alone.                                               *)
(***************************************************************************)
LEMMA StoredIsSame ==
    ASSUME UNCHANGED <<browser, disk>>
    PROVE  Stored' = Stored
  BY DEF Stored, CanRead, EmptyDisk

LEMMA OnlyPage ==
    ASSUME IInv, UNCHANGED <<browser, url, disk, server>>, DOMAIN page' = DOMAIN page
    PROVE  Shapes' /\ SessionIsSound' /\ UrlIsAsked' /\ GrantsAreAllowed' /\ Stored' = Stored
  <1>1. Shapes'
    BY DEF IInv, Shapes
  <1>2. \A c : Allowed(c)' = Allowed(c)
    BY DEF Allowed
  <1>3. SessionIsSound'
    BY <1>2 DEF IInv, SessionIsSound
  <1>4. UrlIsAsked'
    BY DEF IInv, UrlIsAsked
  <1>5. GrantsAreAllowed'
    BY DEF IInv, GrantsAreAllowed
  <1> QED BY <1>1, <1>3, <1>4, <1>5, StoredIsSame

LEMMA FatalErrorKeeps ==
    ASSUME IInv, NEW error, FatalError(error)
    PROVE  IInv'
  <1>1. UNCHANGED <<browser, url, disk, server>> /\ page' = [page EXCEPT !.phase = "failed", !.screen = GetErrorPage(error)]
    BY DEF FatalError
  <1>2. DOMAIN page' = DOMAIN page /\ page'.phase = "failed" /\ page'.screen = GetErrorPage(error) /\ page'.relier = page.relier
    BY <1>1 DEF IInv, Shapes
  <1>3. GetErrorPage(error) \in {"400", "500"}
    BY DEF GetErrorPage
  <1>4. Shapes' /\ SessionIsSound' /\ UrlIsAsked' /\ GrantsAreAllowed'
    BY <1>1, <1>2, OnlyPage
  <1>5. Screens'
    BY <1>2, <1>3 DEF Screens, Starting
  <1>6. RelierIsMade' /\ RelierIsKnown' /\ BrokerFits' /\ LinkFits' /\ UserFits'
    BY <1>2 DEF RelierIsMade, RelierIsKnown, BrokerFits, LinkFits, UserFits, Known
  <1> QED BY <1>4, <1>5, <1>6 DEF IInv

\* A step of the start that goes on with another phase.
LEMMA GoesOn ==
    ASSUME IInv, page.phase \in Starting, NEW next, Goes(next), DOMAIN next = DOMAIN page,
           next.phase \in Starting, next.screen = page.screen
    PROVE  Shapes' /\ SessionIsSound' /\ UrlIsAsked' /\ GrantsAreAllowed' /\ Stored' = Stored /\ Screens' /\ page' = next
  <1>1. page' = next /\ UNCHANGED <<browser, url, disk, server>>
    BY DEF Goes
  <1>2. Screens'
    BY <1>1 DEF IInv, Screens, Starting
  <1> QED BY <1>1, <1>2, OnlyPage

(***************************************************************************)
(* The start.                                                              *)
(***************************************************************************)
LEMMA InitializeL10nKeeps ==
    ASSUME IInv, InitializeL10n
    PROVE  IInv'
  <1>1. CASE FatalError("no texts")
    BY <1>1, FatalErrorKeeps
  <1>2. CASE Goes([page EXCEPT !.phase = "relier"])
    <2> DEFINE next == [page EXCEPT !.phase = "relier"]
    <2>1. DOMAIN next = DOMAIN page /\ next.phase = "relier" /\ next.screen = page.screen
      BY DEF IInv, Shapes
    <2>2. page.phase \in Starting /\ next.phase \in Starting
      BY <2>1 DEF InitializeL10n, Starting
    <2> HIDE DEF next
    <2>3. Shapes' /\ SessionIsSound' /\ UrlIsAsked' /\ GrantsAreAllowed' /\ Screens' /\ page' = next
      BY <1>2, <2>1, <2>2, GoesOn DEF next
    <2>4. RelierIsMade' /\ RelierIsKnown' /\ BrokerFits' /\ LinkFits' /\ UserFits'
      BY <2>1, <2>3 DEF RelierIsMade, RelierIsKnown, BrokerFits, LinkFits, UserFits, Known
    <2> QED BY <2>3, <2>4 DEF IInv
  <1> QED BY <1>1, <1>2 DEF InitializeL10n

LEMMA KindIsKnown ==
    ASSUME NEW u, NEW stored
    PROVE  RelierKind(u, stored) \in KindsOfReliers
  BY DEF RelierKind, KindsOfReliers

LEMMA NoSessionNoScope ==
    ASSUME Stored.session = NoSession
    PROVE  Stored.session.scope = {}
  BY DEF NoSession

LEMMA InitializeRelierKeeps ==
    ASSUME IInv, InitializeRelier
    PROVE  IInv'
  <1>1. CASE \E error : FatalError(error)
    BY <1>1, FatalErrorKeeps
  <1>2. CASE ~ \E error : FatalError(error)
    <2> DEFINE r == Fetch(RelierKind(url, Stored), url, Stored.session, IsVerification(url))
               next == [page EXCEPT !.relier = r, !.phase = IF IsOAuthRelier(r) THEN "client" ELSE "broker"]
    <2>1. r.error = "none" /\ Goes(next)
      BY <1>2 DEF InitializeRelier
    <2>2. r.kind = RelierKind(url, Stored) /\ Made(r, url, Stored.session)
      BY KindIsKnown, NoSessionNoScope, Fetched
    <2> HIDE DEF r
    <2>3. /\ DOMAIN next = DOMAIN page /\ next.phase = IF IsOAuthRelier(r) THEN "client" ELSE "broker"
          /\ next.screen = page.screen /\ next.relier = r
      BY DEF IInv, Shapes
    <2>4. page.phase \in Starting /\ next.phase \in Starting
      BY <2>3 DEF InitializeRelier, Starting
    <2> HIDE DEF next
    <2>5. Shapes' /\ SessionIsSound' /\ UrlIsAsked' /\ GrantsAreAllowed' /\ Screens' /\ page' = next /\ Stored' = Stored
      BY <2>1, <2>3, <2>4, GoesOn
    <2>6. url' = url
      BY <2>1 DEF Goes
    <2>7. RelierIsMade'
      BY <2>1, <2>2, <2>3, <2>5, <2>6 DEF RelierIsMade
    <2>8. ~IsOAuthRelier(r) => r.kind # "oauth"
      BY DEF IsOAuthRelier
    <2>9. RelierIsKnown' /\ BrokerFits' /\ LinkFits' /\ UserFits'
      BY <2>2, <2>3, <2>5, <2>8 DEF RelierIsKnown, BrokerFits, LinkFits, UserFits, Known, Made
    <2> QED BY <2>5, <2>7, <2>9 DEF IInv
  <1> QED BY <1>1, <1>2

\* What may be asked for grows with what is asked.
LEMMA ReplacementGrows ==
    ASSUME NEW small, NEW big, small \subseteq big
    PROVE  small \cup ReplaceProfile(small) \subseteq big \cup ReplaceProfile(big)
  BY DEF ReplaceProfile

LEMMA StoredSession ==
    ASSUME SessionIsSound
    PROVE  Stored.session = disk.session \/ Stored.session.scope = {}
  BY DEF Stored, EmptyDisk, NoSession

LEMMA AnsweredIsAllowed ==
    ASSUME IInv, page.phase = "client", NEW r, r.kind = "oauth",
           SameRequest(r, page.relier), ClientIsKnown(r)
    PROVE  /\ r.scope \subseteq Allowed(r.client)
           /\ url.path = "verify_email" /\ url.link # "none" =>
                /\ ~r.keys /\ ~r.consent
                /\ r.scope = {} \/ (r.client = disk.session.client /\ r.scope \subseteq disk.session.scope)
  <1> DEFINE asked == page.relier
  <1>1. /\ asked.kind = "oauth" /\ r.client = asked.client /\ r.client \in Clients
        /\ r.scope \subseteq asked.scope \cup ReplaceProfile(asked.scope)
        /\ r.keys = asked.keys /\ r.consent = asked.consent
        /\ ~asked.consent => r.scope \subseteq asked.scope
    BY DEF SameRequest, ClientIsKnown
  <1>2. Made(asked, url, Stored.session) /\ asked.error = "none"
    BY DEF IInv, RelierIsMade
  <1>3. IF url.link # "none" /\ ~IsSuccessFlow(url) THEN TakenOfSession(asked, Stored.session) ELSE TakenOfUrl(asked, url)
    BY <1>1, <1>2 DEF Made
  <1>4. SessionIsSound /\ UrlIsAsked
    BY DEF IInv
  <1>5. CASE TakenOfSession(asked, Stored.session)
    <2>1. ~r.keys /\ ~r.consent /\ (r.scope = {} \/ (r.client = disk.session.client /\ r.scope \subseteq disk.session.scope))
      BY <1>1, <1>4, <1>5, StoredSession DEF TakenOfSession
    <2>2. r.scope \subseteq Allowed(r.client)
      BY <2>1, <1>1, <1>4 DEF SessionIsSound
    <2> QED BY <2>1, <2>2
  <1>6. CASE ~(url.link # "none" /\ ~IsSuccessFlow(url))
    <2>1. asked.scope \subseteq url.scope /\ asked.client = url.client
      BY <1>3, <1>6 DEF TakenOfUrl
    <2>2. asked.scope \subseteq server.asked[r.client]
      BY <2>1, <1>1, <1>4 DEF UrlIsAsked
    <2>3. r.scope \subseteq Allowed(r.client)
      BY <2>2, <1>1, ReplacementGrows DEF Allowed
    <2> QED BY <2>3, <1>6 DEF IsSuccessFlow
  <1> QED BY <1>3, <1>5, <1>6

LEMMA ClientInfoKeeps ==
    ASSUME IInv, ClientInfo
    PROVE  IInv'
  <1>1. CASE \E error : FatalError(error)
    BY <1>1, FatalErrorKeeps
  <1>2. CASE ~ \E error : FatalError(error)
    <2> DEFINE r == FetchAnswered(page.relier)
               next == [page EXCEPT !.relier = r, !.phase = "broker"]
    <2>1. r.error = "none" /\ Goes(next) /\ page.phase = "client"
      BY <1>2 DEF ClientInfo
    <2>2. Made(page.relier, url, Stored.session) /\ page.relier.error = "none" /\ IsOAuthRelier(page.relier)
          /\ page.relier.kind = RelierKind(url, Stored)
      BY <2>1 DEF IInv, RelierIsMade
    <2>3. SameRequest(r, page.relier) /\ ClientIsKnown(r)
      <3>1. IsRelier(page.relier) /\ page.relier.permissions = {}
        BY <2>2 DEF Made
      <3> QED BY <3>1, <2>1, <2>2, Answered
    <2> HIDE DEF r
    <2>4. /\ DOMAIN next = DOMAIN page /\ next.phase = "broker" /\ next.screen = page.screen /\ next.relier = r
      BY DEF IInv, Shapes
    <2>5. page.phase \in Starting /\ next.phase \in Starting
      BY <2>1, <2>4 DEF Starting
    <2> HIDE DEF next
    <2>6. Shapes' /\ SessionIsSound' /\ UrlIsAsked' /\ GrantsAreAllowed' /\ Screens' /\ page' = next /\ Stored' = Stored
      BY <2>1, <2>4, <2>5, GoesOn
    <2>7. UNCHANGED <<browser, url, disk, server>>
      BY <2>1 DEF Goes
    <2>8. IsRelier(r) /\ IsOAuthRelier(r) /\ r.kind = page.relier.kind /\ r.service \in {"none", r.client}
      <3>1. IsRelier(r) /\ r.kind = page.relier.kind /\ r.service = page.relier.service /\ r.client = page.relier.client
        BY <2>3 DEF SameRequest
      <3>2. IsOAuthRelier(r)
        BY <3>1, <2>2 DEF IsOAuthRelier
      <3>3. page.relier.service \in {"none", page.relier.client}
        BY <2>2 DEF Made, IsOAuthRelier
      <3> QED BY <3>1, <3>2, <3>3
    <2>9. r.kind # "web"
      BY <2>8 DEF IsOAuthRelier
    <2>10. RelierIsKnown'
      <3>1. r.kind = "oauth" => r.scope \subseteq Allowed(r.client)
        BY <2>1, <2>3, AnsweredIsAllowed
      <3>2. \A c : Allowed(c)' = Allowed(c)
        BY <2>7 DEF Allowed
      <3> QED BY <3>1, <3>2, <2>3, <2>4, <2>6, <2>8, <2>9 DEF RelierIsKnown
    <2>11. BrokerFits'
      <3>1. url.link = "none" \/ r.kind \in {"authority", "supplicant"} => url.client # "none"
        BY <2>2, <2>8 DEF Made, IsOAuthRelier
      <3> QED BY <3>1, <2>2, <2>4, <2>6, <2>7, <2>8 DEF BrokerFits
    <2>12. LinkFits'
      BY <2>1, <2>3, <2>4, <2>6, <2>7, AnsweredIsAllowed DEF LinkFits
    <2>13. RelierIsMade' /\ UserFits'
      BY <2>4, <2>6 DEF RelierIsMade, UserFits
    <2> QED BY <2>6, <2>10, <2>11, <2>12, <2>13 DEF IInv
  <1> QED BY <1>1, <1>2

\* The rows of conditions agree, but for the first run of Sync.
LEMMA RowsAgree ==
    ASSUME NEW u, NEW stored, NEW agent, NEW kind, kind = RelierKind(u, stored),
           kind \in {"oauth", "authority", "supplicant"},
           u.link = "none" \/ kind \in {"authority", "supplicant"} => u.client # "none"
    PROVE  FitsBroker(u, stored, kind, BrokerContext(u, stored, agent))
  <1>0. CASE AsksForFirstRun(u, stored)
    <2>1. "fx_firstrun_v1" \notin PairingContexts /\ Broker!Get("fx_firstrun_v1") = "fx_firstrun_v1"
      BY DEF PairingContexts, Broker!Get, Broker!Contexts, Broker!SyncContexts
    <2> QED BY <2>1, <1>0 DEF BrokerContext, FitsBroker
  <1> SUFFICES ASSUME ~AsksForFirstRun(u, stored)
               PROVE  RightBroker(kind, BrokerContext(u, stored, agent))
    BY <1>0 DEF FitsBroker
  <1>1. ~AsksForFirstRun(u, stored)
    OBVIOUS
  <1>2. CASE IsDevicePairingAsAuthority(u)
    <2>1. kind = "authority" /\ IsOAuth(u, stored)
      BY <1>2 DEF RelierKind, IsOAuth
    <2>2. BrokerContext(u, stored, agent) = "device_pairing_authority"
      BY <2>1, <1>1, <1>2 DEF BrokerContext, ChooseOAuthBrokerContext, PairingContexts
    <2> QED BY <2>1, <2>2 DEF RightBroker
  <1>3. CASE ~IsDevicePairingAsAuthority(u) /\ IsDevicePairingAsSupplicant(u)
    <2>1. kind = "supplicant" /\ IsOAuth(u, stored)
      BY <1>3 DEF RelierKind, IsOAuth
    <2>2. BrokerContext(u, stored, agent) = "device_pairing_supplicant"
      BY <2>1, <1>1, <1>3 DEF BrokerContext, ChooseOAuthBrokerContext, PairingContexts
    <2> QED BY <2>1, <2>2 DEF RightBroker
  <1>4. CASE ~IsDevicePairingAsAuthority(u) /\ ~IsDevicePairingAsSupplicant(u)
    <2>1. kind = "oauth" /\ IsOAuth(u, stored)
      BY <1>4 DEF RelierKind
    <2>2. ChooseOAuthBrokerContext(u, agent) \in {"oauth", "oauth_chrome_android"}
      BY <1>4 DEF ChooseOAuthBrokerContext
    <2>3. \A c \in {"oauth", "oauth_chrome_android"} : c \notin PairingContexts /\ Broker!Get(c) = c
      BY DEF PairingContexts, Broker!Get, Broker!Contexts, Broker!SyncContexts, Broker!OAuthContexts
    <2>4. BrokerContext(u, stored, agent) \in {"oauth", "oauth_chrome_android"}
      BY <2>1, <2>2, <2>3, <1>1 DEF BrokerContext
    <2> QED BY <2>1, <2>4 DEF RightBroker
  <1> QED BY <1>2, <1>3, <1>4

\* What is asked for is told by the URL and by the context that is stored.
LEMMA AskingIsSame ==
    ASSUME url' = url, browser' = browser, disk'.context = disk.context
    PROVE  AsksForFirstRun(url, Stored)' = AsksForFirstRun(url, Stored)
  <1>1. Stored'.context = Stored.context
    BY DEF Stored, CanRead, EmptyDisk
  <1> QED BY <1>1 DEF AsksForFirstRun, GetContext, GetVerificationContext

\* A later step of the start keeps the relier, and the context it has once it has one.
LEMMA LaterStart ==
    ASSUME IInv, page.phase \in Known \ {"broker", "ready", "started"}, NEW next, Goes(next), DOMAIN next = DOMAIN page,
           next.phase \in {"signinCode", "user"}, next.screen = page.screen,
           next.relier = page.relier, next.context = page.context
    PROVE  IInv'
  <1>1. page.phase \in Starting /\ next.phase \in Starting /\ next.phase \in Known /\ next.phase \notin {"broker", "client", "ready", "started"}
    BY DEF Known, Starting
  <1>2. Shapes' /\ SessionIsSound' /\ UrlIsAsked' /\ GrantsAreAllowed' /\ Screens' /\ page' = next /\ Stored' = Stored
    BY <1>1, GoesOn
  <1>3. UNCHANGED <<browser, url, disk, server>>
    BY DEF Goes
  <1>4. RelierIsKnown'
    <2>1. \A c : Allowed(c)' = Allowed(c)
      BY <1>3 DEF Allowed
    <2> QED BY <2>1, <1>1, <1>2 DEF IInv, RelierIsKnown
  <1>5. BrokerFits' /\ LinkFits'
    BY <1>1, <1>2, <1>3 DEF IInv, BrokerFits, LinkFits
  <1>6. RelierIsMade' /\ UserFits'
    BY <1>1, <1>2 DEF RelierIsMade, UserFits
  <1> QED BY <1>2, <1>4, <1>5, <1>6 DEF IInv

LEMMA InitializeAuthenticationBrokerKeeps ==
    ASSUME IInv, InitializeAuthenticationBroker
    PROVE  IInv'
  <1>1. CASE \E error : FatalError(error)
    BY <1>1, FatalErrorKeeps
  <1>2. CASE ~ \E error : FatalError(error)
    <2> DEFINE context == BrokerContext(url, Stored, browser.agent)
               next == [page EXCEPT !.context = context, !.fxaStatus = browser.agent = "desktop",
                                    !.phase = IF browser.agent = "desktop" THEN "status" ELSE "signinCode"]
    <2>1. Goes(next) /\ page.phase = "broker"
      BY <1>2 DEF InitializeAuthenticationBroker
    <2> HIDE DEF context
    <2>2. /\ DOMAIN next = DOMAIN page /\ next.phase \in {"status", "signinCode"} /\ next.screen = page.screen
          /\ next.relier = page.relier /\ next.context = context
      BY DEF IInv, Shapes
    <2>3. page.phase \in Starting /\ next.phase \in Starting
      BY <2>1, <2>2 DEF Starting
    <2> HIDE DEF next
    <2>4. Shapes' /\ SessionIsSound' /\ UrlIsAsked' /\ GrantsAreAllowed' /\ Screens' /\ page' = next /\ Stored' = Stored
      BY <2>1, <2>2, <2>3, GoesOn
    <2>5. UNCHANGED <<browser, url, disk, server>>
      BY <2>1 DEF Goes
    <2>6. RelierIsKnown'
      <3>1. \A c : Allowed(c)' = Allowed(c)
        BY <2>5 DEF Allowed
      <3> QED BY <3>1, <2>1, <2>2, <2>4 DEF IInv, RelierIsKnown, Known
    <2>7. BrokerFits'
      <3>1. IsOAuthRelier(page.relier) => FitsBroker(url, Stored, page.relier.kind, context)
        <4>1. IsOAuthRelier(page.relier) => page.relier.kind = RelierKind(url, Stored)
                /\ (url.link = "none" \/ page.relier.kind \in {"authority", "supplicant"} => url.client # "none")
          BY <2>1 DEF IInv, BrokerFits
        <4> QED BY <4>1, RowsAgree DEF context, IsOAuthRelier
      <3> QED BY <3>1, <2>2, <2>4, <2>5 DEF BrokerFits
    <2>8. LinkFits'
      BY <2>1, <2>2, <2>4, <2>5 DEF IInv, LinkFits, Known
    <2>9. RelierIsMade' /\ UserFits'
      BY <2>2, <2>4 DEF RelierIsMade, UserFits
    <2> QED BY <2>4, <2>6, <2>7, <2>8, <2>9 DEF IInv
  <1> QED BY <1>1, <1>2

LEMMA FetchFxaStatusKeeps ==
    ASSUME IInv, FetchFxaStatus
    PROVE  IInv'
  <1>1. CASE \E error : FatalError(error)
    BY <1>1, FatalErrorKeeps
  <1>2. ASSUME NEW next, Goes(next),
               next = [page EXCEPT !.told = browser.account, !.phase = "signinCode"]
               \/ next = [page EXCEPT !.fxaStatus = FALSE, !.phase = "signinCode"]
        PROVE  IInv'
    <2>1. /\ DOMAIN next = DOMAIN page /\ next.phase = "signinCode" /\ next.screen = page.screen
          /\ next.relier = page.relier /\ next.context = page.context
      BY <1>2 DEF IInv, Shapes
    <2>2. page.phase \in Known \ {"broker", "ready", "started"}
      BY DEF FetchFxaStatus, Known
    <2> QED BY <2>1, <2>2, <1>2, LaterStart
  <1> QED BY <1>1, <1>2 DEF FetchFxaStatus, StatusSettles

LEMMA ConsumeSigninCodeKeeps ==
    ASSUME IInv, ConsumeSigninCode
    PROVE  IInv'
  <1>1. CASE \E error : FatalError(error)
    BY <1>1, FatalErrorKeeps
  <1>2. CASE Goes([page EXCEPT !.phase = "user"])
    <2> DEFINE next == [page EXCEPT !.phase = "user"]
    <2>1. /\ DOMAIN next = DOMAIN page /\ next.phase = "user" /\ next.screen = page.screen
          /\ next.relier = page.relier /\ next.context = page.context
      BY DEF IInv, Shapes
    <2>2. page.phase \in Known \ {"broker", "ready", "started"}
      BY DEF ConsumeSigninCode, Known
    <2> HIDE DEF next
    <2>3. Goes(next)
      BY <1>2 DEF next
    <2> QED BY <2>1, <2>2, <2>3, LaterStart
  <1> QED BY <1>1, <1>2 DEF ConsumeSigninCode

\* A relier that is not of Sync names no service, or its client; no client is named sync.
LEMMA ServiceIsNotSync ==
    ASSUME RelierIsKnown, page.phase \in Known, ~IsSyncRelier(page.relier)
    PROVE  page.relier.service # "sync"
  BY DEF RelierIsKnown, IsSyncRelier, IsOAuthRelier, IsRelier, KindsOfReliers, ClientIsKnown, Clients

LEMMA InitializeUserKeeps ==
    ASSUME IInv, InitializeUser
    PROVE  IInv'
  <1> DEFINE memory == ShouldUseMemoryStorage(page) \/ ~CanWrite(browser)
             signedIn == IF memory THEN "none" ELSE disk.user
             user == IF ShouldSetSignedInAccountFromBrowser(page, signedIn) /\ page.told # "none" THEN page.told ELSE signedIn
             next == [page EXCEPT !.phase = "ready", !.memory = memory, !.user = user, !.before = disk.user]
  <1>1. page.phase = "user" /\ page' = next /\ UNCHANGED <<browser, url, server>>
        /\ disk' = IF memory THEN disk ELSE [disk EXCEPT !.user = user]
    BY DEF InitializeUser
  <1>2. Shapes /\ Screens
    BY DEF IInv
  <1>3. /\ DOMAIN page' = DOMAIN page /\ page'.phase = "ready" /\ page'.screen = page.screen /\ page'.relier = page.relier
        /\ page'.context = page.context /\ page'.fxaStatus = page.fxaStatus /\ page'.told = page.told
        /\ page'.user = user /\ page'.before = disk.user
    BY <1>1, <1>2 DEF Shapes
  <1>4. DOMAIN disk' = DOMAIN disk /\ disk'.session = disk.session /\ disk'.account = disk.account
        /\ disk'.context = disk.context
    BY <1>1, <1>2 DEF Shapes
  <1>5. memory => disk' = disk
    BY <1>1
  <1>6. UserFits'
    <2>1. CASE IsSyncRelier(page.relier) /\ page.fxaStatus
      <3>1. memory
        BY <2>1 DEF ShouldUseMemoryStorage
      <3>2. user = page.told
        BY <3>1, <2>1 DEF ShouldSetSignedInAccountFromBrowser, IsSyncRelier
      <3> HIDE DEF user, memory
      <3> QED BY <3>1, <3>2, <2>1, <1>3, <1>5 DEF UserFits
    <2>2. CASE ~IsSyncRelier(page.relier)
      <3>1. page.relier.service # "sync"
        BY <2>2, <1>1, ServiceIsNotSync DEF IInv, Known
      <3>2. disk.user # "none" /\ CanWrite(browser) => user = disk.user
        BY <2>2, <3>1 DEF ShouldUseMemoryStorage, ShouldSetSignedInAccountFromBrowser
      <3> HIDE DEF user, memory
      <3>3. CanWrite(browser)' = CanWrite(browser)
        BY <1>1 DEF CanWrite
      <3> QED BY <3>2, <3>3, <2>2, <1>3 DEF UserFits
    <2>3. CASE IsSyncRelier(page.relier) /\ ~page.fxaStatus
      BY <2>3, <1>3 DEF UserFits
    <2> QED BY <2>1, <2>2, <2>3
  <1> HIDE DEF next, user, memory
  <1>7. Shapes' /\ Screens'
    BY <1>1, <1>2, <1>3, <1>4 DEF Shapes, Screens, Starting
  <1>8. \A c : Allowed(c)' = Allowed(c)
    BY <1>1 DEF Allowed
  <1>9. RelierIsKnown'
    BY <1>1, <1>3, <1>8 DEF IInv, RelierIsKnown, Known
  <1>10. BrokerFits' /\ LinkFits'
    <2>1. AsksForFirstRun(url, Stored)' = AsksForFirstRun(url, Stored)
      BY <1>1, <1>4, AskingIsSame
    <2>2. BrokerFits'
      BY <2>1, <1>1, <1>3 DEF IInv, BrokerFits, FitsBroker, Known
    <2>3. LinkFits'
      BY <1>1, <1>3, <1>4 DEF IInv, LinkFits, Known
    <2> QED BY <2>2, <2>3
  <1>11. RelierIsMade'
    BY <1>3 DEF RelierIsMade
  <1>12. SessionIsSound'
    BY <1>4, <1>8 DEF IInv, SessionIsSound
  <1>13. UrlIsAsked' /\ GrantsAreAllowed'
    BY <1>1 DEF IInv, UrlIsAsked, GrantsAreAllowed
  <1> QED BY <1>6, <1>7, <1>9, <1>10, <1>11, <1>12, <1>13 DEF IInv

LEMMA AllResourcesReadyKeeps ==
    ASSUME IInv, AllResourcesReady
    PROVE  IInv'
  <1> DEFINE next == [page EXCEPT !.phase = "started", !.screen = SelectStartPage]
  <1>1. page.phase = "ready" /\ page' = next /\ UNCHANGED <<browser, url, disk, server>>
    BY DEF AllResourcesReady, Goes
  <1>2. SelectStartPage \in {"cookies_disabled", "pair/auth/allow", url.path}
    BY DEF SelectStartPage
  <1>3. Shapes /\ Screens
    BY DEF IInv
  <1>4. /\ DOMAIN page' = DOMAIN page /\ page'.phase = "started" /\ page'.screen = SelectStartPage
        /\ page'.relier = page.relier /\ page'.context = page.context /\ page'.fxaStatus = page.fxaStatus
        /\ page'.told = page.told /\ page'.user = page.user /\ page'.before = page.before
    BY <1>1, <1>3 DEF Shapes
  <1>5. page.screen = "blank"
    BY <1>1, <1>3 DEF Screens, Starting
  <1>6. SelectStartPage \notin InnerScreens
    BY <1>2, <1>3 DEF Shapes, InnerScreens
  <1>7. Screens'
    BY <1>1, <1>2, <1>4, <1>6 DEF Screens, Starting, InnerScreens
  <1>8. Shapes' /\ SessionIsSound' /\ UrlIsAsked' /\ GrantsAreAllowed'
    BY <1>1, <1>4, OnlyPage
  <1>9. RelierIsKnown'
    <2>1. \A c : Allowed(c)' = Allowed(c)
      BY <1>1 DEF Allowed
    <2> QED BY <2>1, <1>1, <1>4 DEF IInv, RelierIsKnown, Known
  <1>10. BrokerFits' /\ LinkFits'
    <2>1. Stored' = Stored
      BY <1>1, StoredIsSame
    <2> QED BY <2>1, <1>1, <1>4, <1>5 DEF IInv, BrokerFits, LinkFits, Known
  <1>11. RelierIsMade'
    BY <1>4 DEF RelierIsMade
  <1>12. UserFits'
    <2>1. CanWrite(browser)' = CanWrite(browser)
      BY <1>1 DEF CanWrite
    <2> QED BY <2>1, <1>1, <1>4 DEF IInv, UserFits
  <1> QED BY <1>7, <1>8, <1>9, <1>10, <1>11, <1>12 DEF IInv

(***************************************************************************)
(* Signing in, and the permissions.                                        *)
(***************************************************************************)
\* The user has seen what the code gives to the client.
MayHave(relier, account) == (relier.trusted /\ ~relier.consent) \/ HasSeen(relier.client, relier.scope, account)

IsAccount(account) == DOMAIN account = {"values", "seen"} /\ DOMAIN account.seen = Clients

\* One code that is granted.
GrantIsAllowed(g, asked) ==
    /\ g.client \notin Trusted => g.scope \subseteq UntrustedAllowed
    /\ g.scope \subseteq asked[g.client] \cup ReplaceProfile(asked[g.client])
    /\ g.keys => \E s \in g.scope \cap DOMAIN ScopedKeysValidation : g.client \in ScopedKeysValidation[s]
    /\ g.unseen = {}

LEMMA CodeIsAllowed ==
    ASSUME NEW r, r.kind = "oauth", ClientIsKnown(r), r.scope \subseteq Allowed(r.client),
           NEW account, MayHave(r, account)
    PROVE  GrantIsAllowed(Granted(r, account), server.asked)
  <1> DEFINE g == Granted(r, account)
  <1>1. g.client = r.client /\ g.scope = r.scope /\ g.keys = r.keys
    BY DEF Granted
  <1>2. g.unseen = {}
    BY DEF Granted, MayHave, HasSeen
  <1> HIDE DEF g
  <1>3. g.client \notin Trusted => g.scope \subseteq UntrustedAllowed
    BY <1>1 DEF ClientIsKnown
  <1>4. g.keys => \E s \in g.scope \cap DOMAIN ScopedKeysValidation : g.client \in ScopedKeysValidation[s]
    BY <1>1 DEF ClientIsKnown
  <1> QED BY <1>1, <1>2, <1>3, <1>4 DEF GrantIsAllowed, Allowed, g

\* A page that has left its start: the screens that follow tell nothing of how it started.
LEMMA InnerScreen ==
    ASSUME IInv, page.phase = "started", DOMAIN page' = DOMAIN page, page'.phase = "started", page'.relier = page.relier,
           page'.context = page.context, page'.screen \in {"permissions", "confirm", "finished"},
           page'.screen = "permissions" =>
               page.relier.kind = "oauth" /\ page.screen = "oauth/signin" /\ UNCHANGED <<browser, disk>>,
           url' = url, server'.asked = server.asked
    PROVE  Screens' /\ RelierIsMade' /\ RelierIsKnown' /\ BrokerFits' /\ LinkFits' /\ UserFits'
  <1>1. \A c : Allowed(c)' = Allowed(c)
    BY DEF Allowed
  <1>2. RelierIsKnown'
    BY <1>1 DEF IInv, RelierIsKnown, Known
  <1>3. BrokerFits'
    <2>1. page'.screen = "permissions" => Stored' = Stored
      BY StoredIsSame
    <2> QED BY <2>1 DEF IInv, BrokerFits, Known
  <1>4. LinkFits' /\ UserFits'
    BY DEF LinkFits, UserFits, InnerScreens
  <1>5. Screens' /\ RelierIsMade'
    BY DEF Screens, RelierIsMade, Starting, InnerScreens
  <1> QED BY <1>2, <1>3, <1>4, <1>5

LEMMA FinishSignInKeeps ==
    ASSUME IInv, page.phase = "started", page.relier.kind = "oauth",
           NEW known, DOMAIN known = DOMAIN server, known.asked = server.asked, known.granted = server.granted,
           known.opened = server.opened,
           NEW account, IsAccount(account), MayHave(page.relier, account),
           FinishSignIn(known, account)
    PROVE  IInv'
  <1> DEFINE next == [page EXCEPT !.screen = "finished"]
             later == [disk EXCEPT !.user = "b", !.account = account, !.session = NoSession]
  <1>1. page' = next /\ server' = [known EXCEPT !.granted = @ \cup {Granted(page.relier, account)}]
        /\ UNCHANGED <<browser, url>> /\ (disk' = later \/ disk' = disk)
    BY DEF FinishSignIn, Write
  <1>2. Shapes /\ SessionIsSound
    BY DEF IInv
  <1>3. DOMAIN page' = DOMAIN page /\ page'.phase = "started" /\ page'.screen = "finished" /\ page'.relier = page.relier
        /\ page'.context = page.context
    BY <1>1, <1>2 DEF Shapes
  <1>4. DOMAIN server' = DOMAIN server /\ server'.asked = server.asked /\ server'.opened = server.opened
        /\ server'.granted = server.granted \cup {Granted(page.relier, account)}
    BY <1>1, <1>2 DEF Shapes
  <1>5. DOMAIN later = DOMAIN disk /\ later.session = NoSession /\ later.account = account
    BY <1>2 DEF Shapes
  <1> HIDE DEF next, later
  <1>6. Shapes'
    <2>1. page.relier.client \in Clients
      BY DEF IInv, RelierIsKnown, ClientIsKnown, IsOAuthRelier, Known
    <2>2. Granted(page.relier, account).client = page.relier.client
      BY DEF Granted
    <2> QED BY <2>1, <2>2, <1>1, <1>2, <1>3, <1>4, <1>5 DEF Shapes, IsAccount
  <1>7. Screens' /\ RelierIsMade' /\ RelierIsKnown' /\ BrokerFits' /\ LinkFits' /\ UserFits'
    BY <1>1, <1>3, <1>4, InnerScreen DEF InnerScreens
  <1>8. SessionIsSound'
    <2>1. \A c : Allowed(c)' = Allowed(c)
      BY <1>4 DEF Allowed
    <2>2. CASE disk' = disk
      BY <2>1, <2>2, <1>2 DEF SessionIsSound
    <2>3. CASE disk' = later
      BY <2>3, <1>5 DEF SessionIsSound, NoSession, Clients
    <2> QED BY <2>2, <2>3, <1>1
  <1>9. UrlIsAsked'
    BY <1>1, <1>4 DEF IInv, UrlIsAsked
  <1>10. GrantsAreAllowed'
    <2>1. RelierIsKnown
      BY DEF IInv
    <2>2. ClientIsKnown(page.relier) /\ page.relier.scope \subseteq Allowed(page.relier.client)
      BY <2>1 DEF RelierIsKnown, IsOAuthRelier, Known
    <2>3. GrantIsAllowed(Granted(page.relier, account), server.asked)
      BY <2>2, CodeIsAllowed
    <2>4. \A g \in server.granted : GrantIsAllowed(g, server.asked)
      BY DEF IInv, GrantsAreAllowed, GrantIsAllowed
    <2>5. \A g \in server'.granted : GrantIsAllowed(g, server'.asked)
      BY <2>3, <2>4, <1>4
    <2> QED BY <2>5 DEF GrantsAreAllowed, GrantIsAllowed
  <1> QED BY <1>6, <1>7, <1>8, <1>9, <1>10 DEF IInv

LEMMA WaitForEmailKeeps ==
    ASSUME IInv, page.phase = "started", page.relier.kind = "oauth",
           NEW known, DOMAIN known = DOMAIN server, known.asked = server.asked, known.granted = server.granted,
           known.opened = server.opened,
           NEW account, IsAccount(account), MayHave(page.relier, account),
           WaitForEmail(known, account)
    PROVE  IInv'
  <1> DEFINE next == [page EXCEPT !.screen = "confirm"]
             later == [disk EXCEPT !.user = "b", !.account = account, !.context = RelierContext(url, Stored),
                                   !.session = PersistOAuth(page.relier)]
  <1>1. page' = next /\ server' = [known EXCEPT !.mailed = @ \cup {page.relier.client}]
        /\ UNCHANGED <<browser, url>> /\ (disk' = later \/ disk' = disk)
    BY DEF WaitForEmail, Write
  <1>2. Shapes /\ SessionIsSound
    BY DEF IInv
  <1>3. DOMAIN page' = DOMAIN page /\ page'.phase = "started" /\ page'.screen = "confirm" /\ page'.relier = page.relier
        /\ page'.context = page.context
    BY <1>1, <1>2 DEF Shapes
  <1>4. DOMAIN server' = DOMAIN server /\ server'.asked = server.asked /\ server'.opened = server.opened
        /\ server'.granted = server.granted
    BY <1>1, <1>2 DEF Shapes
  <1>5. DOMAIN later = DOMAIN disk /\ later.session = PersistOAuth(page.relier) /\ later.account = account
    BY <1>2 DEF Shapes
  <1> HIDE DEF next, later
  <1>6. Shapes'
    BY <1>1, <1>2, <1>3, <1>4, <1>5 DEF Shapes, IsAccount
  <1>7. Screens' /\ RelierIsMade' /\ RelierIsKnown' /\ BrokerFits' /\ LinkFits' /\ UserFits'
    BY <1>1, <1>3, <1>4, InnerScreen DEF InnerScreens
  <1>8. SessionIsSound'
    <2>1. \A c : Allowed(c)' = Allowed(c)
      BY <1>4 DEF Allowed
    <2>2. CASE disk' = disk
      BY <2>1, <2>2, <1>2 DEF SessionIsSound
    <2>3. CASE disk' = later
      <3> DEFINE r == page.relier
      <3>1. RelierIsKnown
        BY DEF IInv
      <3>2. ClientIsKnown(r) /\ r.scope \subseteq Allowed(r.client)
        BY <3>1 DEF RelierIsKnown, IsOAuthRelier, Known
      <3>3. disk'.session.client = r.client /\ disk'.session.scope = r.scope /\ disk'.account = account
        BY <2>3, <1>5 DEF PersistOAuth
      <3>4. r.client \in Clients
        BY <3>2 DEF ClientIsKnown
      <3>5. r.client \notin Trusted => r.scope \subseteq UntrustedAllowed /\ HasSeen(r.client, r.scope, account)
        BY <3>2 DEF ClientIsKnown, MayHave
      <3> HIDE DEF r
      <3>6. disk'.session.client # "none"
        BY <3>3, <3>4 DEF Clients
      <3> QED BY <3>2, <3>3, <3>4, <3>5, <3>6, <2>1 DEF SessionIsSound
    <2> QED BY <2>2, <2>3, <1>1
  <1>9. UrlIsAsked' /\ GrantsAreAllowed'
    BY <1>1, <1>4 DEF IInv, UrlIsAsked, GrantsAreAllowed
  <1> QED BY <1>6, <1>7, <1>8, <1>9 DEF IInv

LEMMA SignedInIsAccount ==
    ASSUME Shapes
    PROVE  IsAccount(SignedInAccount) /\ SignedInAccount.seen = disk.account.seen
  BY DEF Shapes, SignedInAccount, IsAccount

LEMMA StartedScreens ==
    ASSUME Screens, page.screen \notin {"blank", "400", "500"}
    PROVE  page.phase = "started"
  BY DEF Screens

LEMMA SignInOrUpKeeps ==
    ASSUME IInv, SignInOrUp
    PROVE  IInv'
  <1> DEFINE known == [server EXCEPT !.account = IF @ = "none" THEN "unverified" ELSE @]
  <1>1. Shapes /\ Screens /\ RelierIsKnown
    BY DEF IInv
  <1>2. page.screen = "oauth/signin" /\ page.relier.kind = "oauth" /\ page.phase = "started"
    BY <1>1, StartedScreens DEF SignInOrUp
  <1>3. /\ DOMAIN known = DOMAIN server /\ known.asked = server.asked /\ known.granted = server.granted
        /\ known.opened = server.opened
    BY <1>1 DEF Shapes
  <1> HIDE DEF known
  <1>4. CASE AccountNeedsPermissions(page.relier, SignedInAccount)
    <2> DEFINE next == [page EXCEPT !.screen = "permissions"]
    <2>1. page' = next /\ server' = known /\ UNCHANGED <<browser, url, disk>>
      BY <1>4 DEF SignInOrUp, known
    <2>2. DOMAIN page' = DOMAIN page /\ page'.phase = "started" /\ page'.screen = "permissions" /\ page'.relier = page.relier
          /\ page'.context = page.context
      BY <2>1, <1>1, <1>2 DEF Shapes
    <2> HIDE DEF next
    <2>3. Screens' /\ RelierIsMade' /\ RelierIsKnown' /\ BrokerFits' /\ LinkFits' /\ UserFits'
      BY <2>1, <2>2, <1>2, <1>3, InnerScreen DEF InnerScreens
    <2>4. Shapes'
      BY <2>1, <2>2, <1>1, <1>3 DEF Shapes
    <2>5. SessionIsSound'
      <3>1. \A c : Allowed(c)' = Allowed(c)
        BY <2>1, <1>3 DEF Allowed
      <3> QED BY <3>1, <2>1 DEF IInv, SessionIsSound
    <2>6. UrlIsAsked' /\ GrantsAreAllowed'
      BY <2>1, <1>3 DEF IInv, UrlIsAsked, GrantsAreAllowed
    <2> QED BY <2>3, <2>4, <2>5, <2>6 DEF IInv
  <1>5. CASE ~AccountNeedsPermissions(page.relier, SignedInAccount)
    <2>1. GoOn(known, SignedInAccount)
      BY <1>5 DEF SignInOrUp, known
    <2>2. page.relier.permissions = page.relier.scope
      BY <1>1, <1>2 DEF RelierIsKnown, ClientIsKnown, IsOAuthRelier, Known
    <2>3. MayHave(page.relier, SignedInAccount)
      BY <1>2, <1>5, <2>2 DEF AccountNeedsPermissions, MayHave, HasSeen, HasSeenPermissions, IsOAuthRelier
    <2> QED BY <2>1, <2>3, <1>1, <1>2, <1>3, SignedInIsAccount, FinishSignInKeeps, WaitForEmailKeeps DEF GoOn
  <1> QED BY <1>4, <1>5

LEMMA AcceptPermissionsKeeps ==
    ASSUME IInv, AcceptPermissions
    PROVE  IInv'
  <1> DEFINE account == [SignedInAccount EXCEPT !.values = IF server.account = "verified" THEN server.values ELSE @]
             seen == WithValues(page.relier.permissions, account)
             told == SetClientPermissions(account, page.relier.client, seen)
  <1>1. Shapes /\ Screens /\ RelierIsKnown
    BY DEF IInv
  <1>2. page.phase = "started" /\ page.relier.kind = "oauth"
    BY <1>1, StartedScreens DEF AcceptPermissions, Screens
  <1>3. page.relier.permissions = page.relier.scope /\ page.relier.client \in Clients
    BY <1>1, <1>2 DEF RelierIsKnown, ClientIsKnown, IsOAuthRelier, Known
  <1>4. GoOn(server, told)
    BY DEF AcceptPermissions
  <1>5. IsAccount(account)
    BY <1>1, SignedInIsAccount DEF IsAccount
  <1> HIDE DEF account
  <1>6. IsAccount(told) /\ told.values = account.values /\ told.seen[page.relier.client] = seen
    BY <1>3, <1>5 DEF IsAccount, SetClientPermissions
  <1> HIDE DEF told
  <1>7. MayHave(page.relier, told)
    BY <1>3, <1>6 DEF MayHave, HasSeen, WithValues
  <1> QED BY <1>2, <1>4, <1>6, <1>7, FinishSignInKeeps, WaitForEmailKeeps DEF GoOn

LEMMA CompleteLinkKeeps ==
    ASSUME IInv, CompleteLink
    PROVE  IInv'
  <1> DEFINE r == page.relier
             next == [page EXCEPT !.screen = "finished"]
             later == [disk EXCEPT !.session = NoSession, !.context = "none"]
             more == IF r.scope = {} THEN {} ELSE {Granted(r, Stored.account)}
  <1>1. /\ page' = next /\ UNCHANGED <<browser, url>> /\ (disk' = later \/ disk' = disk)
        /\ server' = [server EXCEPT !.account = "verified",
                                    !.granted = IF r.scope = {} THEN @ ELSE @ \cup {Granted(r, Stored.account)}]
    BY DEF CompleteLink, Write
  <1>2. Shapes /\ Screens /\ RelierIsKnown /\ SessionIsSound
    BY DEF IInv
  <1>3. page.screen = "verify_email" /\ url.link # "none" /\ r.kind = "oauth" /\ page.phase = "started"
    BY <1>2, StartedScreens DEF CompleteLink
  <1>4. DOMAIN page' = DOMAIN page /\ page'.phase = "started" /\ page'.screen = "finished" /\ page'.relier = r
        /\ page'.context = page.context
    BY <1>1, <1>2, <1>3 DEF Shapes
  <1>5. DOMAIN server' = DOMAIN server /\ server'.asked = server.asked /\ server'.opened = server.opened
        /\ server'.granted = server.granted \cup more
    BY <1>1, <1>2 DEF Shapes
  <1>6. DOMAIN later = DOMAIN disk /\ later.session = NoSession /\ later.account = disk.account
    BY <1>2 DEF Shapes
  <1> HIDE DEF next, later
  <1>7. Shapes'
    <2>1. r.client \in Clients
      BY <1>2, <1>3 DEF RelierIsKnown, ClientIsKnown, IsOAuthRelier, Known
    <2>2. \A g \in more : g.client = r.client
      BY DEF Granted
    <2> HIDE DEF r, more
    <2> QED BY <2>1, <2>2, <1>1, <1>2, <1>4, <1>5, <1>6 DEF Shapes
  <1>8. Screens' /\ RelierIsMade' /\ RelierIsKnown' /\ BrokerFits' /\ LinkFits' /\ UserFits'
    BY <1>1, <1>3, <1>4, <1>5, InnerScreen DEF InnerScreens
  <1>9. SessionIsSound'
    <2>1. \A c : Allowed(c)' = Allowed(c)
      BY <1>5 DEF Allowed
    <2>2. CASE disk' = disk
      BY <2>1, <2>2, <1>2 DEF SessionIsSound
    <2>3. CASE disk' = later
      BY <2>3, <1>6 DEF SessionIsSound, NoSession, Clients
    <2> QED BY <2>2, <2>3, <1>1
  <1>10. UrlIsAsked'
    BY <1>1, <1>5 DEF IInv, UrlIsAsked
  <1>11. \A g \in more : GrantIsAllowed(g, server.asked)
    <2>1. CASE r.scope = {}
      BY <2>1
    <2>2. CASE r.scope # {}
      <3>1. ClientIsKnown(r) /\ r.scope \subseteq Allowed(r.client)
        BY <1>2, <1>3 DEF RelierIsKnown, IsOAuthRelier, Known
      <3>2. ~r.consent /\ r.client = disk.session.client /\ r.scope \subseteq disk.session.scope
        <4>1. url.path = "verify_email"
          BY <1>2, <1>3 DEF Screens
        <4> QED BY <4>1, <2>2, <1>3 DEF IInv, LinkFits, Known
      <3>3. MayHave(r, Stored.account)
        <4>1. CASE r.client \in Trusted
          BY <4>1, <3>1, <3>2, <1>3 DEF MayHave, ClientIsKnown
        <4>2. CASE r.client \notin Trusted
          <5>1. r.client \in Clients
            BY <3>1 DEF ClientIsKnown
          <5>2. HasSeen(r.client, r.scope, disk.account)
            BY <5>1, <4>2, <3>2, <1>2 DEF SessionIsSound, HasSeen, WithValues
          <5>3. HasSeen(r.client, r.scope, EmptyDisk.account)
            BY <5>1 DEF EmptyDisk, None, HasSeen, WithValues
          <5> QED BY <5>2, <5>3 DEF MayHave, Stored
        <4> QED BY <4>1, <4>2
      <3> HIDE DEF r
      <3>4. GrantIsAllowed(Granted(r, Stored.account), server.asked)
        BY <3>1, <3>3, <1>3, CodeIsAllowed
      <3> QED BY <3>4
    <2> QED BY <2>1, <2>2
  <1> HIDE DEF more
  <1>12. GrantsAreAllowed'
    <2>1. \A g \in server.granted : GrantIsAllowed(g, server.asked)
      BY DEF IInv, GrantsAreAllowed, GrantIsAllowed
    <2>2. \A g \in server'.granted : GrantIsAllowed(g, server'.asked)
      BY <2>1, <1>5, <1>11
    <2> QED BY <2>2 DEF GrantsAreAllowed, GrantIsAllowed
  <1> QED BY <1>7, <1>8, <1>9, <1>10, <1>12 DEF IInv

LEMMA SetDisplayNameKeeps ==
    ASSUME IInv, SetDisplayName
    PROVE  IInv'
  <1> DEFINE later == [disk EXCEPT !.account.values = @ \cup {"profile:display_name"}]
             known == [server EXCEPT !.values = @ \cup {"profile:display_name"}]
  <1>1. UNCHANGED <<browser, url, page>> /\ server' = known /\ (disk' = later \/ disk' = disk) /\ disk.session = NoSession
    BY DEF SetDisplayName, Write
  <1>2. Shapes /\ SessionIsSound
    BY DEF IInv
  <1>3. /\ DOMAIN later = DOMAIN disk /\ later.session = disk.session /\ later.user = disk.user
        /\ later.context = disk.context
        /\ DOMAIN later.account = DOMAIN disk.account /\ later.account.seen = disk.account.seen
    BY <1>2 DEF Shapes
  <1>4. /\ DOMAIN server' = DOMAIN server /\ server'.asked = server.asked /\ server'.opened = server.opened
        /\ server'.granted = server.granted
    BY <1>1, <1>2 DEF Shapes
  <1> HIDE DEF later, known
  <1>5. disk'.session = disk.session /\ disk'.user = disk.user /\ disk'.context = disk.context /\ DOMAIN disk' = DOMAIN disk
        /\ DOMAIN disk'.account = DOMAIN disk.account /\ disk'.account.seen = disk.account.seen
    BY <1>1, <1>3
  <1>6. Shapes'
    BY <1>1, <1>2, <1>4, <1>5 DEF Shapes
  <1>7. \A c : Allowed(c)' = Allowed(c)
    BY <1>4 DEF Allowed
  <1>8. Screens' /\ RelierIsKnown' /\ LinkFits'
    BY <1>1, <1>5, <1>7 DEF IInv, Screens, RelierIsKnown, LinkFits
  <1>9. page.phase = "started"
    BY DEF SetDisplayName
  <1>10. RelierIsMade' /\ BrokerFits'
    <2>1. AsksForFirstRun(url, Stored)' = AsksForFirstRun(url, Stored)
      BY <1>1, <1>5, AskingIsSame
    <2> QED BY <2>1, <1>1, <1>9 DEF IInv, RelierIsMade, BrokerFits, FitsBroker
  <1>11. SessionIsSound'
    BY <1>1, <1>5 DEF SessionIsSound, NoSession, Clients
  <1>12. UrlIsAsked' /\ GrantsAreAllowed'
    BY <1>1, <1>4 DEF IInv, UrlIsAsked, GrantsAreAllowed
  <1>13. UserFits'
    <2>1. CanWrite(browser)' = CanWrite(browser)
      BY <1>1 DEF CanWrite
    <2> QED BY <2>1, <1>1, <1>5 DEF IInv, UserFits
  <1> QED BY <1>6, <1>8, <1>10, <1>11, <1>12, <1>13 DEF IInv

LEMMA NextVisitKeeps ==
    ASSUME IInv, NextVisit
    PROVE  IInv'
  <1> DEFINE growth == [c \in Clients |-> IF c = url'.client THEN server.asked[c] \cup url'.scope ELSE server.asked[c]]
  <1>1. /\ server' = [server EXCEPT !.opened = @ + 1, !.asked = growth]
        /\ server.opened < MaxVisits /\ page' = NewPage /\ UNCHANGED <<browser, disk>>
    BY DEF NextVisit, IInv, Shapes
  <1>2. url'.path \notin InnerScreens
    BY UrlsAssumption DEF NextVisit, LinkOf, InnerScreens
  <1>3. Shapes /\ SessionIsSound
    BY DEF IInv
  <1>4. /\ DOMAIN server' = DOMAIN server /\ server'.asked = growth /\ server'.opened = server.opened + 1
        /\ server'.granted = server.granted
    BY <1>1, <1>3 DEF Shapes
  <1>5. DOMAIN growth = Clients /\ \A c \in Clients : server.asked[c] \subseteq growth[c]
    OBVIOUS
  <1>6. url'.client \in Clients => url'.scope \subseteq growth[url'.client]
    OBVIOUS
  <1> HIDE DEF growth
  <1>7. server'.opened \in 1..MaxVisits
    BY <1>1, <1>3, <1>4, MaxVisitsAssumption DEF Shapes
  <1>8. page'.phase = "l10n" /\ page'.screen = "blank" /\ DOMAIN page' = DOMAIN page
    BY <1>1, <1>3 DEF NewPage, Shapes
  <1>9. Shapes'
    BY <1>1, <1>2, <1>3, <1>4, <1>5, <1>7, <1>8 DEF Shapes
  <1>10. Screens' /\ RelierIsMade' /\ RelierIsKnown' /\ BrokerFits' /\ LinkFits' /\ UserFits'
    BY <1>8 DEF Screens, RelierIsMade, RelierIsKnown, BrokerFits, LinkFits, UserFits, Known, Starting
  <1>11. \A c \in Clients : Allowed(c) \subseteq server'.asked[c] \cup ReplaceProfile(server'.asked[c])
    BY <1>4, <1>5, ReplacementGrows DEF Allowed
  <1>12. SessionIsSound'
    BY <1>1, <1>3, <1>11 DEF SessionIsSound, Allowed
  <1>13. UrlIsAsked'
    BY <1>4, <1>6 DEF UrlIsAsked
  <1>14. GrantsAreAllowed'
    BY <1>3, <1>4, <1>11 DEF IInv, GrantsAreAllowed, Allowed, Shapes
  <1> QED BY <1>9, <1>10, <1>12, <1>13, <1>14 DEF IInv

(***************************************************************************)
(* The invariant holds, and says what the properties say.                  *)
(***************************************************************************)
LEMMA InitHolds ==
    ASSUME Init
    PROVE  IInv
  <1>1. PICK v \in Visits : browser = v.browser /\ url = v.url
    BY DEF Init
  <1>2. url.path \notin InnerScreens
    BY <1>1, UrlsAssumption
  <1>3. page = NewPage
    BY DEF Init
  <1>4. /\ DOMAIN disk = {"user", "session", "context", "account"} /\ disk.session = NoSession /\ disk.account = None
    BY DEF Init
  <1>5. PICK account : server = [opened |-> 1, account |-> account, mailed |-> {}, granted |-> {},
                                 values |-> {"profile:uid", "profile:email"},
                                 asked |-> [c \in Clients |-> IF c = url.client THEN url.scope ELSE {}]]
    BY DEF Init
  <1>6. /\ DOMAIN server = {"opened", "account", "mailed", "granted", "values", "asked"} /\ DOMAIN server.asked = Clients
        /\ server.opened = 1 /\ server.granted = {} /\ (url.client \in Clients => server.asked[url.client] = url.scope)
    BY <1>5
  <1>7. /\ DOMAIN page = {"phase", "screen", "relier", "context", "fxaStatus", "told", "user", "memory", "before"}
        /\ page.phase = "l10n" /\ page.screen = "blank"
    BY <1>3 DEF NewPage
  <1>8. DOMAIN disk.account = {"values", "seen"} /\ DOMAIN disk.account.seen = Clients
    BY <1>4 DEF None
  <1>9. Shapes
    BY <1>2, <1>4, <1>6, <1>7, <1>8, MaxVisitsAssumption DEF Shapes
  <1>10. Screens /\ RelierIsMade /\ RelierIsKnown /\ BrokerFits /\ LinkFits /\ UserFits
    BY <1>7 DEF Screens, RelierIsMade, RelierIsKnown, BrokerFits, LinkFits, UserFits, Known, Starting
  <1>11. SessionIsSound
    BY <1>4 DEF SessionIsSound, NoSession, Clients
  <1>12. UrlIsAsked /\ GrantsAreAllowed
    BY <1>6 DEF UrlIsAsked, GrantsAreAllowed
  <1> QED BY <1>9, <1>10, <1>11, <1>12 DEF IInv

LEMMA StutterKeeps ==
    ASSUME IInv, UNCHANGED vars
    PROVE  IInv'
  <1>1. UNCHANGED <<browser, url, page, disk, server>>
    BY DEF vars
  <1>2. Stored' = Stored
    BY <1>1, StoredIsSame
  <1>3. \A c : Allowed(c)' = Allowed(c)
    BY <1>1 DEF Allowed
  <1>4. CanWrite(browser)' = CanWrite(browser)
    BY <1>1 DEF CanWrite
  <1>5. Shapes' /\ Screens' /\ LinkFits'
    BY <1>1 DEF IInv, Shapes, Screens, LinkFits
  <1>6. RelierIsMade' /\ RelierIsKnown' /\ BrokerFits'
    BY <1>1, <1>2, <1>3 DEF IInv, RelierIsMade, RelierIsKnown, BrokerFits
  <1>7. SessionIsSound'
    BY <1>1, <1>3 DEF IInv, SessionIsSound
  <1>8. UrlIsAsked' /\ UserFits' /\ GrantsAreAllowed'
    BY <1>1, <1>4 DEF IInv, UrlIsAsked, UserFits, GrantsAreAllowed
  <1> QED BY <1>5, <1>6, <1>7, <1>8 DEF IInv

LEMMA NextKeeps ==
    ASSUME IInv, [Next]_vars
    PROVE  IInv'
  <1>1. CASE StartStep
    BY <1>1, InitializeL10nKeeps, InitializeRelierKeeps, ClientInfoKeeps, InitializeAuthenticationBrokerKeeps,
       FetchFxaStatusKeeps, ConsumeSigninCodeKeeps, InitializeUserKeeps, AllResourcesReadyKeeps DEF StartStep
  <1>2. CASE SignInOrUp
    BY <1>2, SignInOrUpKeeps
  <1>3. CASE AcceptPermissions
    BY <1>3, AcceptPermissionsKeeps
  <1>4. CASE CompleteLink
    BY <1>4, CompleteLinkKeeps
  <1>5. CASE SetDisplayName
    BY <1>5, SetDisplayNameKeeps
  <1>6. CASE NextVisit
    BY <1>6, NextVisitKeeps
  <1>7. CASE UNCHANGED vars
    BY <1>7, StutterKeeps
  <1> QED BY <1>1, <1>2, <1>3, <1>4, <1>5, <1>6, <1>7 DEF Next

\* In every run of the start, of any pages in any browser, the invariant holds.
THEOREM Invariant == Spec => []IInv
  <1>1. Init => IInv
    BY InitHolds
  <1>2. IInv /\ [Next]_vars => IInv'
    BY NextKeeps
  <1> QED BY <1>1, <1>2, PTL DEF Spec

LEMMA Consistent ==
    ASSUME IInv
    PROVE  StartIsConsistent
  <1>1. TypeOK
    BY DEF IInv, Shapes, Screens, Starting, SessionIsSound, TypeOK
  <1>2. RelierHasItsBroker
    <2>1. page.phase = "started" /\ page.screen \notin {"confirm", "finished"} /\ IsOAuthRelier(page.relier) =>
            FitsBroker(url, Stored, page.relier.kind, page.context)
      BY DEF IInv, BrokerFits, Known
    <2> QED BY <2>1 DEF RelierHasItsBroker, FitsBroker, RightBroker, IsOAuthRelier
  <1>3. UserIsTheRightOne
    BY DEF IInv, Shapes, UserFits, UserIsTheRightOne
  <1> QED BY <1>1, <1>2, <1>3 DEF StartIsConsistent

\* Whatever the URLs and the browsers, whatever earlier pages have stored and
\* whichever parts fail: an OAuth relier has the broker of its kind, but the one of
\* Sync's first run where its URL or the storage asks for that; and the user of the
\* page is the one of the browser for Sync and the stored one otherwise.
THEOREM StartFits == Spec => []StartIsConsistent
  <1>1. IInv => StartIsConsistent
    BY Consistent
  <1> QED BY <1>1, Invariant, PTL

\* Of any clients' URLs and links, in any order and over any number of pages: no
\* code that a sign-in or a link issues has a scope or keys the client may not have,
\* or a value the user of this browser has not seen.
THEOREM NothingElseIsGranted == Spec => []GrantsAreAllowed
  <1>1. IInv => GrantsAreAllowed
    BY DEF IInv
  <1> QED BY <1>1, Invariant, PTL
=============================================================================
