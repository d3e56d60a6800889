---------------------------- MODULE UserAccounts ----------------------------
(***************************************************************************)
(* The accounts a browser profile remembers, and the tabs that share them. *)
(*                                                                         *)
(* Every tab of the content server runs a `User` (models/user.js).  All of *)
(* them read and write one localStorage: the map `accounts` and the field  *)
(* `currentAccountUid`.  Each keeps its own copy of the signed in account, *)
(* `_cachedSignedInAccount`, and calls the auth server asynchronously, so  *)
(* what a continuation writes was read several steps earlier.  Tabs tell   *)
(* each other about sign ins and sign outs over a BroadcastChannel.        *)
(*                                                                         *)
(* A call is one step to send and one to settle; the auth server acts in   *)
(* the settling step.  Revoke lets the server act at any other moment too. *)
(***************************************************************************)
EXTENDS Naturals, Sequences, FiniteSets

CONSTANTS
    Tab,        \* the tabs open on the content server
    Uid,        \* account ids
    Token,      \* session tokens the auth server can issue
    NoUid,      \* an undefined uid
    NoToken,    \* an undefined sessionToken
    NoAccount,  \* `_cachedSignedInAccount === null`
    Kinds,      \* bound: the kinds of calls and events that happen
    MaxCalls,   \* bound: calls in flight in one tab
    MaxInbox    \* bound: messages on their way to one tab

\* Sign in with a password, with a stored session, by completing a password
\* reset, sign up; password change; sign out; account deletion; disconnection
\* of the current device or session; a forced uid that may be unknown; a
\* profile edit.  An account taken from the browser, an email link followed, a
\* session ended elsewhere, a page closed.
CallKinds == {"signIn", "resume", "reset", "signUp", "changePassword", "signOut",
             "delete", "endDevice", "endSession", "exists", "profile"}
AllKinds == CallKinds \cup {"browser", "confirm", "revoke", "close"}

ASSUME ConstantsAssumption ==
    /\ NoUid \notin Uid
    /\ NoToken \notin Token
    /\ Kinds \subseteq AllKinds
    /\ MaxCalls \in Nat /\ MaxInbox \in Nat

VARIABLES
    accounts,   \* localStorage `accounts`; Default where nothing is stored
    current,    \* localStorage `currentAccountUid`
    cache,      \* per tab, `_cachedSignedInAccount`
    calls,      \* per tab, the calls in flight
    screen,     \* per tab, which kind of view is shown
    inbox,      \* per tab, broadcast messages not yet delivered
    owner,      \* auth server: the account a token was issued to
    live,       \* auth server: tokens that are valid
    confirmed,  \* auth server: tokens whose session is verified
    registered  \* auth server: accounts that exist

storage == <<accounts, current>>
tabs    == <<cache, calls, screen, inbox>>
server  == <<owner, live, confirmed, registered>>
vars    == <<accounts, current, cache, calls, screen, inbox,
             owner, live, confirmed, registered>>

Account == [uid : Uid \cup {NoUid}, token : Token \cup {NoToken}, verified : BOOLEAN]
Default == [uid |-> NoUid, token |-> NoToken, verified |-> FALSE]

ASSUME NoAccountAssumption == NoAccount \notin Account

\* `aliased`: the call works on the very object that is cached, so that what
\* it sets shows in the cache; `sent` is the token captured for the request.
Call == [kind : CallKinds \cup {"status", "recheck", "browser", "setAccount"},
         phase : {"call", "fetch"},
         acct : Account, aliased : BOOLEAN, sent : Token \cup {NoToken}]

Message == [cmd : {"SIGNED_IN", "SIGNED_OUT"}, uid : Uid \cup {NoUid}]
Screen  == {"closed", "starting", "entry", "opening", "settings"}

-----------------------------------------------------------------------------
(* Reading the shared state, and the ways it is written.                   *)

SignedInData == IF current = NoUid THEN Default ELSE accounts[current]

\* getSignedInAccount, whose first use fills the cache.
SignedIn(t) == IF cache[t] = NoAccount THEN SignedInData ELSE cache[t]

\* isSignedInAccount trusts the cache, not the storage.
IsSignedIn(t, uid) == uid # NoUid /\ SignedIn(t).uid = uid

\* Mutant: an account without a uid is stored under "undefined".
PersistedUnnamed(a, stored) ==
    [u \in DOMAIN stored \cup {a.uid} |-> IF u = a.uid THEN a ELSE stored[u]]
Persisted(a, stored) == IF a.uid = NoUid THEN stored ELSE [stored EXCEPT ![a.uid] = a]
Without(uid, stored) == IF uid = NoUid THEN stored ELSE [stored EXCEPT ![uid] = Default]

Subject(t, c) == IF c.aliased THEN cache[t] ELSE c.acct

\* The cache lets go of its object `a`; the calls that share it keep it.
Released(cs, a) ==
    {IF c.aliased THEN [c EXCEPT !.aliased = FALSE, !.acct = a] ELSE c : c \in cs}

\* A call on `a`; an aliased one leaves the content to the cache.
NewCall(kind, phase, a, aliased) ==
    [kind |-> kind, phase |-> phase, acct |-> IF aliased THEN Default ELSE a,
     aliased |-> aliased, sent |-> a.token]

\* account.fetch asks the server only about a session not known to be verified.
NeedsFetch(a) == a.token # NoToken /\ ~a.verified

Tell(t, cmd, uid) ==
    /\ \A s \in Tab : Len(inbox[s]) < MaxInbox
    /\ inbox' = [s \in Tab |-> IF s = t \/ screen[s] = "closed" THEN inbox[s]
                               ELSE Append(inbox[s], [cmd |-> cmd, uid |-> uid])]

\* The page goes away, and with it everything the tab kept in memory.
Unload(t) ==
    /\ cache' = [cache EXCEPT ![t] = NoAccount]
    /\ calls' = [calls EXCEPT ![t] = {}]
    /\ screen' = [screen EXCEPT ![t] = "closed"]

\* setAccount(a): the call c goes on with a fetch, or a is stored at once.
StoreAccount(t, c, a) ==
    LET rest == calls[t] \ {c} IN
    /\ cache' = IF c.aliased THEN [cache EXCEPT ![t] = a] ELSE cache
    /\ IF NeedsFetch(a)
         THEN /\ calls' = [calls EXCEPT ![t] =
                             rest \cup {NewCall("setAccount", "fetch", a, c.aliased)}]
              /\ UNCHANGED accounts
         ELSE /\ calls' = [calls EXCEPT ![t] = rest]
              /\ accounts' = Persisted(a, accounts)
    /\ UNCHANGED current

\* Mutant: the session is set on the cached account instead of replacing it.
InstallInCache(t, c, a, same) ==
    /\ accounts' = Persisted(a, accounts)
    /\ current' = a.uid
    /\ cache' = [cache EXCEPT ![t] = IF @ = NoAccount THEN a ELSE [@ EXCEPT !.token = a.token]]
    /\ calls' = [calls EXCEPT ![t] = @ \ {c}]
    /\ screen' = [screen EXCEPT ![t] = IF @ = "entry" THEN "opening" ELSE @]

\* setSignedInAccount(a) once a needs no fetch: store, cache, set the uid.
\* `same`: the object to cache is the cached one.
InstallAccount(t, c, a, same) ==
    /\ accounts' = Persisted(a, accounts)
    /\ current' = a.uid
    /\ cache' = [cache EXCEPT ![t] = a]
    /\ calls' = [calls EXCEPT ![t] =
                   IF same THEN @ \ {c}
                           ELSE Released(@ \ {c}, IF c.aliased THEN a ELSE cache[t])]
    /\ screen' = [screen EXCEPT ![t] = IF @ = "entry" THEN "opening" ELSE @]

SetSignedInAccount(t, c, a) ==
    IF NeedsFetch(a)
      THEN /\ calls' = [calls EXCEPT ![t] =
                          (@ \ {c}) \cup {NewCall(c.kind, "fetch", a, c.aliased)}]
           /\ cache' = IF c.aliased THEN [cache EXCEPT ![t] = a] ELSE cache
           /\ UNCHANGED <<accounts, current, screen>>
      ELSE InstallAccount(t, c, a, c.aliased)


-----------------------------------------------------------------------------
Init ==
    /\ accounts = [u \in Uid |-> Default]
    /\ current = NoUid
    /\ cache = [t \in Tab |-> NoAccount]
    /\ calls = [t \in Tab |-> {}]
    /\ screen = [t \in Tab |-> "closed"]
    /\ inbox = [t \in Tab |-> <<>>]
    /\ owner = [k \in Token |-> NoUid]
    /\ live = {}
    /\ confirmed = {}
    /\ registered \in SUBSET Uid

-----------------------------------------------------------------------------
(* Loading and closing a page.                                             *)

\* initializeUser: the account the browser knows is installed if Sync asks
\* for it or if nobody is signed in here; looking that up fills the cache.
Boot(t) ==
    /\ screen[t] = "closed"
    /\ inbox' = [inbox EXCEPT ![t] = <<>>]
    /\ screen' = [screen EXCEPT ![t] = "starting"]
    /\ \E isSync \in BOOLEAN, k \in live \cup {NoToken} :
         /\ cache' = [cache EXCEPT ![t] = IF isSync THEN NoAccount ELSE SignedInData]
         /\ LET wanted == "browser" \in Kinds /\ (isSync \/ SignedInData = Default)
                a == [uid |-> owner[k], token |-> k, verified |-> k \in confirmed]
            IN  calls' = [calls EXCEPT ![t] = IF k # NoToken /\ wanted
                            THEN {NewCall("browser", "fetch", a, FALSE)} ELSE {}]
    /\ UNCHANGED <<storage, server>>

\* setSignedInAccountByUid ignores an account that is not stored.
SetSignedInAccountByUid(t, uid) ==
    IF uid # NoUid /\ accounts[uid] # Default
      THEN /\ current' = uid
           /\ IF cache[t] # NoAccount /\ cache[t].uid # uid
                THEN /\ cache' = [cache EXCEPT ![t] = NoAccount]
                     /\ calls' = [calls EXCEPT ![t] = Released(@, cache[t])]
                ELSE UNCHANGED <<cache, calls>>
      ELSE UNCHANGED <<current, cache, calls>>

\* clearSignedInAccount names the cached account to the other tabs.
ClearSignedInAccount(t) ==
    /\ Tell(t, "SIGNED_OUT", SignedIn(t).uid)
    /\ current' = NoUid
    /\ cache' = [cache EXCEPT ![t] = NoAccount]
    /\ calls' = [calls EXCEPT ![t] = Released(@, cache[t])]

\* The router shows the first screen: a form, or the settings of a given uid.
Route(t) ==
    /\ screen[t] = "starting" /\ calls[t] = {}
    /\ \/ /\ screen' = [screen EXCEPT ![t] = "entry"]
          /\ UNCHANGED <<current, cache, calls, inbox>>
       \/ /\ screen' = [screen EXCEPT ![t] = "opening"]
          /\ \E uid \in Uid \cup {NoUid} :
               IF uid # NoUid /\ accounts[uid] = Default
                 THEN ClearSignedInAccount(t)
                 ELSE SetSignedInAccountByUid(t, uid) /\ UNCHANGED inbox
    /\ UNCHANGED <<accounts, server>>

OpenSettings(t) ==
    /\ screen[t] = "entry"
    /\ screen' = [screen EXCEPT ![t] = "opening"]
    /\ UNCHANGED <<storage, cache, calls, inbox, server>>

\* checkAuthorization: ask for the status of the signed in account's session;
\* without a token it fails at once, and an account that is not the default
\* one is stored even so.
CheckAuthorization(t) ==
    LET a == SignedIn(t) IN
    /\ screen[t] = "opening"
    /\ \A c \in calls[t] : c.kind # "status"
    /\ Cardinality(calls[t]) < MaxCalls
    /\ cache' = [cache EXCEPT ![t] = a]
    /\ IF a.token = NoToken
         THEN /\ accounts' = Persisted(a, accounts)
              /\ screen' = [screen EXCEPT ![t] = "entry"]
              /\ UNCHANGED calls
         ELSE /\ calls' = [calls EXCEPT ![t] = @ \cup {NewCall("status", "call", a, TRUE)}]
              /\ UNCHANGED <<accounts, screen>>
    /\ UNCHANGED <<current, inbox, server>>

CloseTab(t) ==
    /\ "close" \in Kinds /\ screen[t] # "closed"
    /\ Unload(t)
    /\ UNCHANGED <<storage, inbox, server>>

-----------------------------------------------------------------------------
(* The auth server, as far as a session is concerned.                      *)

TokensOf(uid) == {k \in Token : owner[k] = uid}

\* A session is granted to uid, its tokens in `ended` being ended.
Grant(uid, k, isVerified, ended) ==
    /\ owner[k] = NoUid
    /\ owner' = [owner EXCEPT ![k] = uid]
    /\ live' = (live \ ended) \cup {k}
    /\ confirmed' = IF isVerified THEN confirmed \cup {k} ELSE confirmed

Confirm(k) ==
    /\ "confirm" \in Kinds /\ k \in live \ confirmed
    /\ confirmed' = confirmed \cup {k}
    /\ UNCHANGED <<storage, tabs, owner, live, registered>>

Revoke(k) ==
    /\ "revoke" \in Kinds /\ k \in live
    /\ live' = live \ {k}
    /\ UNCHANGED <<storage, tabs, owner, confirmed, registered>>

-----------------------------------------------------------------------------
(* Starting the calls.                                                     *)

Start(t, kind, a, aliased) ==
    /\ kind \in Kinds \cap CallKinds
    /\ Cardinality(calls[t]) < MaxCalls
    /\ calls' = [calls EXCEPT ![t] = @ \cup {NewCall(kind, "call", a, aliased)}]

\* The sign in form works on a fresh account, a stored copy or the cached
\* object; a broker that does not reuse sessions has its token discarded.
StartSignIn(t, uid) ==
    /\ screen[t] = "entry"
    /\ \E reuse \in BOOLEAN :
         LET Used(a) == IF reuse THEN a ELSE [a EXCEPT !.token = NoToken]
             fresh == [Default EXCEPT !.uid = uid]
         IN \/ /\ \E a \in {fresh, accounts[uid]} \ {Default} :
                    Start(t, "signIn", Used(a), FALSE)
               /\ UNCHANGED cache
            \/ /\ cache[t] # NoAccount /\ cache[t].uid = uid
               /\ Start(t, "signIn", Used(cache[t]), TRUE)
               /\ cache' = [cache EXCEPT ![t] = Used(@)]
    /\ UNCHANGED <<storage, screen, inbox, server>>

\* useLoggedInAccount: no password, only the stored session.
StartResume(t, uid) ==
    /\ screen[t] = "entry"
    /\ accounts[uid].token # NoToken
    /\ Start(t, "resume", accounts[uid], FALSE)
    /\ UNCHANGED <<storage, cache, screen, inbox, server>>

\* Completing a password reset, signing up, and forcing a uid start from an
\* account that holds no session.
StartFresh(t, kind, uid) ==
    /\ kind \in {"reset", "signUp", "exists"}
    /\ screen[t] = "entry"
    /\ Start(t, kind, [Default EXCEPT !.uid = uid], FALSE)
    /\ UNCHANGED <<storage, cache, screen, inbox, server>>

\* The settings panels work on the cached object.
StartInSettings(t, kind) ==
    /\ kind \in {"changePassword", "signOut", "delete", "endDevice", "endSession", "profile"}
    /\ screen[t] = "settings"
    /\ \A c \in calls[t] : c.kind # kind
    /\ Start(t, kind, SignedIn(t), TRUE)
    /\ cache' = [cache EXCEPT ![t] = SignedIn(t)]
    /\ UNCHANGED <<storage, screen, inbox, server>>

-----------------------------------------------------------------------------
(* Settling the calls.  `c` is a call of tab t, `a` the account it is on.  *)

\* Mutant: the entry is removed, the uid and the other tabs are left alone.
RemoveEntry(t, c, uid) ==
    /\ accounts' = Without(uid, accounts)
    /\ cache' = [cache EXCEPT ![t] = NoAccount]
    /\ calls' = [calls EXCEPT ![t] = Released(@ \ {c}, cache[t])]
    /\ UNCHANGED <<current, inbox>>

\* removeAccount(uid); the signed in account is cleared if the cache says so.
RemoveAccount(t, c, uid) ==
    /\ accounts' = Without(uid, accounts)
    /\ IF IsSignedIn(t, uid)
         THEN /\ current' = NoUid
              /\ cache' = [cache EXCEPT ![t] = NoAccount]
              /\ calls' = [calls EXCEPT ![t] = Released(@ \ {c}, cache[t])]
              /\ Tell(t, "SIGNED_OUT", uid)
         ELSE /\ cache' = [cache EXCEPT ![t] = SignedIn(t)]
              /\ calls' = [calls EXCEPT ![t] = @ \ {c}]
              /\ UNCHANGED <<current, inbox>>

\* signIn found the session of `a` (a reauthentication or a new one): merge
\* it into the stored account, tell the other tabs, install it.
SignedInWith(t, c, a) ==
    LET same == c.aliased /\ accounts[a.uid] = Default IN
    /\ Tell(t, "SIGNED_IN", a.uid)
    /\ IF NeedsFetch(a)
         THEN /\ calls' = [calls EXCEPT ![t] = (@ \ {c})
                             \cup {NewCall(c.kind, "fetch", a, same)}]
              /\ cache' = IF c.aliased THEN [cache EXCEPT ![t] = a] ELSE cache
              /\ UNCHANGED <<accounts, current, screen>>
         ELSE InstallAccount(t, c, a, same)

SettleSignIn(t, c, a) ==
    /\ c.kind = "signIn" /\ a.uid \in registered
    /\ \/ /\ c.sent \in live \* reauthenticated
          /\ SignedInWith(t, c, [a EXCEPT !.token = c.sent, !.verified = c.sent \in confirmed])
          /\ UNCHANGED server
       \/ /\ c.sent \notin live \* a fresh login
          /\ \E k \in Token, isVerified \in BOOLEAN :
               /\ Grant(a.uid, k, isVerified, {})
               /\ SignedInWith(t, c, [a EXCEPT !.token = k, !.verified = isVerified])
          /\ UNCHANGED registered

\* The login fails; a session found to be invalid on the way is discarded.
SettleSignInRefused(t, c, a) ==
    /\ c.kind = "signIn"
    /\ cache' = IF c.aliased /\ c.sent \notin live \cup {NoToken}
                  THEN [cache EXCEPT ![t] = [a EXCEPT !.token = NoToken]] ELSE cache
    /\ calls' = [calls EXCEPT ![t] = @ \ {c}]
    /\ UNCHANGED <<storage, screen, inbox, server>>

SettleResume(t, c, a) ==
    /\ c.kind = "resume"
    /\ \/ /\ c.sent \in live
          /\ SignedInWith(t, c, [a EXCEPT !.verified = c.sent \in confirmed])
       \/ /\ RemoveAccount(t, c, a.uid) \* any failure removes the account
          /\ UNCHANGED screen
    /\ UNCHANGED server

\* The reset ends the account's sessions and grants a new one; the other tabs
\* are told before the account is stored.
SettleReset(t, c, a) ==
    /\ c.kind = "reset" /\ a.uid \in registered
    /\ \E k \in Token :
         LET b == [a EXCEPT !.token = k, !.verified = TRUE] IN
         /\ Grant(a.uid, k, TRUE, TokensOf(a.uid))
         /\ InstallAccount(t, c, b, c.aliased)
    /\ Tell(t, "SIGNED_IN", a.uid)
    /\ UNCHANGED registered

SettleSignUp(t, c, a) ==
    /\ c.kind = "signUp" /\ a.uid \notin registered
    /\ registered' = registered \cup {a.uid}
    /\ \E k \in Token, isVerified \in BOOLEAN :
         /\ Grant(a.uid, k, isVerified, {})
         /\ SetSignedInAccount(t, c, [a EXCEPT !.token = k, !.verified = isVerified])
    /\ UNCHANGED inbox

SettleChangePassword(t, c, a) ==
    /\ c.kind = "changePassword" /\ c.sent \in live
    /\ \E k \in Token, isVerified \in BOOLEAN :
         /\ Grant(a.uid, k, isVerified, TokensOf(a.uid))
         /\ SetSignedInAccount(t, c, [a EXCEPT !.token = k, !.verified = isVerified])
    /\ UNCHANGED <<registered, inbox>>

\* signOut forgets the account whether or not the server could end the
\* session, then clears the uid once more and leaves the page.
SettleSignOut(t, c, a) ==
    /\ c.kind = "signOut"
    /\ live' \in {live, live \ {c.sent}}
    /\ accounts' = Without(a.uid, accounts)
    /\ current' = NoUid
    /\ IF IsSignedIn(t, a.uid) THEN Tell(t, "SIGNED_OUT", a.uid) ELSE UNCHANGED inbox
    /\ Unload(t)
    /\ UNCHANGED <<owner, confirmed, registered>>

SettleDelete(t, c, a) ==
    /\ c.kind = "delete" /\ c.sent \in live
    /\ registered' = registered \ {a.uid}
    /\ live' = live \ TokensOf(a.uid)
    /\ RemoveAccount(t, c, a.uid)
    /\ screen' = [screen EXCEPT ![t] = "entry"]
    /\ UNCHANGED <<owner, confirmed>>

\* Disconnecting the current device removes the account and leaves the page.
SettleEndDevice(t, c, a) ==
    /\ c.kind = "endDevice" /\ c.sent \in live
    /\ live' = live \ {c.sent}
    /\ IF IsSignedIn(t, a.uid)
         THEN /\ accounts' = Without(a.uid, accounts)
              /\ current' = NoUid
              /\ Tell(t, "SIGNED_OUT", a.uid)
         ELSE UNCHANGED <<storage, inbox>>
    /\ Unload(t)
    /\ UNCHANGED <<owner, confirmed, registered>>

\* Disconnecting a session: if it was the current one the uid is cleared and
\* the page left; the session of whoever is signed in is checked otherwise.
SettleEndSession(t, c, a) ==
    /\ c.kind = "endSession" /\ c.sent \in live
    /\ \E k \in live \cap TokensOf(a.uid) :
         /\ live' = live \ {k}
         /\ IF k = c.sent /\ IsSignedIn(t, a.uid)
              THEN /\ current' = NoUid
                   /\ Tell(t, "SIGNED_OUT", a.uid)
                   /\ Unload(t)
              ELSE /\ cache' = [cache EXCEPT ![t] = SignedIn(t)]
                   /\ calls' = [calls EXCEPT ![t] = (@ \ {c})
                                  \cup {NewCall("recheck", "call", SignedIn(t), TRUE)}]
                   /\ UNCHANGED <<current, screen, inbox>>
    /\ UNCHANGED <<accounts, owner, confirmed, registered>>

SettleExists(t, c, a) ==
    /\ c.kind = "exists" /\ a.uid \notin registered
    /\ RemoveAccount(t, c, a.uid)
    /\ UNCHANGED <<screen, server>>

\* A profile edit stores the account; an invalid session is discarded.
SettleProfile(t, c, a) ==
    /\ c.kind = "profile"
    /\ IF c.sent \in live
         THEN StoreAccount(t, c, a)
         ELSE /\ cache' = IF c.aliased THEN [cache EXCEPT ![t] = [a EXCEPT !.token = NoToken]]
                                       ELSE cache
              /\ calls' = [calls EXCEPT ![t] = @ \ {c}]
              /\ UNCHANGED storage
    /\ UNCHANGED <<screen, inbox, server>>

\* sessionStatus of the account: the answer updates the object, which is
\* stored; INVALID_TOKEN takes the object's token away and stores that too.
SettleStatus(t, c, a) ==
    /\ c.kind = "status"
    /\ IF c.sent \in live
         THEN /\ StoreAccount(t, c, [a EXCEPT !.verified = c.sent \in confirmed])
              /\ screen' = [screen EXCEPT ![t] =
                              IF c.sent \in confirmed THEN "settings" ELSE "entry"]
         ELSE /\ StoreAccount(t, c, [a EXCEPT !.token = NoToken])
              /\ screen' = [screen EXCEPT ![t] = "entry"]
    /\ UNCHANGED <<inbox, server>>

SettleRecheck(t, c, a) ==
    /\ c.kind = "recheck"
    /\ IF c.sent \in live
         THEN StoreAccount(t, c, [a EXCEPT !.verified = c.sent \in confirmed])
              /\ UNCHANGED screen
         ELSE /\ accounts' = Persisted([a EXCEPT !.token = NoToken], accounts)
              /\ current' = NoUid
              /\ Unload(t)
    /\ UNCHANGED <<inbox, server>>

\* account.fetch answers, and what waited for it goes on.
SettleFetch(t, c, a) ==
    LET b == IF c.sent \in live THEN [a EXCEPT !.verified = c.sent \in confirmed]
                                ELSE [a EXCEPT !.token = NoToken]
    IN /\ IF c.kind = "setAccount"
            THEN /\ accounts' = Persisted(b, accounts)
                 /\ cache' = IF c.aliased THEN [cache EXCEPT ![t] = b] ELSE cache
                 /\ calls' = [calls EXCEPT ![t] = @ \ {c}]
                 /\ UNCHANGED <<current, screen>>
            ELSE InstallAccount(t, c, b, c.aliased)
       /\ UNCHANGED <<inbox, server>>

\* account.fetch swallows every error, so that what waited goes on as well.
SettleFetchFailed(t, c, a) ==
    /\ IF c.kind = "setAccount"
         THEN /\ accounts' = Persisted(a, accounts)
              /\ calls' = [calls EXCEPT ![t] = @ \ {c}]
              /\ UNCHANGED <<current, cache, screen>>
         ELSE InstallAccount(t, c, a, c.aliased)
    /\ UNCHANGED <<inbox, server>>

\* The call fails for a reason that changes nothing.  A status check shows an
\* error instead of the settings; a recheck counts any error as signed out.
SettleFailed(t, c) ==
    /\ c.kind \notin {"signOut", "signIn", "resume", "recheck"}
    /\ calls' = [calls EXCEPT ![t] = @ \ {c}]
    /\ screen' = [screen EXCEPT ![t] = IF c.kind = "status" THEN "entry" ELSE @]
    /\ UNCHANGED <<storage, cache, inbox, server>>

SettleRecheckFailed(t, c) ==
    /\ c.kind = "recheck"
    /\ current' = NoUid
    /\ Unload(t)
    /\ UNCHANGED <<accounts, inbox, server>>

Settle(t, c) ==
    IF c.phase = "fetch"
      THEN SettleFetch(t, c, Subject(t, c)) \/ SettleFetchFailed(t, c, Subject(t, c))
      ELSE \/ SettleSignIn(t, c, Subject(t, c)) \/ SettleSignInRefused(t, c, Subject(t, c))
           \/ SettleResume(t, c, Subject(t, c)) \/ SettleReset(t, c, Subject(t, c))
           \/ SettleSignUp(t, c, Subject(t, c)) \/ SettleChangePassword(t, c, Subject(t, c))
           \/ SettleSignOut(t, c, Subject(t, c)) \/ SettleDelete(t, c, Subject(t, c))
           \/ SettleEndDevice(t, c, Subject(t, c)) \/ SettleEndSession(t, c, Subject(t, c))
           \/ SettleExists(t, c, Subject(t, c)) \/ SettleProfile(t, c, Subject(t, c))
           \/ SettleStatus(t, c, Subject(t, c)) \/ SettleRecheck(t, c, Subject(t, c))
           \/ SettleFailed(t, c) \/ SettleRecheckFailed(t, c)

-----------------------------------------------------------------------------
(* What the user does without a call, and what the other tabs say.         *)

\* Mutant: the storage is emptied, the cached account stays.
UseDifferentStaleCache(t) ==
    /\ screen[t] = "entry"
    /\ accounts' = [u \in Uid |-> Default]
    /\ current' = NoUid
    /\ UNCHANGED <<cache, calls, screen, inbox, server>>

\* "Use a different account" forgets every account and tells nobody.
UseDifferentAccount(t) ==
    /\ screen[t] = "entry"
    /\ accounts' = [u \in Uid |-> Default]
    /\ current' = NoUid
    /\ cache' = [cache EXCEPT ![t] = NoAccount]
    /\ calls' = [calls EXCEPT ![t] = Released(@, cache[t])]
    /\ UNCHANGED <<screen, inbox, server>>

Received(t, cmd) ==
    /\ inbox[t] # <<>> /\ Head(inbox[t]).cmd = cmd
    /\ inbox' = [inbox EXCEPT ![t] = Tail(@)]

\* clearSessionAndNavigateToSignIn: the settings do not look whose sign out
\* it is.
HandleSignedOut(t) ==
    /\ screen[t] \in {"opening", "settings"}
    /\ Received(t, "SIGNED_OUT")
    /\ current' = NoUid
    /\ Unload(t)
    /\ UNCHANGED <<accounts, server>>

\* _navigateToSignedInView
HandleSignedIn(t) ==
    /\ screen[t] = "entry"
    /\ Received(t, "SIGNED_IN")
    /\ SetSignedInAccountByUid(t, Head(inbox[t]).uid)
    /\ screen' = [screen EXCEPT ![t] = "opening"]
    /\ UNCHANGED <<accounts, server>>

\* No view listens, or the broker cannot handle signed in notifications.
IgnoreMessage(t) ==
    /\ \/ Received(t, "SIGNED_IN")
       \/ screen[t] \notin {"opening", "settings"} /\ Received(t, "SIGNED_OUT")
    /\ UNCHANGED <<storage, cache, calls, screen, server>>

-----------------------------------------------------------------------------
TabStep(t) ==
    \/ Boot(t) \/ Route(t) \/ OpenSettings(t) \/ CheckAuthorization(t) \/ CloseTab(t)
    \/ \E uid \in Uid :
         \/ StartSignIn(t, uid) \/ StartResume(t, uid)
         \/ \E kind \in Kinds : StartFresh(t, kind, uid)
    \/ \E kind \in Kinds : StartInSettings(t, kind)
    \/ \E c \in calls[t] : Settle(t, c)
    \/ UseDifferentAccount(t)
    \/ HandleSignedOut(t) \/ HandleSignedIn(t) \/ IgnoreMessage(t)

ServerStep == \E k \in Token : Confirm(k) \/ Revoke(k)

Next == ServerStep \/ \E t \in Tab : TabStep(t)

Spec == Init /\ [][Next]_vars

-----------------------------------------------------------------------------
(* Properties                                                              *)

\* Every variable has its type; a call aliased to the cache has one to share.
TypeOK ==
    /\ accounts \in [Uid -> Account]
    /\ current \in Uid \cup {NoUid}
    /\ cache \in [Tab -> Account \cup {NoAccount}]
    /\ calls \in [Tab -> SUBSET Call]
    /\ screen \in [Tab -> Screen]
    /\ inbox \in [Tab -> Seq(Message)]
    /\ owner \in [Token -> Uid \cup {NoUid}]
    /\ live \subseteq Token /\ confirmed \subseteq Token /\ registered \subseteq Uid
    /\ \A t \in Tab : \A c \in calls[t] : c.aliased => cache[t] # NoAccount

OwnsToken(a) == a.token # NoToken => owner[a.token] = a.uid /\ a.uid # NoUid

\* Whatever tabs and calls overlap, a session token is only ever kept with
\* the account the server issued it to: in storage, in every cached copy and
\* in every call whose continuation may still store its account.
TokensStayWithTheirAccount ==
    /\ \A u \in Uid : accounts[u].uid \in {u, NoUid} /\ OwnsToken(accounts[u])
    /\ \A t \in Tab :
         /\ cache[t] # NoAccount => OwnsToken(cache[t])
         /\ \A c \in calls[t] : OwnsToken(Subject(t, c))

\* With one tab, the uid in `currentAccountUid` names a stored account, the
\* "signed in account" that removeAccount says it keeps track of.
SignedInAccountIsStored == current # NoUid => accounts[current] # Default

\* With one tab, the cached signed in account is the one storage names.
CacheAgreesWithStorage ==
    \A t \in Tab : cache[t] # NoAccount => cache[t].uid = current

\* What a tab holds for signed in is not what the storage names; the storage
\* names an account that is gone; a step is of no other tab than t.
Stale(t) == cache[t] # NoAccount /\ cache[t].uid # current
Dangling == current # NoUid /\ accounts[current] = Default
Idle(t) == UNCHANGED <<cache[t], calls[t], screen[t]>>
Acts(t) == \A s \in Tab \ {t} : Idle(s)

\* A tab is told that the signed in account signs out.
Told(s) == inbox'[s] = Append(inbox[s], [cmd |-> "SIGNED_OUT", uid |-> current])

\* The copy of a tab goes stale (user.js:194) only while another tab acts:
\* none of its own calls, however old, leaves it behind the storage.
StaleByOthers ==
    [][\A t \in Tab : ~Stale(t) /\ ~Dangling /\ Stale(t)' => Idle(t)]_vars

\* The storage comes to name an account that is gone only by the act of a tab
\* whose copy was stale already: it removes an account which it does not know
\* to be the signed in one.
DanglingByStale ==
    [][~Dangling /\ Dangling' => \E t \in Tab : Acts(t) /\ Stale(t)]_vars

\* Whoever removes the signed in account tells all the other tabs, unless the
\* own copy is stale or all accounts are forgotten at once.
RemovalIsTold ==
    [][current # NoUid /\ accounts[current] # Default /\ accounts'[current] = Default =>
         \E t \in Tab :
           /\ Acts(t)
           /\ \/ Stale(t) \/ UseDifferentAccount(t)
              \/ \A s \in Tab \ {t} : screen[s] # "closed" => Told(s)]_vars

\* Any tabs and calls: storage and copies come to disagree only in these ways.
DisagreementHasACause == StaleByOthers /\ DanglingByStale /\ RemovalIsTold

=============================================================================
