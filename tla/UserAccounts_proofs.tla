------------------------ MODULE UserAccounts_proofs ------------------------
(***************************************************************************)
(* Theorems about UserAccounts, for any number of tabs, accounts, tokens,  *)
(* calls in flight and messages: the types, that a session token stays     *)
(* with the account it was issued to, and what a step writes to the        *)
(* storage.  And about the user of one tab, whom MCUserAccounts adds: what *)
(* the tab believes of the signed in account and what the storage says     *)
(* agree.                                                                  *)
(*                                                                         *)
(* Token ownership is not inductive by itself.  A continuation may use the *)
(* token it captured (`sent`) after the object has lost it, so the token   *)
(* sent must belong to the account the call is on; the object cached may   *)
(* change under an aliased call, but keeps its uid; and a token the server *)
(* accepts has an owner, which never changes.                              *)
(***************************************************************************)
EXTENDS MCUserAccounts, TLAPS

Good(a) == a \in Account /\ OwnsToken(a)

StorageGood ==
    /\ accounts \in [Uid -> Account]
    /\ \A u \in Uid : accounts[u].uid \in {u, NoUid} /\ OwnsToken(accounts[u])
    /\ \A u \in Uid : accounts[u] = Default \/ accounts[u].uid = u
    /\ current \in Uid \cup {NoUid}

ServerGood ==
    /\ owner \in [Token -> Uid \cup {NoUid}]
    /\ live \subseteq Token /\ confirmed \subseteq Token /\ registered \subseteq Uid
    /\ \A k \in live : owner[k] # NoUid

\* A call on the object obj.
CallGood(c, obj) ==
    /\ c \in Call
    /\ Good(obj)
    /\ c.sent # NoToken => owner[c.sent] = obj.uid /\ obj.uid # NoUid
    /\ c.phase = "call" /\ c.kind \in {"signUp", "reset", "exists"}
         => ~c.aliased /\ c.acct.uid \in Uid

TabGood(t) ==
    /\ cache[t] # NoAccount => Good(cache[t])
    /\ \A c \in calls[t] :
         (c.aliased => cache[t] # NoAccount) /\ CallGood(c, Subject(t, c))

IInv ==
    /\ StorageGood /\ ServerGood
    /\ cache \in [Tab -> Account \cup {NoAccount}]
    /\ calls \in [Tab -> SUBSET Call]
    /\ screen \in [Tab -> Screen]
    /\ inbox \in [Tab -> Seq(Message)]
    /\ \A t \in Tab : TabGood(t)

\* The owner of a token never changes.
OwnersKept == \A k \in Token : owner[k] # NoUid => owner'[k] = owner[k]
ServerStepGood == ServerGood' /\ OwnersKept

\* The step writes nothing that is private to another tab than t.
OnlyTab(t) ==
    /\ cache' = [cache EXCEPT ![t] = cache'[t]]
    /\ calls' = [calls EXCEPT ![t] = calls'[t]]

-----------------------------------------------------------------------------
(* What is good stays good while the owners are kept.                      *)

LEMMA GoodStays ==
    ASSUME ServerGood, ServerStepGood, NEW a, Good(a)
    PROVE  Good(a)'
BY ConstantsAssumption DEF ServerGood, ServerStepGood, OwnersKept, Good, OwnsToken, Account

LEMMA CallGoodStays ==
    ASSUME ServerGood, ServerStepGood, NEW c, NEW a, CallGood(c, a)
    PROVE  CallGood(c, a)'
<1>1. Good(a)'
    BY GoodStays DEF CallGood
<1>2. c \in Call /\ c.sent \in Token \cup {NoToken}
    BY DEF CallGood, Call
<1> QED
    BY <1>1, <1>2 DEF CallGood, ServerGood, ServerStepGood, OwnersKept

\* The object of a call is replaced by, or changed into, one of the same uid.
LEMMA CallGoodOnOther ==
    ASSUME NEW c, NEW a, NEW b, CallGood(c, a), Good(b), b.uid = a.uid
    PROVE  CallGood(c, b)
BY DEF CallGood

\* A new call on a good object, of a kind that may be on any account.
LEMMA NewCallGood ==
    ASSUME ServerGood, NEW a, Good(a), NEW aliased \in BOOLEAN,
           NEW kind \in CallKinds \cup {"status", "recheck", "browser", "setAccount"},
           NEW phase \in {"call", "fetch"},
           phase = "fetch" \/ kind \notin {"signUp", "reset", "exists"}
                           \/ (~aliased /\ a.uid \in Uid)
    PROVE  CallGood(NewCall(kind, phase, a, aliased), a)
<1>1. NewCall(kind, phase, a, aliased) \in Call
    BY DEF NewCall, Call, Good, Account, Default
<1>2. a.token # NoToken => owner[a.token] = a.uid /\ a.uid # NoUid
    BY DEF Good, OwnsToken
<1> QED
    BY <1>1, <1>2 DEF NewCall, CallGood

LEMMA StoredStays ==
    ASSUME StorageGood, ServerGood, ServerStepGood, UNCHANGED accounts,
           current' \in Uid \cup {NoUid}
    PROVE  StorageGood'
<1>1. \A u \in Uid : Good(accounts[u])'
    <2> TAKE u \in Uid
    <2>1. Good(accounts[u])
        BY DEF StorageGood, Good
    <2> QED
        BY <2>1, GoodStays
<1> QED
    BY <1>1 DEF StorageGood, Good, OwnsToken

LEMMA PersistedIsGood ==
    ASSUME StorageGood, ServerGood, ServerStepGood, NEW a, Good(a)',
           accounts' = Persisted(a, accounts), current' \in Uid \cup {NoUid}
    PROVE  StorageGood'
<1>1. \A u \in Uid : Good(accounts[u])'  \/ accounts'[u] = a
    <2> TAKE u \in Uid
    <2>1. Good(accounts[u])
        BY DEF StorageGood, Good
    <2>2. (OwnsToken(accounts[u]))' \/ accounts'[u] = a
        BY <2>1, GoodStays DEF Persisted, StorageGood, ServerGood, ServerStepGood, OwnersKept, Good, OwnsToken, Account
    <2> QED
        BY <2>1, <2>2 DEF Persisted, StorageGood, Good
<1>2. a \in Account /\ OwnsToken(a)'
    BY DEF Good
<1>3. accounts' \in [Uid -> Account]
    BY <1>2 DEF Persisted, StorageGood, Account
<1>4. \A u \in Uid : OwnsToken(accounts[u])'
    BY <1>1, <1>2 DEF Good, OwnsToken
<1> QED
    BY <1>2, <1>3, <1>4 DEF Persisted, StorageGood, Account

LEMMA WithoutIsGood ==
    ASSUME StorageGood, ServerGood, ServerStepGood, NEW uid \in Uid \cup {NoUid},
           accounts' = Without(uid, accounts), current' \in Uid \cup {NoUid}
    PROVE  StorageGood'
<1>1. Default \in Account /\ Default.token = NoToken /\ Default.uid = NoUid
    BY DEF Default, Account
<1>2. accounts' \in [Uid -> Account]
    BY <1>1 DEF Without, StorageGood
<1>3. \A u \in Uid : accounts'[u] \in {accounts[u], Default}
    BY DEF Without, StorageGood
<1>4. \A u \in Uid : OwnsToken(accounts[u])'
    BY <1>1, <1>3, ConstantsAssumption
       DEF StorageGood, ServerGood, ServerStepGood, OwnersKept, OwnsToken, Account
<1> QED
    BY <1>1, <1>2, <1>3, <1>4 DEF StorageGood

-----------------------------------------------------------------------------
(* The calls and the cache of a tab.                                       *)

\* A call stays good if the object it shares, if any, stays or is replaced by
\* one of the same account.
LEMMA CallKept ==
    ASSUME ServerGood, ServerStepGood, NEW t \in Tab, TabGood(t), NEW c \in calls[t],
           c.aliased => /\ cache'[t] # NoAccount /\ Good(cache[t])'
                        /\ cache'[t].uid = cache[t].uid
    PROVE  (c.aliased => cache'[t] # NoAccount) /\ CallGood(c, Subject(t, c))'
<1>1. CallGood(c, Subject(t, c))
    BY DEF TabGood
<1>2. CASE c.aliased
    <2>1. CallGood(c, cache[t])
        BY <1>1, <1>2 DEF Subject
    <2>2. c \in Call
        BY <2>1 DEF CallGood
    <2>3. CallGood(c, cache[t])'
        BY <1>2, <2>1, <2>2
           DEF CallGood, Call, ServerGood, ServerStepGood, OwnersKept
    <2> QED
        BY <1>2, <2>3 DEF Subject
<1>3. CASE ~c.aliased
    <2>1. CallGood(c, c.acct)
        BY <1>1, <1>3 DEF Subject
    <2>2. CallGood(c, c.acct)'
        BY <2>1, CallGoodStays
    <2> QED
        BY <1>3, <2>2 DEF Subject
<1> QED
    BY <1>2, <1>3

\* A call that shared the object a keeps it when the cache lets go of it.
LEMMA ReleasedGood ==
    ASSUME ServerGood, ServerStepGood, NEW t \in Tab, TabGood(t),
           NEW S \in SUBSET calls[t], NEW a, NEW d \in Released(S, a),
           cache[t] # NoAccount => Good(a)' /\ a.uid = cache[t].uid
    PROVE  ~d.aliased /\ CallGood(d, Subject(t, d))'
<1>1. PICK c \in S :
        d = IF c.aliased THEN [c EXCEPT !.aliased = FALSE, !.acct = a] ELSE c
    BY DEF Released
<1>2. CallGood(c, Subject(t, c)) /\ (c.aliased => cache[t] # NoAccount) /\ c \in Call
    BY DEF TabGood, CallGood
<1>3. CASE c.aliased
    <2>1. Good(a)' /\ a.uid = cache[t].uid /\ a \in Account
        BY <1>2, <1>3 DEF Good
    <2>2. CallGood(c, cache[t])
        BY <1>2, <1>3 DEF Subject
    <2>3. /\ d \in Call /\ ~d.aliased /\ d.acct = a /\ d.sent = c.sent
          /\ d.kind = c.kind /\ d.phase = c.phase
        BY <1>1, <1>2, <1>3, <2>1 DEF Call
    <2>4. d.sent \in Token \cup {NoToken}
        BY <2>3 DEF Call
    <2>5. CallGood(d, a)'
        BY <1>3, <2>1, <2>2, <2>3, <2>4
           DEF CallGood, ServerGood, ServerStepGood, OwnersKept
    <2> QED
        BY <2>3, <2>5 DEF Subject
<1>4. CASE ~c.aliased
    BY <1>1, <1>2, <1>4, CallGoodStays DEF Subject
<1> QED
    BY <1>3, <1>4

\* What the step of one tab must do to keep the whole invariant.
LEMMA TabStepGood ==
    ASSUME IInv, NEW t \in Tab, StorageGood', ServerStepGood, OnlyTab(t), TabGood(t)',
           screen' \in [Tab -> Screen], inbox' \in [Tab -> Seq(Message)]
    PROVE  IInv'
<1> USE DEF IInv
<1>1. cache' \in [Tab -> Account \cup {NoAccount}]
    BY DEF OnlyTab, TabGood, Good
<1>2. calls' \in [Tab -> SUBSET Call]
    <2>1. calls'[t] \subseteq Call
        BY DEF TabGood, CallGood
    <2> QED
        BY <2>1 DEF OnlyTab
<1>3. ASSUME NEW s \in Tab, s # t PROVE TabGood(s)'
    <2>1. cache'[s] = cache[s] /\ calls'[s] = calls[s]
        BY <1>3 DEF OnlyTab
    <2>2. cache'[s] # NoAccount => Good(cache[s])'
        <3> SUFFICES ASSUME cache[s] # NoAccount PROVE Good(cache[s])'
            BY <2>1
        <3>1. Good(cache[s])
            BY DEF TabGood
        <3>2. (OwnsToken(cache[s]))'
            BY <2>1, <3>1, ConstantsAssumption DEF Good, OwnsToken, ServerGood, ServerStepGood, OwnersKept, Account
        <3> QED
            BY <2>1, <3>1, <3>2 DEF Good
    <2>3. ASSUME NEW c \in calls[s]
          PROVE  (c.aliased => cache'[s] # NoAccount) /\ CallGood(c, Subject(s, c))'
        <3>1. c.aliased => cache[s] # NoAccount
            BY DEF TabGood
        <3> QED
            BY <2>1, <2>2, <3>1, CallKept
    <2> QED
        BY <2>1, <2>2, <2>3 DEF TabGood
<1> QED
    BY <1>1, <1>2, <1>3 DEF ServerStepGood

-----------------------------------------------------------------------------
(* The pieces actions are made of.                                         *)

LEMMA DefaultGood == Good(Default)
BY ConstantsAssumption DEF Default, Good, OwnsToken, Account

LEMMA SubjectGood ==
    ASSUME IInv, NEW t \in Tab, NEW c \in calls[t]
    PROVE  /\ Good(Subject(t, c)) /\ Subject(t, c).uid \in Uid \cup {NoUid}
           /\ CallGood(c, Subject(t, c)) /\ c \in Call
BY DEF IInv, TabGood, CallGood, Good, Account

LEMMA SignedInGood ==
    ASSUME IInv, NEW t \in Tab
    PROVE  Good(SignedIn(t))
BY DefaultGood DEF IInv, TabGood, StorageGood, SignedIn, SignedInData, Good

LEMMA TellGood ==
    ASSUME IInv, NEW t \in Tab, NEW cmd \in {"SIGNED_IN", "SIGNED_OUT"},
           NEW uid \in Uid \cup {NoUid}, Tell(t, cmd, uid)
    PROVE  inbox' \in [Tab -> Seq(Message)]
<1>1. [cmd |-> cmd, uid |-> uid] \in Message
    BY DEF Message
<1> QED
    BY <1>1 DEF Tell, IInv

LEMMA UnloadGood ==
    ASSUME IInv, NEW t \in Tab, Unload(t)
    PROVE  OnlyTab(t) /\ TabGood(t)' /\ screen' \in [Tab -> Screen]
BY DEF IInv, Unload, OnlyTab, TabGood, Screen

LEMMA ServerUnchanged ==
    ASSUME ServerGood, UNCHANGED owner, live' \subseteq live,
           confirmed' \subseteq Token, registered' \subseteq Uid
    PROVE  ServerStepGood
BY DEF ServerGood, ServerStepGood, OwnersKept

LEMMA GrantGood ==
    ASSUME ServerGood, NEW uid \in Uid, NEW k \in Token, NEW isVerified \in BOOLEAN,
           NEW ended, Grant(uid, k, isVerified, ended), registered' \subseteq Uid
    PROVE  ServerStepGood /\ owner'[k] = uid /\ owner[k] = NoUid
BY ConstantsAssumption DEF ServerGood, ServerStepGood, OwnersKept, Grant

\* Calls that go on while the object a call is on becomes a.
LEMMA RestGood ==
    ASSUME IInv, NEW t \in Tab, NEW c \in calls[t], ServerStepGood,
           NEW a, Good(a)', a.uid = Subject(t, c).uid,
           cache' = IF c.aliased THEN [cache EXCEPT ![t] = a] ELSE cache,
           NEW d \in calls[t]
    PROVE  /\ (d.aliased => cache'[t] # NoAccount) /\ CallGood(d, Subject(t, d))'
           /\ cache'[t] # NoAccount => Good(cache[t])'
<1>1. cache'[t] = IF c.aliased THEN a ELSE cache[t]
    BY DEF IInv
<1>2. a # NoAccount
    BY NoAccountAssumption DEF Good
<1>3. cache'[t] # NoAccount => Good(cache[t])'
    <2>1. CASE c.aliased
        BY <1>1, <2>1 DEF Good, OwnsToken
    <2>2. CASE ~c.aliased /\ cache[t] # NoAccount
        <3>1. Good(cache[t])
            BY <2>2 DEF IInv, TabGood
        <3>2. ServerGood
            BY DEF IInv
        <3> QED
            BY <1>1, <2>2, <3>1, <3>2, ConstantsAssumption
               DEF Good, OwnsToken, Account, ServerGood, ServerStepGood, OwnersKept
    <2> QED
        BY <1>1, <2>1, <2>2
<1>4. c.aliased => cache[t] # NoAccount /\ a.uid = cache[t].uid
    BY DEF IInv, TabGood, Subject
<1>5. d.aliased => cache[t] # NoAccount
    BY DEF IInv, TabGood
<1>6. d.aliased => /\ cache'[t] # NoAccount /\ Good(cache[t])'
                   /\ cache'[t].uid = cache[t].uid
    BY <1>1, <1>2, <1>3, <1>4, <1>5
<1>7. ServerGood /\ TabGood(t)
    BY DEF IInv
<1> QED
    BY <1>3, <1>6, <1>7, CallKept

\* The call goes on as a new one on the same object, which has become a.
LEMMA NextCallGood ==
    ASSUME IInv, NEW t \in Tab, ServerStepGood, NEW a, Good(a)', NEW aliased \in BOOLEAN,
           aliased => cache'[t] = a,
           NEW kind \in CallKinds \cup {"status", "recheck", "browser", "setAccount"},
           NEW phase \in {"call", "fetch"},
           phase = "fetch" \/ kind \notin {"signUp", "reset", "exists"}
                           \/ (~aliased /\ a.uid \in Uid)
    PROVE  LET n == NewCall(kind, phase, a, aliased)
           IN  (n.aliased => cache'[t] # NoAccount) /\ CallGood(n, Subject(t, n))'
<1> DEFINE n == NewCall(kind, phase, a, aliased)
<1>1. a \in Account /\ a # NoAccount
    BY NoAccountAssumption DEF Good
<1>2. n \in Call /\ n.aliased = aliased /\ n.sent = a.token /\ n.phase = phase
      /\ n.kind = kind /\ (~aliased => n.acct = a)
    BY <1>1 DEF NewCall, Call, Account, Default
<1>3. (a.token # NoToken => owner[a.token] = a.uid /\ a.uid # NoUid)'
    BY DEF Good, OwnsToken
<1>4. CallGood(n, a)'
    BY <1>1, <1>2, <1>3 DEF CallGood
<1>5. (n.aliased => cache'[t] = a) /\ (~n.aliased => n.acct = a)
    BY <1>2
<1> HIDE DEF n
<1>6. CallGood(n, Subject(t, n))' 
    <2>1. CASE n.aliased
        BY <1>4, <1>5, <2>1 DEF Subject, CallGood, Good, OwnsToken
    <2>2. CASE ~n.aliased
        BY <1>4, <1>5, <2>2 DEF Subject
    <2> QED
        BY <2>1, <2>2
<1> QED
    BY <1>1, <1>5, <1>6 DEF n

LEMMA StoreAccountGood ==
    ASSUME IInv, NEW t \in Tab, NEW c \in calls[t], ServerStepGood,
           NEW a, Good(a)', a.uid = Subject(t, c).uid, StoreAccount(t, c, a)
    PROVE  StorageGood' /\ OnlyTab(t) /\ TabGood(t)'
<1>1. cache' = IF c.aliased THEN [cache EXCEPT ![t] = a] ELSE cache
    BY DEF StoreAccount
<1>2. StorageGood'
    <2>1. current' \in Uid \cup {NoUid} /\ StorageGood /\ ServerGood
        BY DEF StoreAccount, IInv, StorageGood
    <2> QED
        BY <2>1, StoredStays, PersistedIsGood DEF StoreAccount
<1>3. OnlyTab(t)
    BY DEF IInv, OnlyTab, StoreAccount
<1>4. \A d \in calls[t] : (d.aliased => cache'[t] # NoAccount) /\ CallGood(d, Subject(t, d))'
    BY <1>1, RestGood
<1>5. cache'[t] # NoAccount => Good(cache[t])'
    BY <1>1, RestGood
<1>6. c.aliased \in BOOLEAN /\ (c.aliased => cache'[t] = a)
    BY <1>1, SubjectGood DEF IInv, Call
<1>7. \A d \in calls'[t] : d \in calls[t] \/ d = NewCall("setAccount", "fetch", a, c.aliased)
    BY DEF StoreAccount, IInv
<1>8. LET n == NewCall("setAccount", "fetch", a, c.aliased)
      IN  (n.aliased => cache'[t] # NoAccount) /\ CallGood(n, Subject(t, n))'
    BY <1>6, NextCallGood
<1> QED
    BY <1>2, <1>3, <1>4, <1>5, <1>7, <1>8 DEF TabGood

LEMMA InstallAccountGood ==
    ASSUME IInv, NEW t \in Tab, NEW c \in calls[t], ServerStepGood,
           NEW a, Good(a)', a.uid = Subject(t, c).uid,
           NEW same \in BOOLEAN, same => c.aliased, InstallAccount(t, c, a, same)
    PROVE  StorageGood' /\ OnlyTab(t) /\ TabGood(t)' /\ screen' \in [Tab -> Screen]
<1>1. StorageGood'
    <2>1. current' \in Uid \cup {NoUid}
        BY SubjectGood DEF InstallAccount
    <2> QED
        BY <2>1, PersistedIsGood DEF InstallAccount, IInv
<1>2. OnlyTab(t) /\ screen' \in [Tab -> Screen]
    BY DEF IInv, OnlyTab, InstallAccount, Screen
<1>3. cache'[t] = a /\ a # NoAccount
    BY NoAccountAssumption DEF InstallAccount, IInv, Good
<1>4. Good(cache[t])'
    BY <1>3 DEF Good, OwnsToken
<1>5. ServerGood /\ TabGood(t)
    BY DEF IInv
<1>6. CASE same
    <2>1. c.aliased /\ a.uid = cache[t].uid /\ calls'[t] \subseteq calls[t]
        BY <1>6 DEF Subject, InstallAccount, IInv
    <2>2. \A d \in calls'[t] :
            (d.aliased => cache'[t] # NoAccount) /\ CallGood(d, Subject(t, d))'
        BY <1>3, <1>4, <1>5, <2>1, CallKept
    <2> QED
        BY <1>1, <1>2, <1>4, <2>2 DEF TabGood
<1>7. CASE ~same
    <2>0. PICK old : old = IF c.aliased THEN a ELSE cache[t]
        OBVIOUS
    <2>1. calls'[t] = Released(calls[t] \ {c}, old)
        BY <1>7, <2>0 DEF InstallAccount, IInv
    <2>2. cache[t] # NoAccount => Good(old)' /\ old.uid = cache[t].uid
        <3>1. CASE c.aliased
            BY <2>0, <3>1 DEF Subject
        <3>2. CASE ~c.aliased /\ cache[t] # NoAccount
            <4>1. Good(old)
                BY <2>0, <3>2, <1>5 DEF TabGood
            <4> QED
                BY <2>0, <3>2, <4>1, <1>5, GoodStays
        <3> QED
            BY <3>1, <3>2
    <2>3. \A d \in calls'[t] : ~d.aliased /\ CallGood(d, Subject(t, d))'
        BY <1>5, <2>1, <2>2, ReleasedGood
    <2> QED
        BY <1>1, <1>2, <1>4, <2>3 DEF TabGood
<1> QED
    BY <1>6, <1>7

\* The object cached by a tab stays good while the tab keeps it.
LEMMA CacheStays ==
    ASSUME IInv, NEW t \in Tab, ServerStepGood, cache[t] # NoAccount,
           NEW a, a = cache[t]
    PROVE  Good(a)'
<1>1. Good(a) /\ ServerGood
    BY DEF IInv, TabGood
<1> QED
    BY <1>1, GoodStays

\* Nothing of the tab changes but that calls end.
LEMMA TabKept ==
    ASSUME IInv, NEW t \in Tab, ServerStepGood, cache'[t] = cache[t],
           calls'[t] \subseteq calls[t]
    PROVE  TabGood(t)'
<1>1. cache[t] # NoAccount => Good(cache[t])'
    <2> SUFFICES ASSUME cache[t] # NoAccount PROVE Good(cache[t])'
        OBVIOUS
    <2>1. PICK a : a = cache[t]
        OBVIOUS
    <2>2. Good(a)'
        BY <2>1, CacheStays
    <2> QED
        BY <2>1, <2>2 DEF Good, OwnsToken
<1>2. \A d \in calls'[t] : d.aliased => cache[t] # NoAccount
    BY DEF IInv, TabGood
<1>3. ServerGood /\ TabGood(t)
    BY DEF IInv
<1>4. \A d \in calls'[t] :
        (d.aliased => cache'[t] # NoAccount) /\ CallGood(d, Subject(t, d))'
    BY <1>1, <1>2, <1>3, CallKept
<1> QED
    BY <1>1, <1>4 DEF TabGood

\* The cache becomes empty and calls are released.
LEMMA TabReleased ==
    ASSUME IInv, NEW t \in Tab, ServerStepGood, cache'[t] = NoAccount,
           NEW S \in SUBSET calls[t], calls'[t] = Released(S, cache[t])
    PROVE  TabGood(t)'
<1>1. PICK a : a = cache[t]
    OBVIOUS
<1>2. cache[t] # NoAccount => Good(a)' /\ a.uid = cache[t].uid
    BY <1>1, CacheStays
<1>3. ServerGood /\ TabGood(t)
    BY DEF IInv
<1>4. \A d \in calls'[t] : ~d.aliased /\ CallGood(d, Subject(t, d))'
    BY <1>1, <1>2, <1>3, ReleasedGood
<1> QED
    BY <1>4 DEF TabGood

\* getSignedInAccount fills the cache.
LEMMA CacheFilled ==
    ASSUME IInv, NEW t \in Tab, ServerStepGood,
           cache' = [cache EXCEPT ![t] = SignedIn(t)]
    PROVE  /\ cache'[t] # NoAccount /\ Good(cache[t])'
           /\ \A d \in calls[t] :
                (d.aliased => cache'[t] # NoAccount) /\ CallGood(d, Subject(t, d))'
<1>1. PICK a : a = SignedIn(t)
    OBVIOUS
<1>2. cache'[t] = a
    BY <1>1 DEF IInv
<1>3. Good(a) /\ a # NoAccount
    BY <1>1, SignedInGood, NoAccountAssumption DEF Good
<1>4. Good(a)'
    BY <1>3, GoodStays DEF IInv
<1>5. Good(cache[t])'
    BY <1>2, <1>4 DEF Good, OwnsToken
<1>6. ServerGood /\ TabGood(t)
    BY DEF IInv
<1>7. \A d \in calls[t] : d.aliased => cache'[t] = cache[t]
    BY <1>1, <1>2, <1>6 DEF TabGood, SignedIn
<1>8. \A d \in calls[t] :
        (d.aliased => cache'[t] # NoAccount) /\ CallGood(d, Subject(t, d))'
    BY <1>2, <1>3, <1>5, <1>6, <1>7, CallKept
<1> QED
    BY <1>2, <1>3, <1>5, <1>8

LEMMA RemoveAccountGood ==
    ASSUME IInv, NEW t \in Tab, NEW c \in calls[t], ServerStepGood,
           NEW uid \in Uid \cup {NoUid}, RemoveAccount(t, c, uid)
    PROVE  StorageGood' /\ OnlyTab(t) /\ TabGood(t)' /\ inbox' \in [Tab -> Seq(Message)]
<1>1. StorageGood'
    <2>1. current' \in Uid \cup {NoUid} /\ StorageGood /\ ServerGood
        BY DEF RemoveAccount, IInv, StorageGood
    <2> QED
        BY <2>1, WithoutIsGood DEF RemoveAccount
<1>2. CASE IsSignedIn(t, uid)
    <2>1. /\ cache' = [cache EXCEPT ![t] = NoAccount]
          /\ calls' = [calls EXCEPT ![t] = Released(calls[t] \ {c}, cache[t])]
          /\ Tell(t, "SIGNED_OUT", uid)
        BY <1>2 DEF RemoveAccount
    <2>2. cache'[t] = NoAccount /\ calls'[t] = Released(calls[t] \ {c}, cache[t])
        BY <2>1 DEF IInv
    <2>3. TabGood(t)'
        BY <2>2, TabReleased
    <2>4. inbox' \in [Tab -> Seq(Message)]
        BY <2>1, TellGood
    <2>5. OnlyTab(t)
        BY <2>1, <2>2 DEF OnlyTab
    <2> QED
        BY <1>1, <2>3, <2>4, <2>5
<1>3. CASE ~IsSignedIn(t, uid)
    <2>1. /\ cache' = [cache EXCEPT ![t] = SignedIn(t)]
          /\ calls' = [calls EXCEPT ![t] = calls[t] \ {c}]
          /\ UNCHANGED inbox
        BY <1>3 DEF RemoveAccount
    <2>2. calls'[t] \subseteq calls[t] /\ OnlyTab(t) /\ inbox' \in [Tab -> Seq(Message)]
        BY <2>1 DEF IInv, OnlyTab
    <2>3. TabGood(t)'
        BY <2>1, <2>2, CacheFilled DEF TabGood
    <2> QED
        BY <1>1, <2>2, <2>3
<1> QED
    BY <1>2, <1>3

LEMMA SetSignedInAccountGood ==
    ASSUME IInv, NEW t \in Tab, NEW c \in calls[t], ServerStepGood,
           NEW a, Good(a)', a.uid = Subject(t, c).uid, SetSignedInAccount(t, c, a)
    PROVE  StorageGood' /\ OnlyTab(t) /\ TabGood(t)' /\ screen' \in [Tab -> Screen]
<1>1. c.aliased \in BOOLEAN /\ c.kind \in CallKinds \cup {"status", "recheck", "browser", "setAccount"}
    BY SubjectGood DEF Call
<1>2. CASE NeedsFetch(a)
    <2>1. /\ cache' = IF c.aliased THEN [cache EXCEPT ![t] = a] ELSE cache
          /\ calls' = [calls EXCEPT ![t] =
                         (calls[t] \ {c}) \cup {NewCall(c.kind, "fetch", a, c.aliased)}]
          /\ UNCHANGED <<accounts, current, screen>>
        BY <1>2 DEF SetSignedInAccount
    <2>2. StorageGood' /\ screen' \in [Tab -> Screen] /\ OnlyTab(t)
        <3>1. current' \in Uid \cup {NoUid} /\ StorageGood /\ ServerGood
            BY <2>1 DEF IInv, StorageGood
        <3> QED
            BY <2>1, <3>1, StoredStays DEF IInv, OnlyTab
    <2>3. \A d \in calls[t] :
            (d.aliased => cache'[t] # NoAccount) /\ CallGood(d, Subject(t, d))'
        BY <2>1, RestGood
    <2>4. cache'[t] # NoAccount => Good(cache[t])'
        BY <2>1, RestGood
    <2>5. LET n == NewCall(c.kind, "fetch", a, c.aliased)
          IN  (n.aliased => cache'[t] # NoAccount) /\ CallGood(n, Subject(t, n))'
        <3>1. c.aliased => cache'[t] = a
            BY <2>1 DEF IInv
        <3> QED
            BY <1>1, <3>1, NextCallGood
    <2>6. \A d \in calls'[t] : d \in calls[t] \/ d = NewCall(c.kind, "fetch", a, c.aliased)
        BY <2>1 DEF IInv
    <2> QED
        BY <2>2, <2>3, <2>4, <2>5, <2>6 DEF TabGood
<1>3. CASE ~NeedsFetch(a)
    BY <1>1, <1>3, InstallAccountGood DEF SetSignedInAccount
<1> QED
    BY <1>2, <1>3

LEMMA SignedInWithGood ==
    ASSUME IInv, NEW t \in Tab, NEW c \in calls[t], ServerStepGood,
           NEW a, Good(a)', a.uid = Subject(t, c).uid, SignedInWith(t, c, a)
    PROVE  /\ StorageGood' /\ OnlyTab(t) /\ TabGood(t)'
           /\ screen' \in [Tab -> Screen] /\ inbox' \in [Tab -> Seq(Message)]
<1>1. c.aliased \in BOOLEAN /\ c.kind \in CallKinds \cup {"status", "recheck", "browser", "setAccount"}
    BY SubjectGood DEF Call
<1>2. inbox' \in [Tab -> Seq(Message)]
    BY SubjectGood, TellGood DEF SignedInWith
<1>3. PICK same : same = (c.aliased /\ accounts[a.uid] = Default)
    OBVIOUS
<1>4. same \in BOOLEAN /\ (same => c.aliased)
    BY <1>3
<1>5. CASE NeedsFetch(a)
    <2>1. /\ cache' = IF c.aliased THEN [cache EXCEPT ![t] = a] ELSE cache
          /\ calls' = [calls EXCEPT ![t] =
                         (calls[t] \ {c}) \cup {NewCall(c.kind, "fetch", a, same)}]
          /\ UNCHANGED <<accounts, current, screen>>
        BY <1>3, <1>5 DEF SignedInWith
    <2>2. StorageGood' /\ screen' \in [Tab -> Screen] /\ OnlyTab(t)
        <3>1. current' \in Uid \cup {NoUid} /\ StorageGood /\ ServerGood
            BY <2>1 DEF IInv, StorageGood
        <3> QED
            BY <2>1, <3>1, StoredStays DEF IInv, OnlyTab
    <2>3. \A d \in calls[t] :
            (d.aliased => cache'[t] # NoAccount) /\ CallGood(d, Subject(t, d))'
        BY <2>1, RestGood
    <2>4. cache'[t] # NoAccount => Good(cache[t])'
        BY <2>1, RestGood
    <2>5. LET n == NewCall(c.kind, "fetch", a, same)
          IN  (n.aliased => cache'[t] # NoAccount) /\ CallGood(n, Subject(t, n))'
        <3>1. same => cache'[t] = a
            BY <1>4, <2>1 DEF IInv
        <3> QED
            BY <1>1, <1>4, <3>1, NextCallGood
    <2>6. \A d \in calls'[t] : d \in calls[t] \/ d = NewCall(c.kind, "fetch", a, same)
        BY <2>1 DEF IInv
    <2> QED
        BY <1>2, <2>2, <2>3, <2>4, <2>5, <2>6 DEF TabGood
<1>6. CASE ~NeedsFetch(a)
    <2>1. InstallAccount(t, c, a, same)
        BY <1>3, <1>6 DEF SignedInWith
    <2> QED
        BY <1>2, <1>4, <2>1, InstallAccountGood
<1> QED
    BY <1>5, <1>6

-----------------------------------------------------------------------------
(* Every action keeps the invariant.                                       *)

\* The server does not act, or only ends sessions.
LEMMA ServerIdle ==
    ASSUME IInv, UNCHANGED <<owner, confirmed>>, live' \subseteq live,
           registered' \subseteq registered
    PROVE  ServerStepGood
BY ServerUnchanged DEF IInv, ServerGood

\* The account a call is on, with other flags or without its token.
LEMMA SubjectVariants ==
    ASSUME IInv, ServerStepGood, NEW t \in Tab, NEW c \in calls[t],
           NEW a, a = Subject(t, c)
    PROVE  /\ Good(a) /\ Good(a)' /\ a.uid \in Uid \cup {NoUid}
           /\ Good([a EXCEPT !.token = NoToken])' /\ [a EXCEPT !.token = NoToken].uid = a.uid
<1>1. Good(a) /\ a.uid \in Uid \cup {NoUid}
    BY SubjectGood
<1>2. Good(a)'
    BY <1>1, GoodStays DEF IInv
<1> QED
    BY <1>1, <1>2 DEF Good, OwnsToken, Account

\* The account with a token that the server has issued to it.
LEMMA NewSessionGood ==
    ASSUME IInv, NEW a, Good(a), NEW k \in Token, NEW v \in BOOLEAN,
           owner'[k] = a.uid, a.uid # NoUid
    PROVE  LET b == [a EXCEPT !.token = k, !.verified = v]
           IN  Good(b)' /\ b.uid = a.uid
BY DEF Good, OwnsToken, Account

LEMMA FlaggedAccount ==
    ASSUME NEW a \in Account, NEW k \in Token \cup {NoToken}, NEW v \in BOOLEAN
    PROVE  /\ [a EXCEPT !.verified = v] \in Account
           /\ [a EXCEPT !.verified = v].uid = a.uid
           /\ [a EXCEPT !.verified = v].token = a.token
           /\ [a EXCEPT !.token = k, !.verified = v] \in Account
           /\ [a EXCEPT !.token = k, !.verified = v].uid = a.uid
           /\ [a EXCEPT !.token = k, !.verified = v].token = k
BY DEF Account

\* An account that is given a session the server already knows.
LEMMA ResumedAccount ==
    ASSUME NEW a \in Account, NEW k \in Token, NEW S
    PROVE  LET d == [a EXCEPT !.token = k, !.verified = k \in S]
           IN  d \in Account /\ d.uid = a.uid /\ d.token = k
<1>1. (k \in S) \in BOOLEAN /\ k \in Token \cup {NoToken}
    OBVIOUS
<1> QED
    BY <1>1, FlaggedAccount, Zenon

\* The account after the server has said whether its session is verified.
LEMMA VerifiedGood ==
    ASSUME IInv, ServerStepGood, NEW a, Good(a), NEW k, NEW S,
           NEW b, b = [a EXCEPT !.verified = k \in S]
    PROVE  Good(b)' /\ b.uid = a.uid
<1>1. Good(a)'
    BY GoodStays DEF IInv
<1>2. b \in Account /\ b.uid = a.uid /\ b.token = a.token
    <2>1. (k \in S) \in BOOLEAN /\ a \in Account /\ NoToken \in Token \cup {NoToken}
        BY <1>1 DEF Good
    <2> QED
        BY <2>1, FlaggedAccount, Zenon
<1> QED
    BY <1>1, <1>2 DEF Good, OwnsToken

LEMMA SettleSignInKeeps ==
    ASSUME IInv, NEW t \in Tab, NEW c \in calls[t], NEW a, a = Subject(t, c),
           SettleSignIn(t, c, a)
    PROVE  IInv'
<1>1. Good(a) /\ CallGood(c, a)
    BY SubjectGood
<1>2. CASE c.sent \in live
    <2>1. UNCHANGED server
          /\ SignedInWith(t, c, [a EXCEPT !.token = c.sent, !.verified = c.sent \in confirmed])
        BY <1>2 DEF SettleSignIn
    <2>2. ServerStepGood
        BY <2>1, ServerIdle DEF server
    <2>3. c.sent \in Token /\ owner'[c.sent] = a.uid /\ a.uid # NoUid
        BY <1>1, <1>2, <2>1, ConstantsAssumption DEF IInv, ServerGood, CallGood, server
    <2>4. PICK b : b = [a EXCEPT !.token = c.sent, !.verified = c.sent \in confirmed]
        OBVIOUS
    <2>5. b \in Account /\ b.uid = a.uid /\ b.token = c.sent
        <3>1. a \in Account /\ c.sent \in Token
            BY <1>1, <2>3 DEF Good
        <3>2. LET d == [a EXCEPT !.token = c.sent, !.verified = c.sent \in confirmed]
              IN  d \in Account /\ d.uid = a.uid /\ d.token = c.sent
            BY <3>1, ResumedAccount, Zenon
        <3> QED
            BY <2>4, <3>2, Zenon
    <2>6. Good(b)'
        BY <2>3, <2>5 DEF Good, OwnsToken
    <2>7. SignedInWith(t, c, b)
        BY <2>1, <2>4
    <2> QED
        BY <2>2, <2>5, <2>6, <2>7, SignedInWithGood, TabStepGood
<1>3. CASE c.sent \notin live
    <2>1. PICK k \in Token, v \in BOOLEAN :
            /\ Grant(a.uid, k, v, {})
            /\ SignedInWith(t, c, [a EXCEPT !.token = k, !.verified = v])
        BY <1>3 DEF SettleSignIn
    <2>2. a.uid \in Uid /\ a.uid # NoUid /\ registered' \subseteq Uid
        BY <1>3, ConstantsAssumption DEF SettleSignIn, IInv, ServerGood
    <2>3. ServerStepGood /\ owner'[k] = a.uid
        BY <2>1, <2>2, GrantGood DEF IInv
    <2>4. LET b == [a EXCEPT !.token = k, !.verified = v]
          IN  Good(b)' /\ b.uid = a.uid
        BY <1>1, <2>2, <2>3, NewSessionGood
    <2>5. PICK b : b = [a EXCEPT !.token = k, !.verified = v]
        OBVIOUS
    <2>6. SignedInWith(t, c, b) /\ Good(b)' /\ b.uid = a.uid
        BY <2>1, <2>4, <2>5
    <2> QED
        BY <2>3, <2>6, SignedInWithGood, TabStepGood
<1> QED
    BY <1>2, <1>3

LEMMA SettleSignInRefusedKeeps ==
    ASSUME IInv, NEW t \in Tab, NEW c \in calls[t], NEW a, a = Subject(t, c),
           SettleSignInRefused(t, c, a)
    PROVE  IInv'
<1>1. ServerStepGood /\ inbox' \in [Tab -> Seq(Message)] /\ screen' \in [Tab -> Screen]
    BY ServerIdle DEF SettleSignInRefused, server, IInv
<1>2. StorageGood'
    BY <1>1, StoredStays DEF SettleSignInRefused, storage, IInv, StorageGood
<1>3. OnlyTab(t) /\ calls'[t] \subseteq calls[t]
    BY DEF SettleSignInRefused, OnlyTab, IInv
<1>4. CASE cache' = cache
    BY <1>1, <1>2, <1>3, <1>4, TabKept, TabStepGood
<1>5. CASE c.aliased /\ cache' = [cache EXCEPT ![t] = [a EXCEPT !.token = NoToken]]
    <2>1. PICK b : b = [a EXCEPT !.token = NoToken]
        OBVIOUS
    <2>2. Good(b)' /\ b.uid = a.uid
        BY <1>1, <2>1, SubjectVariants
    <2>3. TabGood(t)'
        BY <1>1, <1>3, <1>5, <2>1, <2>2, RestGood DEF TabGood
    <2> QED
        BY <1>1, <1>2, <1>3, <2>3, TabStepGood
<1> QED
    BY <1>4, <1>5 DEF SettleSignInRefused

LEMMA SettleResumeKeeps ==
    ASSUME IInv, NEW t \in Tab, NEW c \in calls[t], NEW a, a = Subject(t, c),
           SettleResume(t, c, a)
    PROVE  IInv'
<1>1. ServerStepGood
    BY ServerIdle DEF SettleResume, server
<1>2. CASE SignedInWith(t, c, [a EXCEPT !.verified = c.sent \in confirmed])
    <2>1. PICK b : b = [a EXCEPT !.verified = c.sent \in confirmed]
        OBVIOUS
    <2>2. Good(b)' /\ b.uid = a.uid
        BY <1>1, <2>1, SubjectGood, VerifiedGood
    <2> QED
        BY <1>1, <1>2, <2>1, <2>2, SignedInWithGood, TabStepGood
<1>3. CASE RemoveAccount(t, c, a.uid) /\ UNCHANGED screen
    <2>1. a.uid \in Uid \cup {NoUid} /\ screen' \in [Tab -> Screen]
        BY <1>3, SubjectGood DEF IInv
    <2> QED
        BY <1>1, <1>3, <2>1, RemoveAccountGood, TabStepGood
<1> QED
    BY <1>2, <1>3 DEF SettleResume

LEMMA SettleResetKeeps ==
    ASSUME IInv, NEW t \in Tab, NEW c \in calls[t], NEW a, a = Subject(t, c),
           SettleReset(t, c, a)
    PROVE  IInv'
<1>1. Good(a) /\ a.uid \in Uid /\ a.uid # NoUid /\ c.aliased \in BOOLEAN
    BY SubjectGood, ConstantsAssumption DEF SettleReset, IInv, ServerGood, Call
<1>2. PICK k \in Token :
        /\ Grant(a.uid, k, TRUE, TokensOf(a.uid))
        /\ InstallAccount(t, c, [a EXCEPT !.token = k, !.verified = TRUE], c.aliased)
    BY DEF SettleReset
<1>3. ServerStepGood /\ owner'[k] = a.uid
    BY <1>1, <1>2, GrantGood DEF IInv, ServerGood, SettleReset
<1>4. PICK b : b = [a EXCEPT !.token = k, !.verified = TRUE]
    OBVIOUS
<1>5. Good(b)' /\ b.uid = a.uid
    BY <1>1, <1>3, <1>4, NewSessionGood
<1>6. inbox' \in [Tab -> Seq(Message)]
    BY <1>1, TellGood DEF SettleReset
<1>7. InstallAccount(t, c, b, c.aliased)
    BY <1>2, <1>4
<1>8. StorageGood' /\ OnlyTab(t) /\ TabGood(t)' /\ screen' \in [Tab -> Screen]
    BY <1>1, <1>3, <1>5, <1>7, InstallAccountGood
<1> QED
    BY <1>3, <1>6, <1>8, TabStepGood

LEMMA SettleSignUpKeeps ==
    ASSUME IInv, NEW t \in Tab, NEW c \in calls[t], NEW a, a = Subject(t, c),
           c.phase = "call", SettleSignUp(t, c, a)
    PROVE  IInv'
<1>1. Good(a) /\ a.uid \in Uid /\ a.uid # NoUid
    BY SubjectGood, ConstantsAssumption DEF SettleSignUp, CallGood, Subject
<1>2. PICK k \in Token, v \in BOOLEAN :
        /\ Grant(a.uid, k, v, {})
        /\ SetSignedInAccount(t, c, [a EXCEPT !.token = k, !.verified = v])
    BY DEF SettleSignUp
<1>3. ServerStepGood /\ owner'[k] = a.uid
    BY <1>1, <1>2, GrantGood DEF IInv, ServerGood, SettleSignUp
<1>4. PICK b : b = [a EXCEPT !.token = k, !.verified = v]
    OBVIOUS
<1>5. Good(b)' /\ b.uid = a.uid
    BY <1>1, <1>3, <1>4, NewSessionGood
<1>6. inbox' \in [Tab -> Seq(Message)]
    BY DEF SettleSignUp, IInv
<1> QED
    BY <1>2, <1>3, <1>4, <1>5, <1>6, SetSignedInAccountGood, TabStepGood

LEMMA SettleChangePasswordKeeps ==
    ASSUME IInv, NEW t \in Tab, NEW c \in calls[t], NEW a, a = Subject(t, c),
           SettleChangePassword(t, c, a)
    PROVE  IInv'
<1>1. Good(a) /\ a.uid \in Uid /\ a.uid # NoUid
    <2>1. c.sent \in Token /\ c.sent # NoToken /\ CallGood(c, a)
        BY SubjectGood, ConstantsAssumption DEF SettleChangePassword, IInv, ServerGood
    <2> QED
        BY <2>1 DEF CallGood, Good, Account
<1>2. PICK k \in Token, v \in BOOLEAN :
        /\ Grant(a.uid, k, v, TokensOf(a.uid))
        /\ SetSignedInAccount(t, c, [a EXCEPT !.token = k, !.verified = v])
    BY DEF SettleChangePassword
<1>3. ServerStepGood /\ owner'[k] = a.uid
    BY <1>1, <1>2, GrantGood DEF IInv, ServerGood, SettleChangePassword
<1>4. PICK b : b = [a EXCEPT !.token = k, !.verified = v]
    OBVIOUS
<1>5. Good(b)' /\ b.uid = a.uid
    BY <1>1, <1>3, <1>4, NewSessionGood
<1>6. inbox' \in [Tab -> Seq(Message)]
    BY DEF SettleChangePassword, IInv
<1> QED
    BY <1>2, <1>3, <1>4, <1>5, <1>6, SetSignedInAccountGood, TabStepGood

LEMMA SettleSignOutKeeps ==
    ASSUME IInv, NEW t \in Tab, NEW c \in calls[t], NEW a, a = Subject(t, c),
           SettleSignOut(t, c, a)
    PROVE  IInv'
<1>1. ServerStepGood /\ a.uid \in Uid \cup {NoUid}
    BY ServerIdle, SubjectGood DEF SettleSignOut
<1>2. StorageGood'
    BY <1>1, WithoutIsGood DEF SettleSignOut, IInv
<1>3. OnlyTab(t) /\ TabGood(t)' /\ screen' \in [Tab -> Screen]
    BY UnloadGood DEF SettleSignOut
<1>4. inbox' \in [Tab -> Seq(Message)]
    BY <1>1, TellGood DEF SettleSignOut, IInv
<1> QED
    BY <1>1, <1>2, <1>3, <1>4, TabStepGood

LEMMA SettleDeleteKeeps ==
    ASSUME IInv, NEW t \in Tab, NEW c \in calls[t], NEW a, a = Subject(t, c),
           SettleDelete(t, c, a)
    PROVE  IInv'
<1>1. ServerStepGood /\ a.uid \in Uid \cup {NoUid}
    BY ServerIdle, SubjectGood DEF SettleDelete
<1>2. screen' \in [Tab -> Screen]
    BY DEF SettleDelete, IInv, Screen
<1>3. RemoveAccount(t, c, a.uid)
    BY DEF SettleDelete
<1> QED
    BY <1>1, <1>2, <1>3, RemoveAccountGood, TabStepGood

LEMMA SettleEndDeviceKeeps ==
    ASSUME IInv, NEW t \in Tab, NEW c \in calls[t], NEW a, a = Subject(t, c),
           SettleEndDevice(t, c, a)
    PROVE  IInv'
<1>1. ServerStepGood /\ a.uid \in Uid \cup {NoUid}
    BY ServerIdle, SubjectGood DEF SettleEndDevice
<1>2. StorageGood'
    <2>1. StorageGood /\ ServerGood
        BY DEF IInv
    <2> QED
        BY <1>1, <2>1, WithoutIsGood, StoredStays DEF SettleEndDevice, StorageGood, storage
<1>3. OnlyTab(t) /\ TabGood(t)' /\ screen' \in [Tab -> Screen]
    BY UnloadGood DEF SettleEndDevice
<1>4. inbox' \in [Tab -> Seq(Message)]
    BY <1>1, TellGood DEF SettleEndDevice, IInv
<1> QED
    BY <1>1, <1>2, <1>3, <1>4, TabStepGood

\* A call of another kind on the signed in account, of which the cache now
\* holds the object.
LEMMA CallOnSignedInGood ==
    ASSUME IInv, NEW t \in Tab, ServerStepGood,
           cache' = [cache EXCEPT ![t] = SignedIn(t)],
           NEW kind \in CallKinds \cup {"status", "recheck", "browser", "setAccount"},
           kind \notin {"signUp", "reset", "exists"}, NEW S \in SUBSET calls[t],
           calls' = [calls EXCEPT ![t] = S \cup {NewCall(kind, "call", SignedIn(t), TRUE)}]
    PROVE  OnlyTab(t) /\ TabGood(t)'
<1>1. OnlyTab(t)
    BY DEF OnlyTab, IInv
<1>2. PICK a : a = SignedIn(t)
    OBVIOUS
<1>3. Good(a)' /\ cache'[t] = a
    BY <1>2, SignedInGood, GoodStays DEF IInv
<1>4. LET n == NewCall(kind, "call", a, TRUE)
      IN  (n.aliased => cache'[t] # NoAccount) /\ CallGood(n, Subject(t, n))'
    BY <1>3, NextCallGood
<1>5. \A d \in calls'[t] : d \in calls[t] \/ d = NewCall(kind, "call", a, TRUE)
    BY <1>2 DEF IInv
<1> QED
    BY <1>1, <1>4, <1>5, CacheFilled DEF TabGood

LEMMA SettleEndSessionKeeps ==
    ASSUME IInv, NEW t \in Tab, NEW c \in calls[t], NEW a, a = Subject(t, c),
           SettleEndSession(t, c, a)
    PROVE  IInv'
<1>1. PICK k \in live \cap TokensOf(a.uid) :
        /\ live' = live \ {k}
        /\ IF k = c.sent /\ IsSignedIn(t, a.uid)
             THEN /\ current' = NoUid
                  /\ Tell(t, "SIGNED_OUT", a.uid)
                  /\ Unload(t)
             ELSE /\ cache' = [cache EXCEPT ![t] = SignedIn(t)]
                  /\ calls' = [calls EXCEPT ![t] = (calls[t] \ {c})
                                 \cup {NewCall("recheck", "call", SignedIn(t), TRUE)}]
                  /\ UNCHANGED <<current, screen, inbox>>
    BY DEF SettleEndSession
<1>2. ServerStepGood /\ a.uid \in Uid \cup {NoUid}
    BY <1>1, ServerIdle, SubjectGood DEF SettleEndSession
<1>3. StorageGood'
    BY <1>1, <1>2, StoredStays DEF SettleEndSession, IInv, StorageGood
<1>4. CASE k = c.sent /\ IsSignedIn(t, a.uid)
    <2>1. Unload(t) /\ inbox' \in [Tab -> Seq(Message)]
        BY <1>1, <1>2, <1>4, TellGood
    <2> QED
        BY <1>2, <1>3, <2>1, UnloadGood, TabStepGood
<1>5. CASE ~(k = c.sent /\ IsSignedIn(t, a.uid))
    <2>1. /\ cache' = [cache EXCEPT ![t] = SignedIn(t)]
          /\ calls' = [calls EXCEPT ![t] = (calls[t] \ {c})
                         \cup {NewCall("recheck", "call", SignedIn(t), TRUE)}]
          /\ screen' \in [Tab -> Screen] /\ inbox' \in [Tab -> Seq(Message)]
        BY <1>1, <1>5 DEF IInv
    <2>2. OnlyTab(t) /\ TabGood(t)'
        <3>1. PICK S \in SUBSET calls[t] : S = calls[t] \ {c}
            OBVIOUS
        <3>2. calls' = [calls EXCEPT ![t] = S \cup {NewCall("recheck", "call", SignedIn(t), TRUE)}]
            BY <2>1, <3>1
        <3> QED
            BY <1>2, <2>1, <3>2, CallOnSignedInGood
    <2> QED
        BY <1>2, <1>3, <2>1, <2>2, TabStepGood
<1> QED
    BY <1>4, <1>5

LEMMA SettleExistsKeeps ==
    ASSUME IInv, NEW t \in Tab, NEW c \in calls[t], NEW a, a = Subject(t, c),
           SettleExists(t, c, a)
    PROVE  IInv'
<1>1. ServerStepGood /\ a.uid \in Uid \cup {NoUid} /\ screen' \in [Tab -> Screen]
    BY ServerIdle, SubjectGood DEF SettleExists, server, IInv
<1> QED
    BY <1>1, RemoveAccountGood, TabStepGood DEF SettleExists

LEMMA SettleProfileKeeps ==
    ASSUME IInv, NEW t \in Tab, NEW c \in calls[t], NEW a, a = Subject(t, c),
           SettleProfile(t, c, a)
    PROVE  IInv'
<1>1. /\ ServerStepGood
      /\ screen' \in [Tab -> Screen] /\ inbox' \in [Tab -> Seq(Message)]
    BY ServerIdle DEF SettleProfile, server, IInv
<1>2. CASE c.sent \in live
    <2>1. StoreAccount(t, c, a) /\ Good(a)'
        BY <1>1, <1>2, SubjectVariants DEF SettleProfile
    <2> QED
        BY <1>1, <2>1, StoreAccountGood, TabStepGood
<1>3. CASE c.sent \notin live
    <2>1. PICK b : b = [a EXCEPT !.token = NoToken]
        OBVIOUS
    <2>2. /\ cache' = IF c.aliased THEN [cache EXCEPT ![t] = b] ELSE cache
          /\ calls' = [calls EXCEPT ![t] = calls[t] \ {c}]
          /\ UNCHANGED storage
        BY <1>3, <2>1 DEF SettleProfile
    <2>3. Good(b)' /\ b.uid = a.uid
        BY <1>1, <2>1, SubjectVariants
    <2>4. OnlyTab(t) /\ calls'[t] \subseteq calls[t]
        BY <2>2 DEF OnlyTab, IInv
    <2>5. StorageGood'
        BY <1>1, <2>2, StoredStays DEF storage, IInv, StorageGood
    <2>6. TabGood(t)'
        BY <1>1, <2>2, <2>3, <2>4, RestGood DEF TabGood
    <2> QED
        BY <1>1, <2>4, <2>5, <2>6, TabStepGood
<1> QED
    BY <1>2, <1>3

LEMMA SettleStatusKeeps ==
    ASSUME IInv, NEW t \in Tab, NEW c \in calls[t], NEW a, a = Subject(t, c),
           SettleStatus(t, c, a)
    PROVE  IInv'
<1>1. /\ ServerStepGood
      /\ screen' \in [Tab -> Screen] /\ inbox' \in [Tab -> Seq(Message)]
    BY ServerIdle DEF SettleStatus, server, IInv, Screen
<1>2. PICK b : b = IF c.sent \in live THEN [a EXCEPT !.verified = c.sent \in confirmed]
                                      ELSE [a EXCEPT !.token = NoToken]
    OBVIOUS
<1>3. StoreAccount(t, c, b)
    BY <1>2 DEF SettleStatus
<1>4. Good(b)' /\ b.uid = a.uid
    BY <1>1, <1>2, SubjectVariants, VerifiedGood
<1> QED
    BY <1>1, <1>3, <1>4, StoreAccountGood, TabStepGood

LEMMA SettleRecheckKeeps ==
    ASSUME IInv, NEW t \in Tab, NEW c \in calls[t], NEW a, a = Subject(t, c),
           SettleRecheck(t, c, a)
    PROVE  IInv'
<1>1. ServerStepGood /\ inbox' \in [Tab -> Seq(Message)]
    BY ServerIdle DEF SettleRecheck, server, IInv
<1>2. CASE c.sent \in live
    <2>1. PICK b : b = [a EXCEPT !.verified = c.sent \in confirmed]
        OBVIOUS
    <2>2. StoreAccount(t, c, b) /\ screen' \in [Tab -> Screen]
        BY <1>2, <2>1 DEF SettleRecheck, IInv
    <2>3. Good(b)' /\ b.uid = a.uid
        BY <1>1, <2>1, SubjectGood, VerifiedGood
    <2> QED
        BY <1>1, <2>2, <2>3, StoreAccountGood, TabStepGood
<1>3. CASE c.sent \notin live
    <2>1. PICK b : b = [a EXCEPT !.token = NoToken]
        OBVIOUS
    <2>2. accounts' = Persisted(b, accounts) /\ current' = NoUid /\ Unload(t)
        BY <1>3, <2>1 DEF SettleRecheck
    <2>3. Good(b)'
        BY <1>1, <2>1, SubjectVariants
    <2>4. StorageGood'
        BY <1>1, <2>2, <2>3, PersistedIsGood DEF IInv
    <2> QED
        BY <1>1, <2>2, <2>4, UnloadGood, TabStepGood
<1> QED
    BY <1>2, <1>3

\* After a fetch or its failure: setAccount stores, the others install.
LEMMA FetchedGood ==
    ASSUME IInv, NEW t \in Tab, NEW c \in calls[t], ServerStepGood,
           NEW b, Good(b)', b.uid = Subject(t, c).uid,
           inbox' \in [Tab -> Seq(Message)],
           \/ /\ accounts' = Persisted(b, accounts)
              /\ cache' = IF c.aliased THEN [cache EXCEPT ![t] = b] ELSE cache
              /\ calls' = [calls EXCEPT ![t] = calls[t] \ {c}]
              /\ UNCHANGED <<current, screen>>
           \/ InstallAccount(t, c, b, c.aliased)
    PROVE  IInv'
<1>1. CASE InstallAccount(t, c, b, c.aliased)
    BY <1>1, SubjectGood, InstallAccountGood, TabStepGood DEF Call
<1>2. CASE /\ accounts' = Persisted(b, accounts)
           /\ cache' = IF c.aliased THEN [cache EXCEPT ![t] = b] ELSE cache
           /\ calls' = [calls EXCEPT ![t] = calls[t] \ {c}]
           /\ UNCHANGED <<current, screen>>
    <2>1. StorageGood'
        BY <1>2, PersistedIsGood DEF IInv, StorageGood
    <2>2. OnlyTab(t) /\ calls'[t] \subseteq calls[t] /\ screen' \in [Tab -> Screen]
        BY <1>2 DEF OnlyTab, IInv
    <2>3. TabGood(t)'
        BY <1>2, <2>2, RestGood DEF TabGood
    <2> QED
        BY <2>1, <2>2, <2>3, TabStepGood
<1> QED
    BY <1>1, <1>2

LEMMA SettleFetchKeeps ==
    ASSUME IInv, NEW t \in Tab, NEW c \in calls[t], NEW a, a = Subject(t, c),
           SettleFetch(t, c, a)
    PROVE  IInv'
<1>1. ServerStepGood /\ inbox' \in [Tab -> Seq(Message)]
    BY ServerIdle DEF SettleFetch, server, IInv
<1>2. PICK b : b = IF c.sent \in live THEN [a EXCEPT !.verified = c.sent \in confirmed]
                                      ELSE [a EXCEPT !.token = NoToken]
    OBVIOUS
<1>3. Good(b)' /\ b.uid = a.uid
    BY <1>1, <1>2, SubjectVariants, VerifiedGood
<1>4. IF c.kind = "setAccount"
        THEN /\ accounts' = Persisted(b, accounts)
             /\ cache' = IF c.aliased THEN [cache EXCEPT ![t] = b] ELSE cache
             /\ calls' = [calls EXCEPT ![t] = calls[t] \ {c}]
             /\ UNCHANGED <<current, screen>>
        ELSE InstallAccount(t, c, b, c.aliased)
    BY <1>2 DEF SettleFetch
<1> QED
    BY <1>1, <1>3, <1>4, FetchedGood

LEMMA SettleFetchFailedKeeps ==
    ASSUME IInv, NEW t \in Tab, NEW c \in calls[t], NEW a, a = Subject(t, c),
           SettleFetchFailed(t, c, a)
    PROVE  IInv'
<1>1. ServerStepGood /\ inbox' \in [Tab -> Seq(Message)]
    BY ServerIdle DEF SettleFetchFailed, server, IInv
<1>2. Good(a)' /\ (c.aliased => a = cache[t])
    BY <1>1, SubjectVariants DEF Subject
<1>3. cache = IF c.aliased THEN [cache EXCEPT ![t] = a] ELSE cache
    BY <1>2 DEF IInv
<1>4. IF c.kind = "setAccount"
        THEN /\ accounts' = Persisted(a, accounts)
             /\ cache' = IF c.aliased THEN [cache EXCEPT ![t] = a] ELSE cache
             /\ calls' = [calls EXCEPT ![t] = calls[t] \ {c}]
             /\ UNCHANGED <<current, screen>>
        ELSE InstallAccount(t, c, a, c.aliased)
    BY <1>3 DEF SettleFetchFailed
<1> QED
    BY <1>1, <1>2, <1>4, FetchedGood

LEMMA SettleFailedKeeps ==
    ASSUME IInv, NEW t \in Tab, NEW c \in calls[t], SettleFailed(t, c)
    PROVE  IInv'
<1>1. /\ ServerStepGood
      /\ screen' \in [Tab -> Screen] /\ inbox' \in [Tab -> Seq(Message)]
    BY ServerIdle DEF SettleFailed, server, IInv, Screen
<1>2. StorageGood'
    BY <1>1, StoredStays DEF SettleFailed, storage, IInv, StorageGood
<1>3. OnlyTab(t) /\ cache' = cache /\ calls'[t] \subseteq calls[t]
    BY DEF SettleFailed, OnlyTab, IInv
<1> QED
    BY <1>1, <1>2, <1>3, TabKept, TabStepGood

LEMMA SettleRecheckFailedKeeps ==
    ASSUME IInv, NEW t \in Tab, NEW c \in calls[t], SettleRecheckFailed(t, c)
    PROVE  IInv'
<1>1. ServerStepGood /\ inbox' \in [Tab -> Seq(Message)]
    BY ServerIdle DEF SettleRecheckFailed, server, IInv
<1>2. StorageGood'
    BY <1>1, StoredStays DEF SettleRecheckFailed, IInv
<1> QED
    BY <1>1, <1>2, UnloadGood, TabStepGood DEF SettleRecheckFailed

LEMMA SettleKeeps ==
    ASSUME IInv, NEW t \in Tab, NEW c \in calls[t], Settle(t, c)
    PROVE  IInv'
<1>1. PICK a : a = Subject(t, c)
    OBVIOUS
<1>2. CASE c.phase = "fetch"
    BY <1>1, <1>2, SettleFetchKeeps, SettleFetchFailedKeeps DEF Settle
<1>3. CASE c.phase # "fetch"
    <2>1. c.phase = "call"
        BY <1>3, SubjectGood DEF Call
    <2> QED
        BY <1>1, <1>3, <2>1, SettleSignInKeeps, SettleSignInRefusedKeeps, SettleResumeKeeps,
           SettleResetKeeps, SettleSignUpKeeps, SettleChangePasswordKeeps,
           SettleSignOutKeeps, SettleDeleteKeeps, SettleEndDeviceKeeps,
           SettleEndSessionKeeps, SettleExistsKeeps, SettleProfileKeeps,
           SettleStatusKeeps, SettleRecheckKeeps, SettleFailedKeeps,
           SettleRecheckFailedKeeps DEF Settle
<1> QED
    BY <1>2, <1>3

LEMMA BootKeeps ==
    ASSUME IInv, NEW t \in Tab, Boot(t)
    PROVE  IInv'
<1>1. ServerStepGood
    BY ServerIdle DEF Boot, server
<1>2. StorageGood' /\ screen' \in [Tab -> Screen] /\ inbox' \in [Tab -> Seq(Message)]
    BY <1>1, StoredStays DEF Boot, storage, IInv, StorageGood, Screen
<1>3. PICK isSync \in BOOLEAN, k \in live \cup {NoToken} :
        /\ cache' = [cache EXCEPT ![t] = IF isSync THEN NoAccount ELSE SignedInData]
        /\ LET wanted == "browser" \in Kinds /\ (isSync \/ SignedInData = Default)
               a == [uid |-> owner[k], token |-> k, verified |-> k \in confirmed]
           IN  calls' = [calls EXCEPT ![t] = IF k # NoToken /\ wanted
                           THEN {NewCall("browser", "fetch", a, FALSE)} ELSE {}]
    BY DEF Boot
<1>4. OnlyTab(t)
    BY <1>3 DEF OnlyTab, IInv
<1>5. cache'[t] # NoAccount => Good(cache[t])'
    <2>1. PICK d : d = SignedInData
        OBVIOUS
    <2>2. Good(d)
        BY <2>1, DefaultGood DEF IInv, StorageGood, SignedInData, Good
    <2>3. Good(d)' /\ cache'[t] \in {d, NoAccount}
        BY <1>1, <1>3, <2>1, <2>2, GoodStays DEF IInv
    <2> QED
        BY <2>3 DEF Good, OwnsToken
<1>6. PICK a : a = [uid |-> owner[k], token |-> k, verified |-> k \in confirmed]
    OBVIOUS
<1>7. calls'[t] \subseteq IF k # NoToken THEN {NewCall("browser", "fetch", a, FALSE)} ELSE {}
    BY <1>3, <1>6 DEF IInv
<1>8. k # NoToken => Good(a)'
    <2> SUFFICES ASSUME k # NoToken PROVE Good(a)'
        OBVIOUS
    <2>1. k \in live /\ k \in Token /\ owner[k] \in Uid /\ owner[k] # NoUid
        BY ConstantsAssumption DEF IInv, ServerGood
    <2>2. (k \in confirmed) \in BOOLEAN
        OBVIOUS
    <2>3. a \in Account /\ a.uid = owner[k] /\ a.token = k
        <3>1. \A v \in BOOLEAN :
                 LET b == [uid |-> owner[k], token |-> k, verified |-> v]
                 IN  b \in Account /\ b.uid = owner[k] /\ b.token = k
            BY <2>1 DEF Account
        <3> QED
            BY <1>6, <2>2, <3>1, Zenon
    <2>4. owner' = owner
        BY DEF Boot, server
    <2> QED
        BY <2>1, <2>3, <2>4 DEF Good, OwnsToken
<1>9. \A c \in calls'[t] : (c.aliased => cache'[t] # NoAccount) /\ CallGood(c, Subject(t, c))'
    <2> SUFFICES ASSUME k # NoToken
                 PROVE  LET n == NewCall("browser", "fetch", a, FALSE)
                        IN  (n.aliased => cache'[t] # NoAccount) /\ CallGood(n, Subject(t, n))'
        BY <1>7
    <2> QED
        BY <1>1, <1>8, NextCallGood
<1> QED
    BY <1>1, <1>2, <1>4, <1>5, <1>9, TabStepGood DEF TabGood

LEMMA SetSignedInAccountByUidGood ==
    ASSUME IInv, NEW t \in Tab, ServerStepGood, NEW uid \in Uid \cup {NoUid},
           SetSignedInAccountByUid(t, uid), UNCHANGED accounts
    PROVE  StorageGood' /\ OnlyTab(t) /\ TabGood(t)'
<1>1. current' \in Uid \cup {NoUid} /\ StorageGood /\ ServerGood
    BY DEF SetSignedInAccountByUid, IInv, StorageGood
<1>2. StorageGood'
    BY <1>1, StoredStays
<1>3. OnlyTab(t)
    BY DEF SetSignedInAccountByUid, OnlyTab, IInv
<1>4. CASE UNCHANGED <<cache, calls>>
    BY <1>2, <1>3, <1>4, TabKept
<1>5. CASE /\ cache' = [cache EXCEPT ![t] = NoAccount]
           /\ calls' = [calls EXCEPT ![t] = Released(calls[t], cache[t])]
    <2>1. cache'[t] = NoAccount /\ calls'[t] = Released(calls[t], cache[t])
        BY <1>5 DEF IInv
    <2> QED
        BY <1>2, <1>3, <2>1, TabReleased
<1> QED
    BY <1>4, <1>5 DEF SetSignedInAccountByUid

LEMMA RouteKeeps ==
    ASSUME IInv, NEW t \in Tab, Route(t)
    PROVE  IInv'
<1>1. ServerStepGood /\ UNCHANGED accounts
    BY ServerIdle DEF Route, server
<1>2. CASE /\ screen' = [screen EXCEPT ![t] = "entry"]
           /\ UNCHANGED <<current, cache, calls, inbox>>
    <2>1. StorageGood'
        BY <1>1, <1>2, StoredStays DEF IInv, StorageGood
    <2>2. OnlyTab(t) /\ screen' \in [Tab -> Screen] /\ inbox' \in [Tab -> Seq(Message)]
        BY <1>2 DEF OnlyTab, IInv, Screen
    <2> QED
        BY <1>1, <1>2, <2>1, <2>2, TabKept, TabStepGood
<1>3. ASSUME screen' = [screen EXCEPT ![t] = "opening"],
             NEW uid \in Uid \cup {NoUid}, ClearSignedInAccount(t)
      PROVE  IInv'
    <2>1. SignedIn(t).uid \in Uid \cup {NoUid}
        BY SignedInGood DEF Good, Account
    <2>2. inbox' \in [Tab -> Seq(Message)]
        BY <1>3, <2>1, TellGood DEF ClearSignedInAccount
    <2>3. StorageGood' /\ OnlyTab(t) /\ screen' \in [Tab -> Screen]
        BY <1>1, <1>3, StoredStays DEF ClearSignedInAccount, OnlyTab, IInv, Screen
    <2>4. cache'[t] = NoAccount /\ calls'[t] = Released(calls[t], cache[t])
        BY <1>3 DEF ClearSignedInAccount, IInv
    <2> QED
        BY <1>1, <2>2, <2>3, <2>4, TabReleased, TabStepGood
<1>4. ASSUME screen' = [screen EXCEPT ![t] = "opening"], UNCHANGED inbox,
             NEW uid \in Uid \cup {NoUid}, SetSignedInAccountByUid(t, uid)
      PROVE  IInv'
    <2>1. screen' \in [Tab -> Screen] /\ inbox' \in [Tab -> Seq(Message)]
        BY <1>4 DEF IInv, Screen
    <2> QED
        BY <1>1, <1>4, <2>1, SetSignedInAccountByUidGood, TabStepGood
<1> QED
    BY <1>2, <1>3, <1>4 DEF Route

LEMMA CheckAuthorizationKeeps ==
    ASSUME IInv, NEW t \in Tab, CheckAuthorization(t)
    PROVE  IInv'
<1>1. ServerStepGood /\ inbox' \in [Tab -> Seq(Message)]
    BY ServerIdle DEF CheckAuthorization, server, IInv
<1>2. cache' = [cache EXCEPT ![t] = SignedIn(t)] /\ UNCHANGED current
    BY DEF CheckAuthorization
<1>3. PICK a : a = SignedIn(t)
    OBVIOUS
<1>4. Good(a)'
    BY <1>1, <1>3, SignedInGood, GoodStays DEF IInv
<1>5. CASE a.token = NoToken
    <2>1. /\ accounts' = Persisted(a, accounts) /\ UNCHANGED calls
          /\ screen' \in [Tab -> Screen]
        BY <1>3, <1>5 DEF CheckAuthorization, IInv, Screen
    <2>2. StorageGood'
        BY <1>1, <1>2, <1>4, <2>1, PersistedIsGood DEF IInv, StorageGood
    <2>3. OnlyTab(t) /\ TabGood(t)'
        BY <1>1, <1>2, <2>1, CacheFilled DEF OnlyTab, IInv, TabGood
    <2> QED
        BY <1>1, <2>1, <2>2, <2>3, TabStepGood
<1>6. CASE a.token # NoToken
    <2>1. /\ UNCHANGED <<accounts, screen>>
          /\ calls' = [calls EXCEPT ![t] = calls[t] \cup {NewCall("status", "call", SignedIn(t), TRUE)}]
        BY <1>3, <1>6 DEF CheckAuthorization
    <2>2. StorageGood' /\ screen' \in [Tab -> Screen]
        BY <1>1, <1>2, <2>1, StoredStays DEF IInv, StorageGood
    <2>3. OnlyTab(t) /\ TabGood(t)'
        BY <1>1, <1>2, <2>1, CallOnSignedInGood
    <2> QED
        BY <1>1, <2>2, <2>3, TabStepGood
<1> QED
    BY <1>5, <1>6

\* A call is added on the object b; the cache, if it changes, becomes b.
LEMMA StartGood ==
    ASSUME IInv, NEW t \in Tab, ServerStepGood, NEW b, Good(b)', NEW aliased \in BOOLEAN,
           aliased => cache'[t] = b,
           cache' = cache \/ ( /\ cache' = [cache EXCEPT ![t] = b]
                               /\ cache[t] # NoAccount => b.uid = cache[t].uid),
           NEW kind \in CallKinds,
           kind \notin {"signUp", "reset", "exists"} \/ (~aliased /\ b.uid \in Uid),
           calls' = [calls EXCEPT ![t] = calls[t] \cup {NewCall(kind, "call", b, aliased)}]
    PROVE  OnlyTab(t) /\ TabGood(t)'
<1>1. OnlyTab(t)
    BY DEF OnlyTab, IInv
<1>2. LET n == NewCall(kind, "call", b, aliased)
      IN  (n.aliased => cache'[t] # NoAccount) /\ CallGood(n, Subject(t, n))'
    BY NextCallGood
<1>3. \A d \in calls'[t] : d \in calls[t] \/ d = NewCall(kind, "call", b, aliased)
    BY DEF IInv
<1>4. CASE cache' = cache
    <2>1. cache'[t] # NoAccount => Good(cache[t])'
        <3>1. PICK a : a = cache[t]
            OBVIOUS
        <3>2. a # NoAccount => Good(a)'
            BY <3>1, CacheStays
        <3> QED
            BY <1>4, <3>1, <3>2 DEF Good, OwnsToken
    <2>2. \A d \in calls[t] :
            (d.aliased => cache'[t] # NoAccount) /\ CallGood(d, Subject(t, d))'
        BY <1>4, <2>1, CallKept DEF IInv, TabGood
    <2> QED
        BY <1>1, <1>2, <1>3, <2>1, <2>2 DEF TabGood
<1>5. CASE /\ cache' = [cache EXCEPT ![t] = b]
           /\ cache[t] # NoAccount => b.uid = cache[t].uid
    <2>1. cache'[t] = b /\ b # NoAccount
        BY <1>5, NoAccountAssumption DEF IInv, Good
    <2>2. Good(cache[t])'
        BY <2>1 DEF Good, OwnsToken
    <2>3. \A d \in calls[t] :
            (d.aliased => cache'[t] # NoAccount) /\ CallGood(d, Subject(t, d))'
        BY <1>5, <2>1, <2>2, CallKept DEF IInv, TabGood
    <2> QED
        BY <1>1, <1>2, <1>3, <2>2, <2>3 DEF TabGood
<1> QED
    BY <1>4, <1>5

\* Starting a call leaves the storage, the server and the messages alone.
LEMMA StartKeeps ==
    ASSUME IInv, NEW t \in Tab, UNCHANGED <<storage, screen, inbox, server>>,
           ServerStepGood => OnlyTab(t) /\ TabGood(t)'
    PROVE  IInv'
<1>1. /\ ServerStepGood
      /\ screen' \in [Tab -> Screen] /\ inbox' \in [Tab -> Seq(Message)]
    BY ServerIdle DEF server, IInv
<1>2. StorageGood'
    BY <1>1, StoredStays DEF storage, IInv, StorageGood
<1> QED
    BY <1>1, <1>2, TabStepGood

LEMMA FreshGood ==
    ASSUME NEW uid \in Uid
    PROVE  /\ Good([Default EXCEPT !.uid = uid])
           /\ [Default EXCEPT !.uid = uid].uid = uid
           /\ [Default EXCEPT !.uid = uid].token = NoToken
BY DEF Good, OwnsToken, Default, Account

LEMMA StartSignInKeeps ==
    ASSUME IInv, NEW t \in Tab, NEW uid \in Uid, StartSignIn(t, uid)
    PROVE  IInv'
<1>1. UNCHANGED <<storage, screen, inbox, server>>
    BY DEF StartSignIn
<1>2. PICK reuse \in BOOLEAN :
        \/ /\ \E a \in {[Default EXCEPT !.uid = uid], accounts[uid]} \ {Default} :
                Start(t, "signIn", IF reuse THEN a ELSE [a EXCEPT !.token = NoToken], FALSE)
           /\ UNCHANGED cache
        \/ /\ cache[t] # NoAccount /\ cache[t].uid = uid
           /\ Start(t, "signIn", IF reuse THEN cache[t]
                                 ELSE [cache[t] EXCEPT !.token = NoToken], TRUE)
           /\ cache' = [cache EXCEPT ![t] = IF reuse THEN cache[t]
                                            ELSE [cache[t] EXCEPT !.token = NoToken]]
    BY DEF StartSignIn
<1>3. ASSUME ServerStepGood
      PROVE  OnlyTab(t) /\ TabGood(t)'
    <2>1. ASSUME NEW a, Good(a)
          PROVE  LET b == IF reuse THEN a ELSE [a EXCEPT !.token = NoToken]
                 IN  Good(b)' /\ b.uid = a.uid
        <3>1. Good(a)'
            BY <1>3, <2>1, GoodStays DEF IInv
        <3> QED
            BY <3>1 DEF Good, OwnsToken, Account
    <2>2. CASE /\ \E a \in {[Default EXCEPT !.uid = uid], accounts[uid]} \ {Default} :
                    Start(t, "signIn", IF reuse THEN a ELSE [a EXCEPT !.token = NoToken], FALSE)
               /\ UNCHANGED cache
        <3>1. PICK a \in {[Default EXCEPT !.uid = uid], accounts[uid]} :
                Start(t, "signIn", IF reuse THEN a ELSE [a EXCEPT !.token = NoToken], FALSE)
            BY <2>2
        <3>2. Good(a)
            BY <3>1, FreshGood DEF IInv, StorageGood, Good
        <3>3. PICK b : b = IF reuse THEN a ELSE [a EXCEPT !.token = NoToken]
            OBVIOUS
        <3>4. Good(b)'
            BY <2>1, <3>2, <3>3
        <3>5. calls' = [calls EXCEPT ![t] = calls[t] \cup {NewCall("signIn", "call", b, FALSE)}]
            BY <3>1, <3>3 DEF Start
        <3> QED
            BY <1>3, <2>2, <3>4, <3>5, StartGood DEF CallKinds
    <2>3. CASE /\ cache[t] # NoAccount /\ cache[t].uid = uid
               /\ Start(t, "signIn", IF reuse THEN cache[t]
                                     ELSE [cache[t] EXCEPT !.token = NoToken], TRUE)
               /\ cache' = [cache EXCEPT ![t] = IF reuse THEN cache[t]
                                                ELSE [cache[t] EXCEPT !.token = NoToken]]
        <3>1. PICK a : a = cache[t]
            OBVIOUS
        <3>2. Good(a)
            BY <2>3, <3>1 DEF IInv, TabGood
        <3>3. PICK b : b = IF reuse THEN a ELSE [a EXCEPT !.token = NoToken]
            OBVIOUS
        <3>4. Good(b)' /\ b.uid = a.uid
            BY <2>1, <3>2, <3>3
        <3>5. /\ calls' = [calls EXCEPT ![t] = calls[t] \cup {NewCall("signIn", "call", b, TRUE)}]
              /\ cache' = [cache EXCEPT ![t] = b] /\ cache'[t] = b
            BY <2>3, <3>1, <3>3 DEF Start, IInv
        <3> QED
            BY <1>3, <3>1, <3>4, <3>5, StartGood DEF CallKinds
    <2> QED
        BY <1>2, <2>2, <2>3
<1> QED
    BY <1>1, <1>3, StartKeeps

LEMMA StartResumeKeeps ==
    ASSUME IInv, NEW t \in Tab, NEW uid \in Uid, StartResume(t, uid)
    PROVE  IInv'
<1>1. UNCHANGED <<storage, screen, inbox, server>> /\ UNCHANGED cache
    BY DEF StartResume
<1>2. ASSUME ServerStepGood
      PROVE  OnlyTab(t) /\ TabGood(t)'
    <2>1. PICK b : b = accounts[uid]
        OBVIOUS
    <2>2. Good(b)
        BY <2>1 DEF IInv, StorageGood, Good
    <2>3. Good(b)'
        BY <1>2, <2>2, GoodStays DEF IInv
    <2>4. calls' = [calls EXCEPT ![t] = calls[t] \cup {NewCall("resume", "call", b, FALSE)}]
        BY <2>1 DEF StartResume, Start
    <2> QED
        BY <1>1, <1>2, <2>3, <2>4, StartGood DEF CallKinds
<1> QED
    BY <1>1, <1>2, StartKeeps

LEMMA StartFreshKeeps ==
    ASSUME IInv, NEW t \in Tab, NEW uid \in Uid, NEW kind \in Kinds, StartFresh(t, kind, uid)
    PROVE  IInv'
<1>1. UNCHANGED <<storage, screen, inbox, server>> /\ UNCHANGED cache
    BY DEF StartFresh
<1>2. ASSUME ServerStepGood
      PROVE  OnlyTab(t) /\ TabGood(t)'
    <2>1. PICK b : b = [Default EXCEPT !.uid = uid]
        OBVIOUS
    <2>2. Good(b) /\ b.uid = uid
        BY <2>1, FreshGood
    <2>3. Good(b)'
        BY <1>2, <2>2, GoodStays DEF IInv
    <2>4. /\ calls' = [calls EXCEPT ![t] = calls[t] \cup {NewCall(kind, "call", b, FALSE)}]
          /\ kind \in CallKinds
        BY <2>1 DEF StartFresh, Start
    <2> QED
        BY <1>1, <1>2, <2>2, <2>3, <2>4, StartGood
<1> QED
    BY <1>1, <1>2, StartKeeps

LEMMA StartInSettingsKeeps ==
    ASSUME IInv, NEW t \in Tab, NEW kind \in Kinds, StartInSettings(t, kind)
    PROVE  IInv'
<1>1. UNCHANGED <<storage, screen, inbox, server>>
    BY DEF StartInSettings
<1>2. ASSUME ServerStepGood
      PROVE  OnlyTab(t) /\ TabGood(t)'
    <2>1. PICK S \in SUBSET calls[t] : S = calls[t]
        OBVIOUS
    <2>2. /\ cache' = [cache EXCEPT ![t] = SignedIn(t)]
          /\ calls' = [calls EXCEPT ![t] = S \cup {NewCall(kind, "call", SignedIn(t), TRUE)}]
          /\ kind \in CallKinds /\ kind \notin {"signUp", "reset", "exists"}
        BY <2>1 DEF StartInSettings, Start
    <2> QED
        BY <1>2, <2>2, CallOnSignedInGood
<1> QED
    BY <1>1, <1>2, StartKeeps

LEMMA UseDifferentAccountKeeps ==
    ASSUME IInv, NEW t \in Tab, UseDifferentAccount(t)
    PROVE  IInv'
<1>1. /\ ServerStepGood
      /\ screen' \in [Tab -> Screen] /\ inbox' \in [Tab -> Seq(Message)]
    BY ServerIdle DEF UseDifferentAccount, server, IInv
<1>2. StorageGood'
    <2>1. Default \in Account /\ Default.uid = NoUid /\ Default.token = NoToken
        BY DEF Default, Account
    <2>2. accounts' = [u \in Uid |-> Default] /\ current' = NoUid
        BY DEF UseDifferentAccount
    <2> QED
        BY <2>1, <2>2 DEF StorageGood, OwnsToken
<1>3. OnlyTab(t)
    BY DEF UseDifferentAccount, OnlyTab, IInv
<1>4. cache'[t] = NoAccount /\ calls'[t] = Released(calls[t], cache[t])
    BY DEF UseDifferentAccount, IInv
<1> QED
    BY <1>1, <1>2, <1>3, <1>4, TabReleased, TabStepGood

LEMMA MessageKeeps ==
    ASSUME IInv, NEW t \in Tab, HandleSignedOut(t) \/ HandleSignedIn(t) \/ IgnoreMessage(t)
    PROVE  IInv'
<1>1. ASSUME NEW cmd, Received(t, cmd)
      PROVE  inbox' \in [Tab -> Seq(Message)] /\ Head(inbox[t]).uid \in Uid \cup {NoUid}
    <2>1. inbox[t] \in Seq(Message) /\ inbox[t] # <<>>
        BY <1>1 DEF Received, IInv
    <2>2. Tail(inbox[t]) \in Seq(Message) /\ Head(inbox[t]) \in Message
        BY <2>1
    <2> QED
        BY <1>1, <2>2 DEF Received, IInv, Message
<1>2. ServerStepGood /\ inbox' \in [Tab -> Seq(Message)]
    BY <1>1, ServerIdle DEF HandleSignedOut, HandleSignedIn, IgnoreMessage, server
<1>3. CASE HandleSignedOut(t)
    <2>1. StorageGood'
        BY <1>2, <1>3, StoredStays DEF HandleSignedOut, IInv
    <2> QED
        BY <1>2, <1>3, <2>1, UnloadGood, TabStepGood DEF HandleSignedOut
<1>4. CASE HandleSignedIn(t)
    <2>1. PICK uid : uid = Head(inbox[t]).uid
        OBVIOUS
    <2>2. /\ uid \in Uid \cup {NoUid} /\ SetSignedInAccountByUid(t, uid)
          /\ UNCHANGED accounts /\ screen' \in [Tab -> Screen]
        BY <1>1, <1>4, <2>1 DEF HandleSignedIn, IInv, Screen
    <2> QED
        BY <1>2, <2>2, SetSignedInAccountByUidGood, TabStepGood
<1>5. CASE IgnoreMessage(t)
    <2>1. StorageGood' /\ OnlyTab(t) /\ screen' \in [Tab -> Screen]
        BY <1>2, <1>5, StoredStays DEF IgnoreMessage, storage, OnlyTab, IInv, StorageGood
    <2>2. TabGood(t)'
        BY <1>2, <1>5, TabKept DEF IgnoreMessage
    <2> QED
        BY <1>2, <2>1, <2>2, TabStepGood
<1> QED
    BY <1>3, <1>4, <1>5

\* Opening the settings and closing the page.
LEMMA PageKeeps ==
    ASSUME IInv, NEW t \in Tab, OpenSettings(t) \/ CloseTab(t)
    PROVE  IInv'
<1>1. ServerStepGood /\ inbox' \in [Tab -> Seq(Message)]
    BY ServerIdle DEF OpenSettings, CloseTab, server, IInv
<1>2. StorageGood'
    BY <1>1, StoredStays DEF OpenSettings, CloseTab, storage, IInv, StorageGood
<1>3. CASE OpenSettings(t)
    <2>1. OnlyTab(t) /\ TabGood(t)' /\ screen' \in [Tab -> Screen]
        BY <1>1, <1>3, TabKept DEF OpenSettings, OnlyTab, IInv, Screen
    <2> QED
        BY <1>1, <1>2, <2>1, TabStepGood
<1>4. CASE CloseTab(t)
    BY <1>1, <1>2, <1>4, UnloadGood, TabStepGood DEF CloseTab
<1> QED
    BY <1>3, <1>4

LEMMA ServerKeeps ==
    ASSUME IInv, NEW k \in Token, Confirm(k) \/ Revoke(k)
    PROVE  IInv'
<1>1. ServerStepGood
    BY ServerUnchanged DEF IInv, ServerGood, Confirm, Revoke
<1>2. UNCHANGED <<accounts, current, cache, calls, screen, inbox>>
    BY DEF Confirm, Revoke, storage, tabs
<1>3. StorageGood'
    BY <1>1, <1>2, StoredStays DEF IInv, StorageGood
<1>4. \A t \in Tab : TabGood(t)'
    BY <1>1, <1>2, TabKept
<1> QED
    BY <1>1, <1>2, <1>3, <1>4 DEF IInv, ServerStepGood

LEMMA InitGood == Init => IInv
<1> SUFFICES ASSUME Init PROVE IInv
    OBVIOUS
<1>1. StorageGood
    BY ConstantsAssumption DEF Init, StorageGood, Default, Account, OwnsToken
<1>2. ServerGood
    BY DEF Init, ServerGood
<1>3. \A t \in Tab : TabGood(t)
    BY DEF Init, TabGood
<1>4. inbox \in [Tab -> Seq(Message)]
    BY DEF Init
<1> QED
    BY <1>1, <1>2, <1>3, <1>4 DEF Init, IInv, Screen

LEMMA StepGood == IInv /\ [Next]_vars => IInv'
<1> SUFFICES ASSUME IInv, [Next]_vars PROVE IInv'
    OBVIOUS
<1>1. ASSUME NEW t \in Tab, TabStep(t)
      PROVE  IInv'
    <2>1. CASE Boot(t) \/ Route(t) \/ OpenSettings(t) \/ CheckAuthorization(t) \/ CloseTab(t)
        BY <2>1, BootKeeps, RouteKeeps, PageKeeps, CheckAuthorizationKeeps
    <2>2. CASE \E uid \in Uid :
                 \/ StartSignIn(t, uid) \/ StartResume(t, uid)
                 \/ \E kind \in Kinds : StartFresh(t, kind, uid)
        BY <2>2, StartSignInKeeps, StartResumeKeeps, StartFreshKeeps
    <2>3. CASE \E kind \in Kinds : StartInSettings(t, kind)
        BY <2>3, StartInSettingsKeeps
    <2>4. CASE \E c \in calls[t] : Settle(t, c)
        BY <2>4, SettleKeeps
    <2>5. CASE UseDifferentAccount(t)
        BY <2>5, UseDifferentAccountKeeps
    <2>6. CASE HandleSignedOut(t) \/ HandleSignedIn(t) \/ IgnoreMessage(t)
        BY <2>6, MessageKeeps
    <2> QED
        BY <1>1, <2>1, <2>2, <2>3, <2>4, <2>5, <2>6 DEF TabStep
<1>2. CASE ServerStep
    BY <1>2, ServerKeeps DEF ServerStep
<1>3. CASE UNCHANGED vars
    <2>1. UNCHANGED <<accounts, current, cache, calls, screen, inbox>> /\ ServerStepGood
        BY <1>3, ServerIdle DEF vars
    <2>2. StorageGood'
        BY <2>1, StoredStays DEF IInv, StorageGood
    <2>3. \A t \in Tab : TabGood(t)'
        BY <2>1, TabKept
    <2> QED
        BY <2>1, <2>2, <2>3 DEF IInv, ServerStepGood
<1> QED
    BY <1>1, <1>2, <1>3 DEF Next

LEMMA InvariantHolds == Spec => []IInv
BY InitGood, StepGood, PTL DEF Spec

\* The variables keep their types, for any number of tabs and accounts.
THEOREM TypesHold == Spec => []TypeOK
<1>1. IInv => TypeOK
    BY DEF IInv, StorageGood, ServerGood, TabGood, TypeOK
<1> QED
    BY <1>1, InvariantHolds, PTL

\* A session token is kept only with the account the auth server issued it
\* to, however tabs, calls and server interleave.
THEOREM TokensAreNeverMixed == Spec => []TokensStayWithTheirAccount
<1>1. IInv => TokensStayWithTheirAccount
    BY DEF IInv, StorageGood, TabGood, CallGood, Good, TokensStayWithTheirAccount
<1> QED
    BY <1>1, InvariantHolds, PTL

-----------------------------------------------------------------------------
AnyUid == Uid \cup {NoUid}

\* The account a call is on keeps its uid, whatever is set on it.
LEMMA SubjectUid ==
    ASSUME IInv, NEW t \in Tab, NEW c \in calls[t]
    PROVE  /\ Subject(t, c).uid \in AnyUid
           /\ \A k, v : [Subject(t, c) EXCEPT !.token = k, !.verified = v].uid \in AnyUid
           /\ \A k : [Subject(t, c) EXCEPT !.token = k].uid \in AnyUid
           /\ \A v : [Subject(t, c) EXCEPT !.verified = v].uid \in AnyUid
<1>1. Subject(t, c) \in Account
    BY DEF IInv, TabGood, CallGood, Good
<1> QED
    BY <1>1 DEF Account, AnyUid

-----------------------------------------------------------------------------
(* A tab in step with the storage stays so.                                *)

\* Whoever is stored is stored under the own uid.
StoredByUid == \A u \in Uid : accounts[u] = Default \/ accounts[u].uid = u

StorageAgrees == StorageGood /\ StoredByUid /\ SignedInAccountIsStored

CacheAgrees(t) == cache[t] # NoAccount => cache[t].uid = current

Agrees(t) == StorageAgrees /\ CacheAgrees(t)

LEMMA PersistedAgrees ==
    ASSUME StorageAgrees, NEW a, a.uid \in AnyUid, accounts' = Persisted(a, accounts), current' \in {current, NoUid, a.uid}
    PROVE  StoredByUid' /\ SignedInAccountIsStored'
<1>1. CASE a.uid = NoUid
    BY <1>1 DEF Persisted, StorageAgrees, StoredByUid, SignedInAccountIsStored
<1>2. CASE a.uid \in Uid /\ a.uid # NoUid
    <2>1. accounts'[a.uid] = a /\ \A u \in Uid \ {a.uid} : accounts'[u] = accounts[u]
        BY <1>2 DEF Persisted, StorageAgrees, StorageGood
    <2>2. a # Default
        BY <1>2 DEF Default
    <2>3. StoredByUid'
        BY <2>1 DEF StorageAgrees, StoredByUid
    <2>4. SignedInAccountIsStored'
        BY <1>2, <2>1, <2>2 DEF StorageAgrees, StorageGood, SignedInAccountIsStored
    <2> QED
        BY <2>3, <2>4
<1> QED
    BY <1>1, <1>2 DEF AnyUid

LEMMA WithoutAgrees ==
    ASSUME StorageAgrees, NEW uid \in AnyUid, accounts' = Without(uid, accounts),
           current' = NoUid \/ (current' = current /\ (uid = NoUid \/ uid # current))
    PROVE  StoredByUid' /\ SignedInAccountIsStored'
BY DEF AnyUid, Without, StorageAgrees, StorageGood, StoredByUid, SignedInAccountIsStored

LEMMA SameAgrees ==
    ASSUME StorageAgrees, accounts' = accounts, current' \in {current, NoUid}
    PROVE  StoredByUid' /\ SignedInAccountIsStored'
BY DEF StorageAgrees, StoredByUid, SignedInAccountIsStored

\* The signed in account is the one the storage names.
LEMMA SignedInAgrees ==
    ASSUME NEW t \in Tab, Agrees(t)
    PROVE  SignedIn(t).uid = current
BY DEF Agrees, StorageAgrees, StorageGood, StoredByUid, SignedInAccountIsStored, CacheAgrees,
       SignedIn, SignedInData, Default

\* What a step of the tab t has to do.
Kept(t) == StoredByUid' /\ SignedInAccountIsStored' /\ CacheAgrees(t)'

\* The account a call is on, if it is the cached one, is the signed in one.
LEMMA SubjectAgrees ==
    ASSUME IInv, NEW t \in Tab, Agrees(t), NEW c \in calls[t], c.aliased
    PROVE  Subject(t, c).uid = current
BY DEF IInv, TabGood, Agrees, CacheAgrees, Subject

\* A cached object is changed, and keeps its uid.
LEMMA CacheKept ==
    ASSUME IInv, NEW t \in Tab, Agrees(t), NEW aliased, NEW a, current' = current,
           aliased => a.uid = current,
           cache' = IF aliased THEN [cache EXCEPT ![t] = a] ELSE cache
    PROVE  CacheAgrees(t)'
BY DEF IInv, Agrees, CacheAgrees

LEMMA InstallAgrees ==
    ASSUME IInv, NEW t \in Tab, Agrees(t), NEW c, NEW a, a.uid \in AnyUid, NEW same, InstallAccount(t, c, a, same)
    PROVE  Kept(t)
<1>1. accounts' = Persisted(a, accounts) /\ current' = a.uid /\ cache'[t] = a
    BY DEF InstallAccount, IInv
<1> QED
    BY <1>1, PersistedAgrees DEF Agrees, CacheAgrees, Kept

LEMMA StoreAgrees ==
    ASSUME IInv, NEW t \in Tab, Agrees(t), NEW c, NEW a, a.uid \in AnyUid, c.aliased => a.uid = current,
           StoreAccount(t, c, a)
    PROVE  Kept(t)
<1>1. /\ accounts' \in {accounts, Persisted(a, accounts)} /\ current' = current
      /\ cache' = IF c.aliased THEN [cache EXCEPT ![t] = a] ELSE cache
    BY DEF StoreAccount
<1> QED
    BY <1>1, PersistedAgrees, SameAgrees, CacheKept DEF Agrees, Kept

LEMMA SetSignedInAgrees ==
    ASSUME IInv, NEW t \in Tab, Agrees(t), NEW c, NEW a, a.uid \in AnyUid, c.aliased => a.uid = current,
           SetSignedInAccount(t, c, a)
    PROVE  Kept(t)
<1>1. CASE NeedsFetch(a)
    BY <1>1, SameAgrees, CacheKept DEF SetSignedInAccount, Agrees, Kept
<1>2. CASE ~NeedsFetch(a)
    BY <1>2, InstallAgrees DEF SetSignedInAccount
<1> QED
    BY <1>1, <1>2

LEMMA SignedInWithAgrees ==
    ASSUME IInv, NEW t \in Tab, Agrees(t), NEW c, NEW a, a.uid \in AnyUid, c.aliased => a.uid = current,
           SignedInWith(t, c, a)
    PROVE  Kept(t)
<1>1. CASE NeedsFetch(a)
    BY <1>1, SameAgrees, CacheKept DEF SignedInWith, Agrees, Kept
<1>2. CASE ~NeedsFetch(a)
    BY <1>2, InstallAgrees DEF SignedInWith
<1> QED
    BY <1>1, <1>2

LEMMA RemoveAgrees ==
    ASSUME IInv, NEW t \in Tab, Agrees(t), NEW c, NEW uid \in AnyUid, RemoveAccount(t, c, uid)
    PROVE  Kept(t)
<1>1. SignedIn(t).uid = current /\ accounts' = Without(uid, accounts)
    BY SignedInAgrees DEF RemoveAccount
<1>2. CASE IsSignedIn(t, uid)
    BY <1>1, <1>2, WithoutAgrees DEF RemoveAccount, Agrees, CacheAgrees, Kept, IInv
<1>3. CASE ~IsSignedIn(t, uid)
    <2>1. cache'[t] = SignedIn(t) /\ current' = current
        BY <1>3 DEF RemoveAccount, IInv
    <2>2. uid = NoUid \/ uid # current
        BY <1>1, <1>3 DEF IsSignedIn
    <2> QED
        BY <1>1, <2>1, <2>2, WithoutAgrees DEF Agrees, CacheAgrees, Kept
<1> QED
    BY <1>2, <1>3

LEMMA ByUidAgrees ==
    ASSUME IInv, NEW t \in Tab, Agrees(t), NEW uid \in AnyUid, SetSignedInAccountByUid(t, uid), accounts' = accounts
    PROVE  Kept(t)
BY DEF SetSignedInAccountByUid, Agrees, StorageAgrees, StoredByUid, SignedInAccountIsStored, CacheAgrees, Kept, IInv, AnyUid

\* A page that goes away, or forgets who is signed in.
LEMMA ForgetsAgrees ==
    ASSUME IInv, NEW t \in Tab, StorageAgrees, current' \in {current, NoUid}, accounts' = accounts, cache'[t] = NoAccount
    PROVE  Kept(t)
BY SameAgrees DEF Kept, CacheAgrees

LEMMA UnloadForgets ==
    ASSUME IInv, NEW t \in Tab, Unload(t)
    PROVE  cache'[t] = NoAccount
BY DEF IInv, Unload

-----------------------------------------------------------------------------
LEMMA SettleAgrees ==
    ASSUME IInv, NEW t \in Tab, Agrees(t), NEW c \in calls[t], Settle(t, c)
    PROVE  Kept(t)
<1> DEFINE a == Subject(t, c)
<1>1. /\ a.uid \in AnyUid /\ (c.aliased => a.uid = current) /\ a \in Account
      /\ StorageAgrees /\ SignedIn(t).uid = current
    BY SubjectUid, SubjectAgrees, SubjectGood, SignedInAgrees DEF Agrees, Good
<1>2. /\ \A k, v : [a EXCEPT !.token = k, !.verified = v].uid = a.uid
      /\ \A k : [a EXCEPT !.token = k].uid = a.uid
      /\ \A v : [a EXCEPT !.verified = v].uid = a.uid
    BY <1>1 DEF Account
<1> HIDE DEF a
<1>3. CASE SettleFetch(t, c, a)
    <2>1. PICK b : b.uid = a.uid /\
              IF c.kind = "setAccount"
              THEN /\ accounts' = Persisted(b, accounts) /\ current' = current
                   /\ cache' = IF c.aliased THEN [cache EXCEPT ![t] = b] ELSE cache
              ELSE InstallAccount(t, c, b, c.aliased)
        BY <1>2, <1>3 DEF SettleFetch
    <2>2. CASE c.kind = "setAccount"
        BY <1>1, <2>1, <2>2, PersistedAgrees, CacheKept DEF Kept
    <2>3. CASE c.kind # "setAccount"
        BY <1>1, <2>1, <2>3, InstallAgrees
    <2> QED
        BY <2>2, <2>3
<1>4. CASE SettleFetchFailed(t, c, a)
    <2>1. CASE c.kind = "setAccount"
        BY <1>1, <1>4, <2>1, PersistedAgrees DEF SettleFetchFailed, Agrees, CacheAgrees, Kept
    <2>2. CASE c.kind # "setAccount"
        BY <1>1, <1>4, <2>2, InstallAgrees DEF SettleFetchFailed
    <2> QED
        BY <2>1, <2>2
<1>5. CASE SettleSignIn(t, c, a)
    <2>1. PICK k, v : SignedInWith(t, c, [a EXCEPT !.token = k, !.verified = v])
        BY <1>5 DEF SettleSignIn
    <2> QED
        BY <1>1, <1>2, <2>1, SignedInWithAgrees
<1>6. CASE SettleSignInRefused(t, c, a)
    <2>1. accounts' = accounts /\ current' = current
        BY <1>6 DEF SettleSignInRefused, storage
    <2>2. CacheAgrees(t)'
        <3>1. CASE cache' = cache
            BY <2>1, <3>1 DEF Agrees, CacheAgrees
        <3>2. CASE c.aliased /\ cache' = [cache EXCEPT ![t] = [a EXCEPT !.token = NoToken]]
            <4>1. cache'[t] = [a EXCEPT !.token = NoToken]
                BY <3>2 DEF IInv
            <4>2. [a EXCEPT !.token = NoToken].uid = current
                BY <1>1, <1>2, <3>2
            <4> QED
                BY <2>1, <4>1, <4>2 DEF CacheAgrees
        <3> QED
            BY <1>6, <3>1, <3>2 DEF SettleSignInRefused
    <2> QED
        BY <1>1, <2>1, <2>2, SameAgrees DEF Kept
<1>7. CASE SettleResume(t, c, a)
    BY <1>1, <1>2, <1>7, SignedInWithAgrees, RemoveAgrees DEF SettleResume
<1>8. CASE SettleReset(t, c, a)
    <2>1. PICK k : InstallAccount(t, c, [a EXCEPT !.token = k, !.verified = TRUE], c.aliased)
        BY <1>8 DEF SettleReset
    <2> QED
        BY <1>1, <1>2, <2>1, InstallAgrees
<1>9. CASE SettleSignUp(t, c, a) \/ SettleChangePassword(t, c, a)
    <2>1. PICK k, v : SetSignedInAccount(t, c, [a EXCEPT !.token = k, !.verified = v])
        BY <1>9 DEF SettleSignUp, SettleChangePassword
    <2> QED
        BY <1>1, <1>2, <2>1, SetSignedInAgrees
<1>10. CASE SettleSignOut(t, c, a)
    BY <1>1, <1>10, WithoutAgrees, UnloadForgets DEF SettleSignOut, Kept, CacheAgrees
<1>11. CASE SettleDelete(t, c, a) \/ SettleExists(t, c, a)
    BY <1>1, <1>11, RemoveAgrees DEF SettleDelete, SettleExists
<1>12. CASE SettleEndDevice(t, c, a)
    <2>1. CASE IsSignedIn(t, a.uid)
        BY <1>1, <1>12, <2>1, WithoutAgrees, UnloadForgets DEF SettleEndDevice, Kept, CacheAgrees
    <2>2. CASE ~IsSignedIn(t, a.uid)
        BY <1>1, <1>12, <2>2, ForgetsAgrees, UnloadForgets DEF SettleEndDevice, storage
    <2> QED
        BY <2>1, <2>2
<1>13. CASE SettleEndSession(t, c, a)
    <2>1. \/ current' = NoUid /\ Unload(t)
          \/ cache' = [cache EXCEPT ![t] = SignedIn(t)] /\ current' = current
        BY <1>13 DEF SettleEndSession
    <2>2. accounts' = accounts
        BY <1>13 DEF SettleEndSession
    <2>3. CASE current' = NoUid /\ Unload(t)
        BY <1>1, <2>2, <2>3, ForgetsAgrees, UnloadForgets
    <2>4. CASE cache' = [cache EXCEPT ![t] = SignedIn(t)] /\ current' = current
        <3>1. cache'[t] = SignedIn(t)
            BY <2>4 DEF IInv
        <3> QED
            BY <1>1, <2>2, <2>4, <3>1, SameAgrees DEF Kept, CacheAgrees
    <2> QED
        BY <2>1, <2>3, <2>4
<1>14. CASE SettleProfile(t, c, a)
    <2>1. CASE c.sent \in live
        BY <1>1, <1>14, <2>1, StoreAgrees DEF SettleProfile
    <2>2. CASE c.sent \notin live
        <3>1. accounts' = accounts /\ current' = current
            BY <1>14, <2>2 DEF SettleProfile, storage
        <3>2. CacheAgrees(t)'
            <4>1. CASE cache' = cache
                BY <3>1, <4>1 DEF Agrees, CacheAgrees
            <4>2. CASE c.aliased /\ cache' = [cache EXCEPT ![t] = [a EXCEPT !.token = NoToken]]
                <5>1. cache'[t] = [a EXCEPT !.token = NoToken]
                    BY <4>2 DEF IInv
                <5>2. [a EXCEPT !.token = NoToken].uid = current
                    BY <1>1, <1>2, <4>2
                <5> QED
                    BY <3>1, <5>1, <5>2 DEF CacheAgrees
            <4> QED
                BY <1>14, <2>2, <4>1, <4>2 DEF SettleProfile
        <3> QED
            BY <1>1, <3>1, <3>2, SameAgrees DEF Kept
    <2> QED
        BY <2>1, <2>2
<1>15. CASE SettleStatus(t, c, a)
    BY <1>1, <1>2, <1>15, StoreAgrees DEF SettleStatus
<1>16. CASE SettleRecheck(t, c, a)
    <2>1. CASE c.sent \in live
        BY <1>1, <1>2, <1>16, <2>1, StoreAgrees DEF SettleRecheck
    <2>2. CASE c.sent \notin live
        BY <1>1, <1>2, <1>16, <2>2, PersistedAgrees, UnloadForgets DEF SettleRecheck, Kept, CacheAgrees
    <2> QED
        BY <2>1, <2>2
<1>17. CASE SettleFailed(t, c)
    BY <1>1, <1>17, SameAgrees DEF SettleFailed, storage, Agrees, CacheAgrees, Kept
<1>18. CASE SettleRecheckFailed(t, c)
    BY <1>1, <1>18, ForgetsAgrees, UnloadForgets DEF SettleRecheckFailed
<1> QED
    BY <1>3, <1>4, <1>5, <1>6, <1>7, <1>8, <1>9, <1>10, <1>11, <1>12, <1>13, <1>14, <1>15, <1>16, <1>17, <1>18
    DEF Settle, a

LEMMA TabAgrees ==
    ASSUME IInv, NEW t \in Tab, Agrees(t), TabStep(t)
    PROVE  Kept(t)
<1>1. StorageAgrees /\ SignedIn(t).uid = current
    BY SignedInAgrees DEF Agrees
<1>2. CASE Boot(t)
    <2>1. accounts' = accounts /\ current' = current
        BY <1>2 DEF Boot, storage
    <2>2. cache'[t] \in {NoAccount, SignedInData}
        BY <1>2 DEF Boot, IInv
    <2>3. SignedInData.uid = current
        BY <1>1 DEF SignedInData, StorageAgrees, StorageGood, StoredByUid, SignedInAccountIsStored, Default
    <2> QED
        BY <1>1, <2>1, <2>2, <2>3, SameAgrees DEF Kept, CacheAgrees
<1>3. CASE Route(t)
    <2>1. accounts' = accounts
        BY <1>3 DEF Route
    <2>2. \/ current' = current /\ cache' = cache
          \/ ClearSignedInAccount(t)
          \/ \E uid \in AnyUid : SetSignedInAccountByUid(t, uid)
        BY <1>3 DEF Route, AnyUid
    <2>3. CASE current' = current /\ cache' = cache
        BY <1>1, <2>1, <2>3, SameAgrees DEF Kept, Agrees, CacheAgrees
    <2>4. CASE ClearSignedInAccount(t)
        BY <1>1, <2>1, <2>4, ForgetsAgrees DEF ClearSignedInAccount, IInv
    <2> QED
        BY <2>1, <2>2, <2>3, <2>4, ByUidAgrees
<1>4. CASE OpenSettings(t) \/ IgnoreMessage(t)
    BY <1>1, <1>4, SameAgrees DEF OpenSettings, IgnoreMessage, storage, Kept, Agrees, CacheAgrees
<1>5. CASE CheckAuthorization(t)
    <2>1. /\ accounts' \in {accounts, Persisted(SignedIn(t), accounts)} /\ current' = current
          /\ cache'[t] = SignedIn(t)
        BY <1>5 DEF CheckAuthorization, IInv
    <2>2. SignedIn(t).uid \in AnyUid
        BY <1>1 DEF StorageAgrees, StorageGood, AnyUid
    <2> QED
        BY <1>1, <2>1, <2>2, PersistedAgrees, SameAgrees DEF Kept, CacheAgrees
<1>6. CASE CloseTab(t)
    BY <1>1, <1>6, ForgetsAgrees, UnloadForgets DEF CloseTab, storage
<1>7. CASE \E uid \in Uid : StartSignIn(t, uid)
    <2>1. accounts' = accounts /\ current' = current
        BY <1>7 DEF StartSignIn, storage
    <2>2. \/ cache' = cache
          \/ /\ cache[t] # NoAccount
             /\ cache'[t] \in {cache[t], [cache[t] EXCEPT !.token = NoToken]}
        BY <1>7 DEF StartSignIn, IInv
    <2>3. cache[t] # NoAccount => [cache[t] EXCEPT !.token = NoToken].uid = cache[t].uid
        BY DEF IInv, Account
    <2> QED
        BY <1>1, <2>1, <2>2, <2>3, SameAgrees DEF Kept, Agrees, CacheAgrees
<1>8. CASE \E uid \in Uid : StartResume(t, uid) \/ \E kind \in Kinds : StartFresh(t, kind, uid)
    BY <1>1, <1>8, SameAgrees DEF StartResume, StartFresh, storage, Kept, Agrees, CacheAgrees
<1>9. CASE \E kind \in Kinds : StartInSettings(t, kind)
    <2>1. accounts' = accounts /\ current' = current /\ cache'[t] = SignedIn(t)
        BY <1>9 DEF StartInSettings, storage, IInv
    <2> QED
        BY <1>1, <2>1, SameAgrees DEF Kept, CacheAgrees
<1>10. CASE \E c \in calls[t] : Settle(t, c)
    BY <1>10, SettleAgrees
<1>11. CASE UseDifferentAccount(t)
    BY <1>11 DEF UseDifferentAccount, IInv, Kept, StoredByUid, SignedInAccountIsStored, CacheAgrees
<1>12. CASE HandleSignedOut(t)
    BY <1>1, <1>12, ForgetsAgrees, UnloadForgets DEF HandleSignedOut
<1>13. CASE HandleSignedIn(t)
    <2>1. Head(inbox[t]).uid \in AnyUid
        <3>1. inbox[t] \in Seq(Message) /\ inbox[t] # <<>>
            BY <1>13 DEF HandleSignedIn, Received, IInv
        <3>2. Head(inbox[t]) \in Message
            BY <3>1
        <3> QED
            BY <3>2 DEF Message, AnyUid
    <2> QED
        BY <1>13, <2>1, ByUidAgrees DEF HandleSignedIn
<1> QED
    BY <1>2, <1>3, <1>4, <1>5, <1>6, <1>7, <1>8, <1>9, <1>10, <1>11, <1>12, <1>13 DEF TabStep

-----------------------------------------------------------------------------
\* A step of a tab leaves alone what the other ones keep.
OthersSame(t) == \A s \in Tab \ {t} : cache'[s] = cache[s] /\ calls'[s] = calls[s]

LEMMA PiecesAreAlone ==
    ASSUME IInv, NEW t \in Tab
    PROVE  /\ Unload(t) => OthersSame(t)
           /\ \A c, a : StoreAccount(t, c, a) => OthersSame(t)
           /\ \A c, a, same : InstallAccount(t, c, a, same) => OthersSame(t)
           /\ \A c, a : SetSignedInAccount(t, c, a) => OthersSame(t)
           /\ \A c, a : SignedInWith(t, c, a) => OthersSame(t)
           /\ \A c, uid : RemoveAccount(t, c, uid) => OthersSame(t)
           /\ \A uid : SetSignedInAccountByUid(t, uid) => OthersSame(t)
           /\ ClearSignedInAccount(t) => OthersSame(t)
<1>1. Unload(t) => OthersSame(t)
    BY DEF Unload, OthersSame, IInv
<1>2. \A c, a : StoreAccount(t, c, a) => OthersSame(t)
    BY DEF StoreAccount, OthersSame, IInv
<1>3. \A c, a, same : InstallAccount(t, c, a, same) => OthersSame(t)
    BY DEF InstallAccount, OthersSame, IInv
<1>4. \A c, a : SetSignedInAccount(t, c, a) => OthersSame(t)
    BY <1>3 DEF SetSignedInAccount, OthersSame, IInv
<1>5. \A c, a : SignedInWith(t, c, a) => OthersSame(t)
    BY <1>3 DEF SignedInWith, OthersSame, IInv
<1>6. \A c, uid : RemoveAccount(t, c, uid) => OthersSame(t)
    BY DEF RemoveAccount, OthersSame, IInv
<1>7. \A uid : SetSignedInAccountByUid(t, uid) => OthersSame(t)
    BY DEF SetSignedInAccountByUid, OthersSame, IInv
<1>8. ClearSignedInAccount(t) => OthersSame(t)
    BY DEF ClearSignedInAccount, OthersSame, IInv
<1> QED
    BY <1>1, <1>2, <1>3, <1>4, <1>5, <1>6, <1>7, <1>8

LEMMA SettleIsAlone ==
    ASSUME IInv, NEW t \in Tab, NEW c \in calls[t], Settle(t, c)
    PROVE  OthersSame(t)
<1> DEFINE a == Subject(t, c)
<1>1. CASE SettleFetch(t, c, a) \/ SettleFetchFailed(t, c, a)
    BY <1>1, PiecesAreAlone DEF SettleFetch, SettleFetchFailed, OthersSame, IInv
<1>2. CASE SettleSignIn(t, c, a) \/ SettleResume(t, c, a) \/ SettleReset(t, c, a)
    BY <1>2, PiecesAreAlone DEF SettleSignIn, SettleResume, SettleReset
<1>3. CASE SettleSignUp(t, c, a) \/ SettleChangePassword(t, c, a)
    BY <1>3, PiecesAreAlone DEF SettleSignUp, SettleChangePassword
<1>4. CASE SettleSignOut(t, c, a) \/ SettleEndDevice(t, c, a) \/ SettleRecheckFailed(t, c)
    BY <1>4, PiecesAreAlone DEF SettleSignOut, SettleEndDevice, SettleRecheckFailed
<1>5. CASE SettleDelete(t, c, a) \/ SettleExists(t, c, a)
    BY <1>5, PiecesAreAlone DEF SettleDelete, SettleExists
<1>6. CASE SettleEndSession(t, c, a)
    BY <1>6, PiecesAreAlone DEF SettleEndSession, OthersSame, IInv
<1>7. CASE SettleProfile(t, c, a)
    BY <1>7, PiecesAreAlone DEF SettleProfile, OthersSame, IInv
<1>8. CASE SettleStatus(t, c, a) \/ SettleRecheck(t, c, a)
    BY <1>8, PiecesAreAlone DEF SettleStatus, SettleRecheck
<1>9. CASE SettleSignInRefused(t, c, a) \/ SettleFailed(t, c)
    BY <1>9 DEF SettleSignInRefused, SettleFailed, OthersSame, IInv
<1> QED
    BY <1>1, <1>2, <1>3, <1>4, <1>5, <1>6, <1>7, <1>8, <1>9 DEF Settle

LEMMA TabIsAlone ==
    ASSUME IInv, NEW t \in Tab, TabStep(t)
    PROVE  OthersSame(t)
<1>1. CASE Boot(t) \/ OpenSettings(t) \/ CheckAuthorization(t) \/ IgnoreMessage(t) \/ UseDifferentAccount(t)
    BY <1>1 DEF Boot, OpenSettings, CheckAuthorization, IgnoreMessage, UseDifferentAccount, OthersSame, IInv
<1>2. CASE Route(t)
    BY <1>2, PiecesAreAlone DEF Route, OthersSame
<1>3. CASE CloseTab(t) \/ HandleSignedOut(t) \/ HandleSignedIn(t)
    BY <1>3, PiecesAreAlone DEF CloseTab, HandleSignedOut, HandleSignedIn
<1>4. CASE \E uid \in Uid : StartSignIn(t, uid)
    BY <1>4 DEF StartSignIn, Start, OthersSame, IInv
<1>5. CASE \E uid \in Uid : StartResume(t, uid) \/ \E kind \in Kinds : StartFresh(t, kind, uid)
    BY <1>5 DEF StartResume, StartFresh, Start, OthersSame, IInv
<1>6. CASE \E kind \in Kinds : StartInSettings(t, kind)
    BY <1>6 DEF StartInSettings, Start, OthersSame, IInv
<1>7. CASE \E c \in calls[t] : Settle(t, c)
    BY <1>7, SettleIsAlone
<1> QED
    BY <1>1, <1>2, <1>3, <1>4, <1>5, <1>6, <1>7 DEF TabStep

LEMMA ScreenIsAlone ==
    ASSUME IInv, NEW t \in Tab, TabStep(t)
    PROVE  \A s \in Tab \ {t} : screen'[s] = screen[s]
<1> DEFINE Same == \A s \in Tab \ {t} : screen'[s] = screen[s]
<1>1. \A v : screen' = [screen EXCEPT ![t] = v] => Same
    BY DEF IInv
<1>2. screen' = screen => Same
    OBVIOUS
<1>3. Unload(t) => Same
    BY <1>1 DEF Unload
<1>4. \A c, a, same : InstallAccount(t, c, a, same) => Same
    BY <1>1 DEF InstallAccount
<1>5. \A c, a : SetSignedInAccount(t, c, a) \/ SignedInWith(t, c, a) => Same
    BY <1>2, <1>4 DEF SetSignedInAccount, SignedInWith
<1> SUFFICES Same
    OBVIOUS
<1> HIDE DEF Same
<1>6. CASE \E c \in calls[t] : Settle(t, c)
    <2>1. PICK c \in calls[t] : Settle(t, c)
        BY <1>6
    <2> DEFINE a == Subject(t, c)
    <2>2. CASE SettleFetch(t, c, a) \/ SettleFetchFailed(t, c, a)
        BY <2>2, <1>2, <1>4 DEF SettleFetch, SettleFetchFailed
    <2>3. CASE SettleSignIn(t, c, a) \/ SettleResume(t, c, a) \/ SettleReset(t, c, a)
        BY <2>3, <1>2, <1>4, <1>5 DEF SettleSignIn, SettleResume, SettleReset
    <2>4. CASE SettleSignUp(t, c, a) \/ SettleChangePassword(t, c, a)
        BY <2>4, <1>5 DEF SettleSignUp, SettleChangePassword
    <2>5. CASE SettleSignOut(t, c, a) \/ SettleEndDevice(t, c, a) \/ SettleRecheckFailed(t, c)
        BY <2>5, <1>3 DEF SettleSignOut, SettleEndDevice, SettleRecheckFailed
    <2>6. CASE SettleDelete(t, c, a) \/ SettleStatus(t, c, a) \/ SettleFailed(t, c)
        BY <2>6, <1>1 DEF SettleDelete, SettleStatus, SettleFailed
    <2>7. CASE SettleEndSession(t, c, a) \/ SettleRecheck(t, c, a)
        BY <2>7, <1>2, <1>3 DEF SettleEndSession, SettleRecheck
    <2>8. CASE SettleSignInRefused(t, c, a) \/ SettleExists(t, c, a) \/ SettleProfile(t, c, a)
        BY <2>8, <1>2 DEF SettleSignInRefused, SettleExists, SettleProfile
    <2> QED
        BY <2>1, <2>2, <2>3, <2>4, <2>5, <2>6, <2>7, <2>8 DEF Settle
<1>7. CASE Boot(t) \/ Route(t) \/ OpenSettings(t) \/ CheckAuthorization(t)
    BY <1>7, <1>1, <1>2 DEF Boot, Route, OpenSettings, CheckAuthorization
<1>8. CASE \E uid \in Uid :
             \/ StartSignIn(t, uid) \/ StartResume(t, uid)
             \/ \E kind \in Kinds : StartFresh(t, kind, uid)
    BY <1>8, <1>2 DEF StartSignIn, StartResume, StartFresh
<1>9. CASE \E kind \in Kinds : StartInSettings(t, kind)
    BY <1>9, <1>2 DEF StartInSettings
<1>10. CASE CloseTab(t) \/ UseDifferentAccount(t) \/ HandleSignedOut(t) \/ HandleSignedIn(t) \/ IgnoreMessage(t)
    BY <1>10, <1>1, <1>2, <1>3 DEF CloseTab, UseDifferentAccount, HandleSignedOut, HandleSignedIn, IgnoreMessage
<1> QED
    BY <1>6, <1>7, <1>8, <1>9, <1>10 DEF TabStep

-----------------------------------------------------------------------------
(* How tabs and storage come to disagree.                                  *)

Gone == current # NoUid /\ accounts[current] # Default /\ accounts'[current] = Default
Tells(t) == Gone => \A s \in Tab \ {t} : screen[s] # "closed" => Told(s)

LEMMA StoredIsNotGone ==
    ASSUME StorageGood, NEW a, accounts' \in {accounts, Persisted(a, accounts)}
    PROVE  ~Gone
<1>1. a.uid # NoUid => a # Default
    BY DEF Default
<1> QED
    BY <1>1 DEF StorageGood, Persisted, Gone

LEMMA InstallIsNotGone ==
    ASSUME StorageGood, NEW t \in Tab, NEW c, NEW a, NEW same, InstallAccount(t, c, a, same)
    PROVE  ~Gone
BY StoredIsNotGone DEF InstallAccount

LEMMA StoreIsNotGone ==
    ASSUME StorageGood, NEW t \in Tab, NEW c, NEW a, StoreAccount(t, c, a)
    PROVE  ~Gone
BY StoredIsNotGone DEF StoreAccount

LEMMA SetIsNotGone ==
    ASSUME StorageGood, NEW t \in Tab, NEW c, NEW a, SetSignedInAccount(t, c, a) \/ SignedInWith(t, c, a)
    PROVE  ~Gone
BY StoredIsNotGone, InstallIsNotGone DEF SetSignedInAccount, SignedInWith

LEMMA TellTells ==
    ASSUME IInv, NEW t \in Tab, Tell(t, "SIGNED_OUT", current)
    PROVE  Tells(t)
BY DEF Tell, Tells, Told, IInv

\* The account removed is that of the storage, so that the others are told.
LEMMA WithoutTells ==
    ASSUME IInv, NEW t \in Tab, Agrees(t), NEW uid \in AnyUid, accounts' = Without(uid, accounts),
           IsSignedIn(t, uid) => Tell(t, "SIGNED_OUT", uid)
    PROVE  Tells(t)
<1>1. CASE uid # NoUid /\ uid = current
    <2>1. IsSignedIn(t, uid)
        BY <1>1, SignedInAgrees DEF IsSignedIn
    <2> QED
        BY <1>1, <2>1, TellTells
<1>2. CASE uid = NoUid \/ uid # current
    BY <1>2 DEF Tells, Gone, Without, IInv, StorageGood, AnyUid
<1> QED
    BY <1>1, <1>2

LEMMA SettleTells ==
    ASSUME IInv, NEW t \in Tab, Agrees(t), NEW c \in calls[t], Settle(t, c)
    PROVE  Tells(t)
<1> DEFINE a == Subject(t, c)
<1>1. StorageGood /\ a.uid \in AnyUid
    BY SubjectUid DEF IInv
<1>2. ~Gone => Tells(t)
    BY DEF Tells
<1> HIDE DEF a
<1>3. CASE SettleFetch(t, c, a) \/ SettleFetchFailed(t, c, a)
    BY <1>1, <1>2, <1>3, StoredIsNotGone, InstallIsNotGone DEF SettleFetch, SettleFetchFailed
<1>4. CASE SettleSignIn(t, c, a)
    BY <1>1, <1>2, <1>4, SetIsNotGone DEF SettleSignIn
<1>5. CASE SettleSignUp(t, c, a) \/ SettleChangePassword(t, c, a)
    BY <1>1, <1>2, <1>5, SetIsNotGone DEF SettleSignUp, SettleChangePassword
<1>6. CASE SettleReset(t, c, a)
    BY <1>1, <1>2, <1>6, InstallIsNotGone DEF SettleReset
<1>7. CASE SettleProfile(t, c, a) \/ SettleStatus(t, c, a) \/ SettleRecheck(t, c, a)
    BY <1>1, <1>2, <1>7, StoredIsNotGone, StoreIsNotGone DEF SettleProfile, SettleStatus, SettleRecheck, storage
<1>8. CASE \/ SettleSignInRefused(t, c, a) \/ SettleEndSession(t, c, a)
           \/ SettleFailed(t, c) \/ SettleRecheckFailed(t, c)
    <2>1. accounts' = accounts
        BY <1>8 DEF SettleSignInRefused, SettleEndSession, SettleFailed, SettleRecheckFailed, storage
    <2> QED
        BY <1>1, <1>2, <2>1, StoredIsNotGone
<1>9. CASE SettleSignOut(t, c, a)
    BY <1>1, <1>9, WithoutTells DEF SettleSignOut
<1>10. ASSUME RemoveAccount(t, c, a.uid) PROVE Tells(t)
    BY <1>1, <1>10, WithoutTells DEF RemoveAccount
<1>11. CASE SettleResume(t, c, a)
    BY <1>1, <1>2, <1>10, <1>11, SetIsNotGone DEF SettleResume
<1>12. CASE SettleDelete(t, c, a) \/ SettleExists(t, c, a)
    BY <1>10, <1>12 DEF SettleDelete, SettleExists
<1>13. CASE SettleEndDevice(t, c, a)
    <2>1. CASE IsSignedIn(t, a.uid)
        BY <1>1, <1>13, <2>1, WithoutTells DEF SettleEndDevice
    <2>2. CASE ~IsSignedIn(t, a.uid)
        BY <1>1, <1>2, <1>13, <2>2, StoredIsNotGone DEF SettleEndDevice, storage
    <2> QED
        BY <2>1, <2>2
<1> QED
    BY <1>3, <1>4, <1>5, <1>6, <1>7, <1>8, <1>9, <1>11, <1>12, <1>13 DEF Settle, a

LEMMA TabTells ==
    ASSUME IInv, NEW t \in Tab, Agrees(t), TabStep(t)
    PROVE  Tells(t) \/ UseDifferentAccount(t)
<1>1. StorageGood
    BY DEF IInv
<1>2. \A a : accounts' \in {accounts, Persisted(a, accounts)} => Tells(t)
    BY <1>1, StoredIsNotGone DEF Tells
<1>3. CASE Boot(t) \/ Route(t) \/ OpenSettings(t) \/ CheckAuthorization(t) \/ CloseTab(t)
    <2>1. accounts' \in {accounts, Persisted(SignedIn(t), accounts)}
        BY <1>3 DEF Boot, Route, OpenSettings, CheckAuthorization, CloseTab, storage
    <2> QED
        BY <1>2, <2>1
<1>4. CASE \E uid \in Uid :
             \/ StartSignIn(t, uid) \/ StartResume(t, uid)
             \/ \E kind \in Kinds : StartFresh(t, kind, uid)
    <2>1. accounts' = accounts
        BY <1>4 DEF StartSignIn, StartResume, StartFresh, storage
    <2> QED
        BY <1>2, <2>1
<1>5. CASE \E kind \in Kinds : StartInSettings(t, kind)
    BY <1>2, <1>5 DEF StartInSettings, storage
<1>6. CASE \E c \in calls[t] : Settle(t, c)
    BY <1>6, SettleTells
<1>7. CASE HandleSignedOut(t) \/ HandleSignedIn(t) \/ IgnoreMessage(t)
    BY <1>2, <1>7 DEF HandleSignedOut, HandleSignedIn, IgnoreMessage, storage
<1> QED
    BY <1>3, <1>4, <1>5, <1>6, <1>7 DEF TabStep

\* What is in step with the storage.
LEMMA InStep ==
    ASSUME IInv, NEW t \in Tab
    PROVE  ~Dangling /\ ~Stale(t) <=> Agrees(t)
BY DEF IInv, StorageGood, Dangling, Stale, Agrees, StorageAgrees, StoredByUid, SignedInAccountIsStored, CacheAgrees

StepHasACause ==
    /\ \A t \in Tab : ~Stale(t) /\ ~Dangling /\ Stale(t)' => Idle(t)
    /\ ~Dangling /\ Dangling' => \E t \in Tab : Acts(t) /\ Stale(t)
    /\ Gone => \E t \in Tab :
                 /\ Acts(t)
                 /\ \/ Stale(t) \/ UseDifferentAccount(t)
                    \/ \A s \in Tab \ {t} : screen[s] # "closed" => Told(s)

LEMMA StepIsCaused ==
    ASSUME IInv, [Next]_vars
    PROVE  StepHasACause
<1>1. ASSUME NEW t \in Tab, TabStep(t)
      PROVE  StepHasACause
    <2>1. Acts(t)
        BY <1>1, TabIsAlone, ScreenIsAlone DEF OthersSame, Acts, Idle
    <2>2. ASSUME Agrees(t) PROVE ~Stale(t)' /\ ~Dangling'
        <3>1. Kept(t)
            BY <1>1, <2>2, TabAgrees
        <3> QED
            BY <3>1 DEF Kept, Stale, Dangling, CacheAgrees, SignedInAccountIsStored
    <2>3. \A s \in Tab : ~Stale(s) /\ ~Dangling /\ Stale(s)' => Idle(s)
        BY <2>1, <2>2, InStep DEF Acts
    <2>4. ~Dangling /\ Dangling' => Stale(t)
        BY <2>2, InStep
    <2>5. Gone => Stale(t) \/ UseDifferentAccount(t) \/ \A s \in Tab \ {t} : screen[s] # "closed" => Told(s)
        BY <1>1, InStep, TabTells DEF Gone, Dangling, Tells
    <2> QED
        BY <2>1, <2>3, <2>4, <2>5 DEF StepHasACause
<1>2. CASE ServerStep \/ UNCHANGED vars
    <2>1. UNCHANGED <<accounts, current, cache, calls, screen>>
        BY <1>2 DEF ServerStep, Confirm, Revoke, storage, tabs, vars
    <2> QED
        BY <2>1 DEF StepHasACause, Gone, Dangling, Stale, Idle
<1> QED
    BY <1>1, <1>2 DEF Next

\* With any tabs and any calls under way, what a tab believes of the signed in
\* account (user.js:194) and what the storage says come to disagree only by
\* another tab's act; the storage names an account that is gone only by the
\* act of a tab whose copy was stale; and the removal of the signed in account
\* is told unless the own copy is stale or everything is forgotten.
THEOREM DisagreementIsCaused == Spec => DisagreementHasACause
<1> DEFINE A == \A t \in Tab : ~Stale(t) /\ ~Dangling /\ Stale(t)' => Idle(t)
           B == ~Dangling /\ Dangling' => \E t \in Tab : Acts(t) /\ Stale(t)
           C == Gone => \E t \in Tab :
                 /\ Acts(t)
                 /\ \/ Stale(t) \/ UseDifferentAccount(t)
                    \/ \A s \in Tab \ {t} : screen[s] # "closed" => Told(s)
<1>1. IInv /\ [Next]_vars => [A]_vars /\ [B]_vars /\ [C]_vars
    BY StepIsCaused DEF StepHasACause
<1> HIDE DEF A, B, C
<1>2. Spec => [][A]_vars /\ [][B]_vars /\ [][C]_vars
    BY <1>1, InvariantHolds, PTL DEF Spec
<1> USE DEF A, B, C
<1> QED
    BY <1>2 DEF DisagreementHasACause, StaleByOthers, DanglingByStale, RemovalIsTold, Gone, Told

-----------------------------------------------------------------------------
\* A user of one tab: the other ones are never opened.
OthersClosed == \A s \in Tab \ {solo} : screen[s] = "closed" /\ cache[s] = NoAccount /\ calls[s] = {}

OneTabInv ==
    /\ IInv /\ solo \in Tab \cup {"both"}
    /\ solo # "both" => OthersClosed /\ Agrees(solo)

\* A tab that stays closed does nothing but drop messages.
LEMMA ClosedTabIdles ==
    ASSUME NEW s \in Tab, screen[s] = "closed", calls[s] = {}, TabStep(s), screen'[s] = "closed", IInv
    PROVE  UNCHANGED <<accounts, current, cache, calls, screen>>
<1>1. ~Boot(s)
    <2> SUFFICES ASSUME Boot(s) PROVE FALSE
        OBVIOUS
    <2>1. screen'[s] = "starting"
        BY DEF Boot, IInv
    <2> QED
        BY <2>1
<1>2. IgnoreMessage(s)
    BY <1>1 DEF TabStep, Route, OpenSettings, CheckAuthorization, CloseTab, StartSignIn, StartResume, StartFresh,
                StartInSettings, UseDifferentAccount, HandleSignedOut, HandleSignedIn
<1> QED
    BY <1>2 DEF IgnoreMessage, storage

LEMMA OneTabStepOK ==
    ASSUME OneTabInv, [MCNext]_<<vars, solo>>
    PROVE  OneTabInv'
<1>1. [Next]_vars /\ solo' = solo
    BY DEF MCNext
<1>2. IInv'
    BY <1>1, StepGood DEF OneTabInv
<1>3. ASSUME solo # "both" PROVE OthersClosed' /\ Agrees(solo)'
    <2>1. solo \in Tab /\ OthersClosed /\ Agrees(solo) /\ IInv
        BY <1>3 DEF OneTabInv
    <2>2. CASE UNCHANGED <<accounts, current, cache, calls, screen>>
        BY <1>1, <1>2, <2>1, <2>2 DEF OthersClosed, Agrees, StorageAgrees, StoredByUid, SignedInAccountIsStored,
                                      CacheAgrees, IInv
    <2>3. CASE TabStep(solo) /\ OneTabStep
        <3>1. Kept(solo)
            BY <2>1, <2>3, TabAgrees
        <3>2. Agrees(solo)'
            BY <1>1, <1>2, <3>1 DEF Kept, Agrees, StorageAgrees, CacheAgrees, IInv
        <3>3. OthersSame(solo)
            BY <2>1, <2>3, TabIsAlone
        <3>4. OthersClosed'
            BY <1>1, <2>1, <2>3, <3>3 DEF OthersClosed, OneTabStep, OthersSame
        <3> QED
            BY <3>2, <3>4
    <2>4. ASSUME NEW s \in Tab \ {solo}, TabStep(s), OneTabStep
          PROVE  UNCHANGED <<accounts, current, cache, calls, screen>>
        BY <2>1, <2>4, ClosedTabIdles DEF OthersClosed, OneTabStep
    <2>5. ServerStep \/ UNCHANGED vars => UNCHANGED <<accounts, current, cache, calls, screen>>
        BY DEF ServerStep, Confirm, Revoke, storage, tabs, vars
    <2>6. \/ ServerStep \/ UNCHANGED vars
          \/ TabStep(solo) /\ OneTabStep
          \/ \E s \in Tab \ {solo} : TabStep(s) /\ OneTabStep
        BY <1>3, <2>1 DEF MCNext, Next
    <2> QED
        BY <2>2, <2>3, <2>4, <2>5, <2>6
<1> QED
    BY <1>1, <1>2, <1>3 DEF OneTabInv

\* What the one tab a user keeps to believes of the signed in account is what
\* the storage says, and that account is stored, whatever calls overlap
\* (models/user.js:isSignedInAccount, removeAccount).
THEOREM OneTabAgreesAlways == MCSpec => []OneTabAgrees
<1>1. MCInit => OneTabInv
    <2> SUFFICES ASSUME MCInit PROVE OneTabInv
        OBVIOUS
    <2>1. IInv
        BY InitGood DEF MCInit
    <2> QED
        BY <2>1 DEF MCInit, Init, OneTabInv, OthersClosed, Agrees, StorageAgrees, StoredByUid, SignedInAccountIsStored,
                    CacheAgrees, IInv
<1>2. OneTabInv => OneTabAgrees
    BY DEF OneTabInv, OthersClosed, Agrees, StorageAgrees, CacheAgrees, OneTabAgrees, SignedInIsStoredInOneTab,
           CacheAgreesInOneTab, CacheAgreesWithStorage
<1> QED
    BY <1>1, <1>2, OneTabStepOK, PTL DEF MCSpec
=============================================================================
