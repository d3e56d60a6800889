--------------------------- MODULE MCUserAccounts ---------------------------
(***************************************************************************)
(* Small instances of UserAccounts, in one run: a user who keeps to one    *)
(* tab, with every kind of call and two of them under way, and a user of   *)
(* two tabs, with the calls that move the signed in account between them.  *)
(***************************************************************************)
EXTENDS UserAccounts, TLC

VARIABLE solo   \* the only tab that is used, or "both"

EveryKind == AllKinds
SharedKinds == {"signIn", "resume", "signOut"}

Symmetry == Permutations(Uid) \cup Permutations(Token) \cup Permutations(Tab)

OneTabStep == \A t \in Tab \ {solo} : screen'[t] = "closed"

\* One call at a time in each tab, of the kinds that are shared; a tab is
\* loaded while nobody has signed in yet.
TwoTabStep ==
    /\ \A t \in Tab :
          /\ Cardinality(calls'[t]) <= 1
          /\ \A c \in calls'[t] \ calls[t] : c.kind \in CallKinds \cup {"browser"} => c.kind \in SharedKinds
          /\ screen[t] = "closed" /\ screen'[t] # "closed" => \A k \in Token : owner[k] = NoUid
    /\ calls' = calls => UNCHANGED server

MCInit ==
    /\ Init
    /\ solo \in Tab \cup {"both"}
    /\ solo = "both" => registered = Uid

MCNext ==
    /\ Next
    /\ solo' = solo
    /\ IF solo = "both" THEN TwoTabStep ELSE OneTabStep

MCSpec == MCInit /\ [][MCNext]_<<vars, solo>>

\* With one tab, the uid in `currentAccountUid' names a stored account, the
\* "signed in account" that removeAccount says it keeps track of.
SignedInIsStoredInOneTab == solo # "both" => SignedInAccountIsStored

\* With one tab, the cached signed in account is the one the storage names.
CacheAgreesInOneTab == solo # "both" => CacheAgreesWithStorage

\* What a tab believes of the signed in account (user.js:194) and what the
\* storage says is the same, as long as there is one tab.
OneTabAgrees == SignedInIsStoredInOneTab /\ CacheAgreesInOneTab

=============================================================================
