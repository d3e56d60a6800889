------------------------------ MODULE Pairing ------------------------------
(***************************************************************************)
(* The pairing of a phone with an account: the phone's page, the desktop   *)
(* page, and between them the desktop browser and the channel server, both *)
(* external, as docs/pairing-architecture.md describes them and the two    *)
(* pages use them. The channel keeps the order of messages.                *)
(***************************************************************************)
EXTENDS PairingAuthority

pairingVars == <<suppVars, channelVars, authVars, browserVars>>

Init ==
    /\ SuppInit
    /\ ChannelInit
    /\ AuthInit
    /\ heard = FALSE
    /\ issued = FALSE

-----------------------------------------------------------------------------
\* The desktop browser.

Hear(message) ==
    /\ toAuth # <<>> /\ Head(toAuth) = message
    /\ toAuth' = Tail(toAuth)

\* It answers the phone's request with the account's metadata and opens the page.
BrowserHearsRequest ==
    /\ Hear("request")
    /\ toSupp' = IF socket = "open" THEN Append(toSupp, "metadata") ELSE toSupp
    /\ desk' = IF desk = "closed" THEN "loading" ELSE desk
    /\ UNCHANGED <<suppVars, socket, auth, beating, beats, allowing, ending,
                   authConsent, browserVars>>

BrowserHearsConsent ==
    /\ Hear("consent")
    /\ heard' = TRUE
    /\ UNCHANGED <<suppVars, socket, toSupp, authVars, issued>>

\* PAIR_AUTHORIZE: it gets a code from the server and sends it to the phone.
BrowserAuthorizes ==
    /\ allowing = "asked" /\ socket = "open"
    /\ allowing' = "granted"
    /\ issued' = TRUE
    /\ \E message \in {"code"} \cup ({"badCode"} \cap Failures) :
           toSupp' = Append(toSupp, message)
    /\ UNCHANGED <<suppVars, socket, toAuth, auth, desk, beating, beats,
                   ending, authConsent, heard>>

\* The channel closes when the browser was told that the pairing is over,
\* or at any time when it fails. What was sent before is delivered first,
\* unless the channel fails.
ChannelCloses ==
    /\ \/ ending /\ toSupp = <<>>
       \/ "close" \in Failures
    /\ SocketClosed
    /\ UNCHANGED <<authVars, browserVars>>

BrowserNext ==
    \/ BrowserHearsRequest
    \/ BrowserHearsConsent
    \/ BrowserAuthorizes

Next ==
    \/ SuppNext /\ UNCHANGED <<authVars, browserVars>>
    \/ AuthNext
    \/ BrowserNext
    \/ ChannelCloses

Spec == Init /\ [][Next]_pairingVars

\* Promises settle, messages arrive and the timer fires; users owe nothing.
Fairness ==
    /\ WF_pairingVars(Connected /\ UNCHANGED <<authVars, browserVars>>)
    /\ WF_pairingVars((ReceiveMetadata \/ ReceiveCode \/ ReceiveBadCode)
                      /\ UNCHANGED <<authVars, browserVars>>)
    /\ \A settle \in Job :
           WF_pairingVars(SuppSettle /\ jobs'[settle] < jobs[settle]
                          /\ UNCHANGED <<authVars, browserVars>>)
    /\ WF_pairingVars(Fetched)
    /\ WF_pairingVars(Heartbeat)
    /\ WF_pairingVars(HeartbeatAnswered \/ HeartbeatFailed)
    /\ WF_pairingVars(Allowed)
    /\ WF_pairingVars(BrowserNext)

FairSpec == Spec /\ Fairness

-----------------------------------------------------------------------------
TypeOK ==
    /\ supp \in SuppState /\ page \in Page
    /\ jobs \in [Job -> Nat]
    /\ hasCode \in BOOLEAN /\ suppConsent \in BOOLEAN
    /\ socket \in {"connecting", "open", "closed"}
    /\ toSupp \in Seq({"metadata", "code", "badCode"})
    /\ toAuth \in Seq({"request", "consent"})
    /\ auth \in AuthState /\ desk \in Desk
    /\ beating \in BOOLEAN /\ beats \in 0..MaxBeats
    /\ allowing \in {"idle", "asked", "granted"}
    /\ ending \in BOOLEAN /\ authConsent \in BOOLEAN
    /\ heard \in BOOLEAN /\ issued \in BOOLEAN

\* The page leaves for the relier with a code that passed validation, only
\* after the users of both devices have accepted, in whatever order the
\* promises of the two machines settle (sendCodeToRelier).
CodeNeedsBothUsers ==
    page = "relier" => hasCode /\ issued /\ suppConsent /\ authConsent

\* The desktop says that the pairing is complete only after both users have
\* accepted and the browser has sent the code.
CompleteNeedsBothUsers ==
    desk = "complete" => suppConsent /\ authConsent /\ issued

\* PairAuthFailure is final: no late answer of the browser, and no state the
\* machine has left, takes the desktop's machine out of it.
FailureIsFinal == [][auth = "PairAuthFailure" => auth' = "PairAuthFailure"]_auth

\* The two pages together keep the promise of PairingConsent, where complete
\* is the state PairAuthComplete of the desktop's machine; a heartbeat that
\* fails afterwards takes it back.
Consent == INSTANCE PairingConsent WITH
    phone <- suppConsent,
    desktop <- authConsent,
    code <- IF page = "relier" THEN "delivered" ELSE IF issued THEN "issued" ELSE "none",
    complete <- auth = "PairAuthComplete"

KeepsConsent == Consent!Spec

\* The order in which the users may not accept: the code came while the
\* acceptance was being sent, so that WaitForAuthorizations took it
\* (supplicant-state-machine.js:84). The machine then waits for a code it has,
\* or for an acceptance whose button is gone, whichever promise settles last.
CodeTakenWhileAccepting ==
    /\ page = "wait" /\ hasCode
    /\ supp \in {"WaitForAuthorityAuthorize", "WaitForSupplicantAuthorize"}

\* A phone whose user has accepted and that has the code, or to which a code is
\* on its way, gets the code to the relier or shows a failure. Of the orders in
\* which the users accept, which docs/pairing-architecture.md:78 says are all
\* one, this is so of all but CodeTakenWhileAccepting, where it may wait for
\* ever. A code that is refused ends nothing and is not one.
PhoneFinishes ==
    (suppConsent /\ (hasCode \/ \E i \in DOMAIN toSupp : toSupp[i] = "code"))
        ~> (page \in {"relier", "failure"} \/ CodeTakenWhileAccepting)

\* A desktop that waits for the phone learns from a heartbeat that the phone
\* has accepted.
WaitingDesktopLearns ==
    (auth = "WaitForSupplicantAuthorize" /\ heard)
        ~> (auth \in {"PairAuthComplete", "PairAuthFailure"})

\* What the other user has done reaches either page, or a failure is shown,
\* but for the phone in CodeTakenWhileAccepting.
EveryoneLearns == PhoneFinishes /\ WaitingDesktopLearns

=============================================================================
