--------------------------- MODULE Channels_proofs ---------------------------
(***************************************************************************)
(* Proofs about the ways a page talks to others: Pairing, between a phone  *)
(* and a desktop, DuplexChannel, to the browser it runs in, and            *)
(* SignUpConfirmation, what that browser is told of who signs up.          *)
(*                                                                         *)
(* Pairing, for any bounds and any set of failures: neither                *)
(* CodeNeedsBothUsers nor CompleteNeedsBothUsers is inductive, as the      *)
(* consent of a user travels through a promise, a message, a state of a    *)
(* machine and a heartbeat before it lets a screen change. IInv says of    *)
(* each of these places whose consent it stands for.                       *)
(*                                                                         *)
(* DuplexChannel, for any channels, commands, clock and number of requests:*)
(* a promise of a WebChannel is settled with the answer to its own request *)
(* and a request is waited for exactly as long as its promise is pending.  *)
(* The inductive invariant says that the suffix counts the requests, so    *)
(* that no two of them have the same id, and that whatever carries an id,  *)
(* an entry or a reply, carries that of its request.                       *)
(*                                                                         *)
(* SignUpConfirmation, for any number of sign-ups in one window and any    *)
(* failures: that the browser hears of a login once is not inductive, as   *)
(* the broker remembers one uid only, and forgets it when the page is      *)
(* reloaded.  What prevents a second notice is that only two things can    *)
(* lead to one, the choice and the submit that is under way, and that      *)
(* neither is there for an account whose login was sent; the screen that   *)
(* waits finds the uid remembered, or has lost the keys.                   *)
(***************************************************************************)
EXTENDS Pairing, DuplexChannel, SignUpConfirmation, TLAPS

\* Where the consent of the phone's user may be.
PhoneTrail ==
    /\ jobs["consentToWait"] > 0 => suppConsent
    /\ jobs["consentToRelier"] > 0 => suppConsent
    /\ supp = "WaitForAuthorityAuthorize" => suppConsent
    /\ jobs["codeToRelier"] > 0 => suppConsent
    /\ \A i \in 1..Len(toAuth) : toAuth[i] = "consent" => suppConsent
    /\ heard => suppConsent
    /\ auth = "WaitForAuthorityAuthorize" => suppConsent

\* Where the consent of the desktop's user, and then the code, may be.
CodeTrail ==
    /\ allowing # "idle" => authConsent
    /\ issued => authConsent
    /\ allowing = "granted" => issued
    /\ auth = "WaitForSupplicantAuthorize" => issued
    /\ \A i \in 1..Len(toSupp) : toSupp[i] # "metadata" => issued
    /\ jobs["codeToWait"] > 0 => issued
    /\ jobs["codeToRelier"] > 0 => issued
    /\ hasCode => issued
    /\ supp = "WaitForSupplicantAuthorize" => hasCode
    /\ jobs["consentToRelier"] > 0 => hasCode

\* Where both are needed.
BothTrail ==
    /\ jobs["handOver"] > 0 => hasCode /\ suppConsent
    /\ jobs["redirect"] > 0 => hasCode /\ suppConsent
    /\ page = "relier" => hasCode /\ suppConsent
    /\ auth = "PairAuthComplete" => suppConsent /\ issued
    /\ desk = "complete" => suppConsent /\ issued

IInv == TypeOK /\ PhoneTrail /\ CodeTrail /\ BothTrail

LEMMA Initially == Init => IInv
<1> SUFFICES ASSUME Init PROVE IInv
    OBVIOUS
<1>1. TypeOK
    <2>1. beats \in 0..MaxBeats /\ jobs \in [Job -> Nat]
        BY MaxBeatsAssumption DEF Init, SuppInit, AuthInit
    <2>2. toSupp \in Seq({"metadata", "code", "badCode"}) /\ toAuth \in Seq({"request", "consent"})
        BY DEF Init, ChannelInit
    <2> QED
        BY <2>1, <2>2 DEF Init, SuppInit, ChannelInit, AuthInit, TypeOK, SuppState, Page, AuthState, Desk
<1>2. PhoneTrail /\ CodeTrail /\ BothTrail
    BY DEF Init, SuppInit, ChannelInit, AuthInit, PhoneTrail, CodeTrail, BothTrail, Job
<1> QED
    BY <1>1, <1>2 DEF IInv

-----------------------------------------------------------------------------
USE DEF IInv, suppVars, channelVars, authVars, browserVars

\* Steps of the phone's machine that only it and the channel can see.
LEMMA PhoneConnects ==
    ASSUME IInv, UNCHANGED <<authVars, browserVars>>,
           Connected \/ ConnectFails \/ SocketError \/ CancelOnPhone
    PROVE  IInv'
<1>1. CASE Connected
    BY <1>1 DEF Connected, GotoState, ScreenOf, Begin, Running, TypeOK, PhoneTrail, CodeTrail,
                BothTrail, SuppState, Page, Job
<1>2. CASE ConnectFails
    BY <1>2 DEF ConnectFails, Fail, Running, TypeOK, PhoneTrail, CodeTrail, BothTrail, Page
<1>3. CASE SocketError
    BY <1>3 DEF SocketError, Fail, Running, TypeOK, PhoneTrail, CodeTrail, BothTrail, Page
<1>4. CASE CancelOnPhone
    BY <1>4 DEF CancelOnPhone, TypeOK, PhoneTrail, CodeTrail, BothTrail, Page
<1> QED
    BY <1>1, <1>2, <1>3, <1>4

\* What is left of the messages for the phone after it has read one.
LEMMA Reading ==
    ASSUME TypeOK, CodeTrail, NEW m, Receive(m)
    PROVE  /\ toSupp' \in Seq({"metadata", "code", "badCode"})
           /\ \A i \in 1..Len(toSupp') : toSupp'[i] # "metadata" => issued
           /\ m # "metadata" => issued
BY DEF Receive, TypeOK, CodeTrail

LEMMA PhoneReads ==
    ASSUME IInv, UNCHANGED <<authVars, browserVars>>,
           ReceiveMetadata \/ ReceiveCode \/ ReceiveBadCode
    PROVE  IInv'
<1>1. CASE ReceiveMetadata
    BY <1>1, Reading DEF ReceiveMetadata, GotoState, ScreenOf, TypeOK, PhoneTrail, CodeTrail,
                BothTrail, SuppState, Page, Receive, Running
<1>2. CASE ReceiveCode
    <2>1. issued /\ toSupp' \in Seq({"metadata", "code", "badCode"})
          /\ \A i \in 1..Len(toSupp') : toSupp'[i] # "metadata" => issued
        BY <1>2, Reading DEF ReceiveCode
    <2>2. jobs' \in [Job -> Nat]
          /\ (jobs'["codeToRelier"] > 0 => suppConsent)
          /\ \A j \in Job : j \notin {"codeToWait", "codeToRelier"} => jobs'[j] = jobs[j]
        BY <1>2 DEF ReceiveCode, Begin, TypeOK, PhoneTrail, Job
    <2> QED
        BY <1>2, <2>1, <2>2 DEF ReceiveCode, TypeOK, PhoneTrail, CodeTrail, BothTrail, Job
<1>3. CASE ReceiveBadCode
    BY <1>3, Reading DEF ReceiveBadCode, TypeOK, PhoneTrail, CodeTrail, BothTrail
<1> QED
    BY <1>1, <1>2, <1>3

LEMMA PhoneApproves ==
    ASSUME IInv, UNCHANGED <<authVars, browserVars>>, Approve
    PROVE  IInv'
<1>1. /\ jobs' \in [Job -> Nat]
      /\ jobs'["consentToRelier"] > jobs["consentToRelier"] => hasCode
      /\ \A j \in Job : j \notin {"consentToWait", "consentToRelier"} => jobs'[j] = jobs[j]
    <2>1. jobs \in [Job -> Nat]
        BY DEF TypeOK
    <2>2. CASE Begin("consentToWait")
        BY <2>1, <2>2 DEF Begin, Job
    <2>3. CASE Begin("consentToRelier") /\ hasCode
        BY <2>1, <2>3 DEF Begin, Job
    <2>4. CASE jobs' = jobs
        BY <2>1, <2>4 DEF Job
    <2> QED
        BY <2>2, <2>3, <2>4 DEF Approve, CodeTrail
<1>2. suppConsent' = TRUE /\ UNCHANGED <<supp, page, hasCode, channelVars>>
    BY DEF Approve
<1> QED
    BY <1>1, <1>2 DEF TypeOK, PhoneTrail, CodeTrail, BothTrail, Job

\* A message sent to the browser.
LEMMA Sending ==
    ASSUME TypeOK, PhoneTrail, NEW m \in {"request", "consent"}, Transmit(m),
           m = "consent" => suppConsent
    PROVE  /\ toAuth' \in Seq({"request", "consent"})
           /\ \A i \in 1..Len(toAuth') : toAuth'[i] = "consent" => suppConsent
BY DEF Transmit, TypeOK, PhoneTrail

LEMMA PhoneSends ==
    ASSUME IInv, UNCHANGED <<authVars, browserVars>>,
           RequestSent \/ ConsentSentToWait \/ ConsentSentToRelier \/ SendRejected
    PROVE  IInv'
<1>1. CASE RequestSent
    <2>1. /\ toAuth' \in Seq({"request", "consent"})
          /\ \A i \in 1..Len(toAuth') : toAuth'[i] = "consent" => suppConsent
        BY <1>1, Sending DEF RequestSent
    <2> QED
        BY <1>1, <2>1 DEF RequestSent, End, TypeOK, PhoneTrail, CodeTrail, BothTrail, SuppState, Job
<1>2. CASE ConsentSentToWait
    <2>1. /\ toAuth' \in Seq({"request", "consent"})
          /\ \A i \in 1..Len(toAuth') : toAuth'[i] = "consent" => suppConsent
        BY <1>2, Sending DEF ConsentSentToWait, PhoneTrail
    <2> QED
        BY <1>2, <2>1 DEF ConsentSentToWait, End, GotoState, ScreenOf, Running, TypeOK,
                          PhoneTrail, CodeTrail, BothTrail, SuppState, Page, Job
<1>3. CASE ConsentSentToRelier
    <2>1. /\ toAuth' \in Seq({"request", "consent"})
          /\ \A i \in 1..Len(toAuth') : toAuth'[i] = "consent" => suppConsent
        BY <1>3, Sending DEF ConsentSentToRelier, PhoneTrail
    <2>2. hasCode /\ suppConsent
        BY <1>3 DEF ConsentSentToRelier, PhoneTrail, CodeTrail
    <2>3. jobs' \in [Job -> Nat]
          /\ \A j \in Job : j # "handOver" /\ jobs'[j] > 0 => jobs[j] > 0
        BY <1>3 DEF ConsentSentToRelier, SendResult, EndAndBegin, TypeOK, Job
    <2>4. supp' = "SendResultToRelier" /\ page' = page
          /\ UNCHANGED <<hasCode, suppConsent, socket, toSupp>>
        BY <1>3 DEF ConsentSentToRelier, SendResult, GotoState, ScreenOf
    <2> QED
        BY <2>1, <2>2, <2>3, <2>4 DEF TypeOK, PhoneTrail, CodeTrail, BothTrail, SuppState, Job
<1>4. CASE SendRejected
    <2>1. PICK j \in Sends : jobs[j] > 0 /\ End(j)
        BY <1>4 DEF SendRejected
    <2>2. jobs' \in [Job -> Nat] /\ \A k \in Job : jobs'[k] > 0 => jobs[k] > 0
        BY <2>1 DEF End, TypeOK, Sends, Job
    <2> QED
        BY <1>4, <2>2 DEF SendRejected, TypeOK, PhoneTrail, CodeTrail, BothTrail, Job
<1> QED
    BY <1>1, <1>2, <1>3, <1>4

LEMMA PhoneFinishesStep ==
    ASSUME IInv, UNCHANGED <<authVars, browserVars>>,
           CodeValidToWait \/ CodeValidToRelier \/ HandedOver \/ Redirected
    PROVE  IInv'
<1>1. CASE CodeValidToWait
    BY <1>1 DEF CodeValidToWait, End, GotoState, ScreenOf, TypeOK, PhoneTrail, CodeTrail,
                BothTrail, SuppState, Page, Job
<1>2. CASE CodeValidToRelier
    <2>1. suppConsent /\ issued
        BY <1>2 DEF CodeValidToRelier, PhoneTrail, CodeTrail
    <2>2. jobs' \in [Job -> Nat] /\ \A j \in Job : j # "handOver" /\ jobs'[j] > 0 => jobs[j] > 0
        BY <1>2 DEF CodeValidToRelier, SendResult, EndAndBegin, TypeOK, Job
    <2>3. /\ supp' = "SendResultToRelier" /\ page' = page /\ hasCode' = TRUE
          /\ UNCHANGED <<suppConsent, channelVars>>
        BY <1>2 DEF CodeValidToRelier, SendResult, GotoState, ScreenOf
    <2>4. TypeOK'
        BY <2>2, <2>3 DEF TypeOK, SuppState
    <2>5. PhoneTrail'
        BY <2>1, <2>3 DEF PhoneTrail
    <2>6. CodeTrail'
        BY <2>1, <2>2, <2>3 DEF CodeTrail, Job
    <2>7. BothTrail'
        BY <2>1, <2>2, <2>3 DEF BothTrail, Job
    <2> QED
        BY <2>4, <2>5, <2>6, <2>7
<1>3. CASE HandedOver
    <2>1. hasCode /\ suppConsent /\ issued
        BY <1>3 DEF HandedOver, BothTrail, CodeTrail
    <2>2. jobs' \in [Job -> Nat] /\ \A j \in Job : j # "redirect" /\ jobs'[j] > 0 => jobs[j] > 0
        BY <1>3 DEF HandedOver, EndAndBegin, TypeOK, Job
    <2>3. supp' = "State" /\ page' = page /\ UNCHANGED <<hasCode, suppConsent, channelVars>>
        BY <1>3 DEF HandedOver, GotoState, ScreenOf
    <2> QED
        BY <2>1, <2>2, <2>3 DEF TypeOK, PhoneTrail, CodeTrail, BothTrail, SuppState, Job
<1>4. CASE Redirected
    BY <1>4 DEF Redirected, End, TypeOK, PhoneTrail, CodeTrail, BothTrail, Page, Job
<1> QED
    BY <1>1, <1>2, <1>3, <1>4

-----------------------------------------------------------------------------
\* Steps of the desktop page, for which the phone and the channel stand still.
LEMMA Notified ==
    ASSUME IInv, UNCHANGED <<authConsent, browserVars, suppVars, channelVars>>,
           \/ heard /\ NotifySuppAuthorize
           \/ issued /\ NotifyAuthAuthorize
           \/ GotoAuth("PairAuthFailure")
           \/ UNCHANGED <<auth, desk, ending>>
    PROVE  /\ auth' \in AuthState /\ desk' \in Desk /\ ending' \in BOOLEAN
           /\ auth' = "WaitForAuthorityAuthorize" => suppConsent
           /\ auth' = "WaitForSupplicantAuthorize" => issued
           /\ auth' = "PairAuthComplete" => suppConsent /\ issued
           /\ desk' = "complete" => suppConsent /\ issued
BY DEF NotifySuppAuthorize, NotifyAuthAuthorize, GotoAuth, TypeOK, PhoneTrail, CodeTrail, BothTrail,
       AuthState, Desk

LEMMA DesktopBeats ==
    ASSUME IInv, Fetched \/ Heartbeat \/ HeartbeatFailed \/ HeartbeatAnswered
    PROVE  IInv'
<1>1. CASE Fetched
    BY <1>1 DEF Fetched, TypeOK, PhoneTrail, CodeTrail, BothTrail, Desk
<1>2. CASE Heartbeat
    BY <1>2, MaxBeatsAssumption DEF Heartbeat, TypeOK, PhoneTrail, CodeTrail, BothTrail
<1>3. CASE HeartbeatFailed
    BY <1>3, Notified, MaxBeatsAssumption DEF HeartbeatFailed, TypeOK, PhoneTrail, CodeTrail, BothTrail
<1>4. CASE HeartbeatAnswered
    BY <1>4, Notified, MaxBeatsAssumption DEF HeartbeatAnswered, TypeOK, PhoneTrail, CodeTrail, BothTrail
<1> QED
    BY <1>1, <1>2, <1>3, <1>4

LEMMA DesktopDecides ==
    ASSUME IInv, Allow \/ Allowed \/ AllowRefused \/ CancelOnDesktop
    PROVE  IInv'
<1>1. CASE Allow
    BY <1>1 DEF Allow, TypeOK, PhoneTrail, CodeTrail, BothTrail
<1>2. CASE Allowed
    BY <1>2, Notified DEF Allowed, TypeOK, PhoneTrail, CodeTrail, BothTrail
<1>3. CASE AllowRefused
    BY <1>3 DEF AllowRefused, TypeOK, PhoneTrail, CodeTrail, BothTrail
<1>4. CASE CancelOnDesktop
    BY <1>4 DEF CancelOnDesktop, TypeOK, PhoneTrail, CodeTrail, BothTrail, Desk
<1> QED
    BY <1>1, <1>2, <1>3, <1>4

-----------------------------------------------------------------------------
\* Steps of the browser and of the channel.
LEMMA Hearing ==
    ASSUME TypeOK, PhoneTrail, NEW m, Hear(m)
    PROVE  /\ toAuth' \in Seq({"request", "consent"})
           /\ \A i \in 1..Len(toAuth') : toAuth'[i] = "consent" => suppConsent
           /\ m = "consent" => suppConsent
BY DEF Hear, TypeOK, PhoneTrail

LEMMA BrowserActs ==
    ASSUME IInv, BrowserHearsRequest \/ BrowserHearsConsent \/ BrowserAuthorizes \/ ChannelCloses
    PROVE  IInv'
<1>1. CASE BrowserHearsRequest
    <2>1. /\ toSupp' \in Seq({"metadata", "code", "badCode"})
          /\ \A i \in 1..Len(toSupp') : toSupp'[i] # "metadata" => issued
        BY <1>1 DEF BrowserHearsRequest, TypeOK, CodeTrail
    <2> QED
        BY <1>1, <2>1, Hearing DEF BrowserHearsRequest, TypeOK, PhoneTrail, CodeTrail, BothTrail, Desk
<1>2. CASE BrowserHearsConsent
    BY <1>2, Hearing DEF BrowserHearsConsent, TypeOK, PhoneTrail, CodeTrail, BothTrail
<1>3. CASE BrowserAuthorizes
    <2>1. toSupp' \in Seq({"metadata", "code", "badCode"})
        BY <1>3 DEF BrowserAuthorizes, TypeOK
    <2> QED
        BY <1>3, <2>1 DEF BrowserAuthorizes, TypeOK, PhoneTrail, CodeTrail, BothTrail
<1>4. CASE ChannelCloses
    BY <1>4 DEF ChannelCloses, SocketClosed, Running, TypeOK, PhoneTrail, CodeTrail, BothTrail, Page
<1> QED
    BY <1>1, <1>2, <1>3, <1>4

LEMMA Keeps == IInv /\ [Next]_pairingVars => IInv'
<1> SUFFICES ASSUME IInv, [Next]_pairingVars PROVE IInv'
    OBVIOUS
<1>1. CASE SuppNext /\ UNCHANGED <<authVars, browserVars>>
    BY <1>1, PhoneConnects, PhoneReads, PhoneApproves, PhoneSends, PhoneFinishesStep
    DEF SuppNext, SuppSettle
<1>2. CASE AuthNext
    BY <1>2, DesktopBeats, DesktopDecides DEF AuthNext
<1>3. CASE BrowserNext \/ ChannelCloses
    BY <1>3, BrowserActs DEF BrowserNext
<1>4. CASE UNCHANGED pairingVars
    BY <1>4 DEF pairingVars, TypeOK, PhoneTrail, CodeTrail, BothTrail
<1> QED
    BY <1>1, <1>2, <1>3, <1>4 DEF Next

LEMMA Inductive == Spec => []IInv
<1>1. Init => IInv
    BY Initially
<1>2. IInv /\ [Next]_pairingVars => IInv'
    BY Keeps
<1> QED
    BY <1>1, <1>2, PTL DEF Spec

-----------------------------------------------------------------------------
\* The variables of the two pages, the channel and the browser have their types.
THEOREM PairingTypes == Spec => []TypeOK
<1>1. IInv => TypeOK
    OBVIOUS
<1> QED
    BY <1>1, Inductive, PTL

\* A code leaves the phone only after both users have accepted.
THEOREM CodeIsAccepted == Spec => []CodeNeedsBothUsers
<1>1. IInv => CodeNeedsBothUsers
    BY DEF CodeNeedsBothUsers, CodeTrail, BothTrail
<1> QED
    BY <1>1, Inductive, PTL

\* The desktop reports success only after both users have accepted.
THEOREM CompleteIsAccepted == Spec => []CompleteNeedsBothUsers
<1>1. IInv => CompleteNeedsBothUsers
    BY DEF CompleteNeedsBothUsers, CodeTrail, BothTrail
<1> QED
    BY <1>1, Inductive, PTL

\* The desktop's machine never leaves PairAuthFailure.
THEOREM FailureStays == Spec => FailureIsFinal
<1>1. [Next]_pairingVars => [auth = "PairAuthFailure" => auth' = "PairAuthFailure"]_auth
    BY DEF Next, SuppNext, AuthNext, BrowserNext, ChannelCloses, SocketClosed, BrowserHearsRequest,
           BrowserHearsConsent, BrowserAuthorizes, Fetched, Heartbeat, HeartbeatFailed,
           HeartbeatAnswered, Allow, Allowed, AllowRefused, CancelOnDesktop, NotifySuppAuthorize,
           NotifyAuthAuthorize, GotoAuth, pairingVars
<1> QED
    BY <1>1, PTL DEF Spec, FailureIsFinal

-----------------------------------------------------------------------------
\* Each step of the two pages is a step of PairingConsent, or none.
LEMMA PhoneImplements ==
    ASSUME IInv, SuppNext, UNCHANGED <<authVars, browserVars>>
    PROVE  [Consent!Next]_(Consent!vars)
<1>1. CASE Approve
    BY <1>1 DEF Approve, Consent!Next, Consent!PhoneAccepts, Consent!vars
<1>2. CASE Redirected
    <2>1. suppConsent /\ issued /\ page # "relier" /\ page' = "relier"
          /\ UNCHANGED <<suppConsent, authConsent, issued, auth>>
        BY <1>2 DEF Redirected, Running, TypeOK, CodeTrail, BothTrail, Job
    <2> QED
        BY <2>1 DEF Consent!Next, Consent!Deliver, Consent!vars
<1>3. CASE SuppNext /\ ~Approve /\ ~Redirected
    <2>1. UNCHANGED <<suppConsent, authConsent, issued, auth>>
          /\ (page = "relier" <=> page' = "relier")
        BY <1>3 DEF SuppNext, SuppSettle, Connected, ConnectFails, SocketError, ReceiveMetadata,
                    ReceiveCode, ReceiveBadCode, Receive, CancelOnPhone, SendRejected, RequestSent,
                    ConsentSentToWait, ConsentSentToRelier, CodeValidToWait, CodeValidToRelier,
                    HandedOver, SendResult, GotoState, ScreenOf, Fail, Running
    <2> QED
        BY <2>1 DEF Consent!vars
<1> QED
    BY <1>1, <1>2, <1>3

LEMMA DesktopImplements ==
    ASSUME IInv, AuthNext
    PROVE  [Consent!Next]_(Consent!vars)
<1>1. CASE Allow
    BY <1>1 DEF Allow, Consent!Next, Consent!DesktopAccepts, Consent!vars
<1>2. CASE HeartbeatFailed \/ HeartbeatAnswered \/ Allowed
    <2>1. UNCHANGED <<suppConsent, authConsent, issued, page>>
        BY <1>2 DEF HeartbeatFailed, HeartbeatAnswered, Allowed
    <2>2. auth' = "PairAuthComplete" => suppConsent /\ issued
        BY <1>2, Notified DEF HeartbeatFailed, HeartbeatAnswered, Allowed, CodeTrail, BothTrail
    <2> QED
        BY <2>1, <2>2 DEF Consent!Next, Consent!Complete, Consent!FailAfterAll, Consent!vars
<1>3. CASE Fetched \/ Heartbeat \/ AllowRefused \/ CancelOnDesktop
    BY <1>3 DEF Fetched, Heartbeat, AllowRefused, CancelOnDesktop, Consent!vars
<1> QED
    BY <1>1, <1>2, <1>3 DEF AuthNext

LEMMA BrowserImplements ==
    ASSUME IInv, BrowserNext \/ ChannelCloses
    PROVE  [Consent!Next]_(Consent!vars)
<1>1. CASE BrowserAuthorizes
    <2>1. issued' /\ authConsent /\ UNCHANGED <<suppConsent, authConsent, page, auth>>
          /\ (page = "relier" => issued)
        BY <1>1 DEF BrowserAuthorizes, CodeTrail, BothTrail
    <2> QED
        BY <2>1 DEF Consent!Next, Consent!Issue, Consent!vars
<1>2. CASE BrowserHearsRequest \/ BrowserHearsConsent \/ ChannelCloses
    <2>1. UNCHANGED <<suppConsent, authConsent, issued, auth>>
          /\ (page = "relier" <=> page' = "relier")
        BY <1>2 DEF BrowserHearsRequest, BrowserHearsConsent, ChannelCloses, SocketClosed, Running
    <2> QED
        BY <2>1 DEF Consent!vars
<1> QED
    BY <1>1, <1>2 DEF BrowserNext

\* Pairing implements PairingConsent: whatever the order in which promises
\* settle and messages arrive, a pairing behaves as if the two consents, the
\* code and its delivery were single steps taken in an allowed order.
THEOREM PairingKeepsConsent == Spec => KeepsConsent
<1>1. Init => Consent!Init
    BY DEF Init, SuppInit, AuthInit, Consent!Init
<1>2. IInv /\ [Next]_pairingVars => [Consent!Next]_(Consent!vars)
    <2> SUFFICES ASSUME IInv, [Next]_pairingVars PROVE [Consent!Next]_(Consent!vars)
        OBVIOUS
    <2>1. CASE UNCHANGED pairingVars
        BY <2>1 DEF pairingVars, Consent!vars
    <2> QED
        BY <2>1, PhoneImplements, DesktopImplements, BrowserImplements DEF Next
<1> QED
    BY <1>1, <1>2, Inductive, PTL DEF Spec, KeepsConsent, Consent!Spec

-----------------------------------------------------------------------------
(***************************************************************************)
(* DuplexChannel.                                                          *)
(***************************************************************************)
WebChannels == Kind = "web"

\* The second part of an id is the place of its request.
IdsCount ==
    /\ messageIdSuffix = Len(requests)
    /\ \A r \in Made : requests[r].id[2] = r

\* A request is an entry of its own channel, under its own id.
EntriesAreRequests ==
    \A c \in Channel : \A e \in outstanding[c] :
        /\ e.request \in Made
        /\ e.id = requests[e.request].id
        /\ requests[e.request].channel = c

\* The browser answers what was asked, under the id it was asked.
RepliesAreToRequests ==
    /\ asked \subseteq Made /\ sending \subseteq Made
    /\ \A reply \in replies : reply.of \in Made /\ reply.id = requests[reply.of].id

\* Nothing but its own answer, and the error that concerns all, settles a promise.
AnswersSettle ==
    \A r \in Made : ResultOf(r).is \in {"resolved", "rejected"} => r \in answered

\* Mutual consistency of the four, and the two properties themselves.
Correspondence ==
    /\ DuplexTypeOK
    /\ IdsCount
    /\ EntriesAreRequests
    /\ RepliesAreToRequests
    /\ timeouts \subseteq Made
    /\ AnswersMatch
    /\ OutstandingIsPending
    /\ OnlyUnansweredTimeOut
    /\ answered \subseteq Made
    /\ ResponseSettlesRequest
    /\ AnswersSettle

-----------------------------------------------------------------------------
LEMMA InitCorresponds == DuplexInit => Correspondence
  BY DuplexAssumption DEF DuplexInit, Correspondence, DuplexTypeOK, IdsCount, EntriesAreRequests,
     RepliesAreToRequests, AnswersMatch, OutstandingIsPending, OnlyUnansweredTimeOut,
     ResponseSettlesRequest, AnswersSettle, Made

\* Two requests with the same id are one, and so are two entries of one request.
LEMMA IdsAreUnique ==
  ASSUME IdsCount, NEW q \in Made, NEW r \in Made, requests[q].id = requests[r].id
  PROVE  q = r
  BY DEF IdsCount

LEMMA EntriesAreUnique ==
  ASSUME DuplexTypeOK, EntriesAreRequests,
         NEW c \in Channel, NEW d \in Channel,
         NEW e \in outstanding[c], NEW f \in outstanding[d], e.request = f.request
  PROVE  e = f /\ c = d
<1>1. e \in Entry /\ f \in Entry
  BY DEF DuplexTypeOK
<1>2. e.id = f.id /\ c = d
  BY DEF EntriesAreRequests
<1>. QED
  BY <1>1, <1>2 DEF Entry

LEMMA RequestsAreTyped ==
  ASSUME DuplexTypeOK, NEW r \in Made
  PROVE  /\ requests[r] \in Request
         /\ requests[r].channel \in Channel /\ requests[r].id \in Id
         /\ requests[r].result \in Result
<1>1. requests \in Seq(Request) /\ r \in 1..Len(requests)
  BY DEF DuplexTypeOK, Made
<1>2. requests[r] \in Request
  BY <1>1
<1>. QED
  BY <1>2 DEF Request

-----------------------------------------------------------------------------
\* What settling a set of entries does to the requests.
LEMMA SettleSettles ==
  ASSUME DuplexTypeOK, NEW S \in SUBSET Entry, NEW result \in Result, Settle(S, result)
  PROVE  /\ requests' \in Seq(Request) /\ Len(requests') = Len(requests) /\ Made' = Made
         /\ \A r \in Made :
              /\ requests'[r].id = requests[r].id
              /\ requests'[r].channel = requests[r].channel
              /\ requests'[r].result = IF r \in Requests(S) /\ ResultOf(r) = Pending
                                       THEN result ELSE ResultOf(r)
<1>1. requests \in Seq(Request) /\ Made = 1..Len(requests) /\ Len(requests) \in Nat
  BY DEF DuplexTypeOK, Made
<1>2. \A r \in Made : requests[r] \in Request
  BY <1>1
<1>3. \A r \in Made : [requests[r] EXCEPT !.result = result] \in Request
  BY <1>2 DEF Request
<1>4. requests' = [r \in 1..Len(requests) |->
                     IF r \in Requests(S) /\ requests[r].result = Pending
                     THEN [requests[r] EXCEPT !.result = result] ELSE requests[r]]
  BY <1>1 DEF Settle, Made
<1>5. requests' \in [1..Len(requests) -> Request]
  BY <1>1, <1>2, <1>3, <1>4
<1>6. requests' \in Seq(Request) /\ Len(requests') = Len(requests)
  BY <1>1, <1>5
<1>7. Made' = Made
  BY <1>1, <1>5 DEF Made
<1>8. ASSUME NEW r \in Made
      PROVE  /\ requests'[r].id = requests[r].id
             /\ requests'[r].channel = requests[r].channel
             /\ requests'[r].result = IF r \in Requests(S) /\ ResultOf(r) = Pending
                                      THEN result ELSE ResultOf(r)
  <2>1. requests'[r] = IF r \in Requests(S) /\ requests[r].result = Pending
                       THEN [requests[r] EXCEPT !.result = result] ELSE requests[r]
    BY <1>1, <1>4
  <2>. QED
    BY <1>2, <2>1 DEF ResultOf, Request
<1>. QED
  BY <1>6, <1>7, <1>8

\* Whatever the window receives ends the wait for some of its entries. A
\* message or an error concerns the entry of the request it answers, if it is
\* still waited for, and no other.
LEMMA ReceiveSettles ==
  ASSUME WebChannels, Correspondence, NEW reply \in replies, ReceiveEvent(reply)
  PROVE  \E S \in SUBSET Entry, result \in Result :
           /\ S \subseteq Everyone
           /\ Remove(S) /\ Settle(S, result)
           /\ result.is # "pending"
           /\ result.is \in {"resolved", "rejected"} =>
                result.of = reply.of /\ \A e \in S : e.request = result.of
           /\ ResultOf(reply.of) = Pending => reply.of \in Requests(S)
<1>. USE DEF Correspondence
<1>1. reply \in Reply /\ reply.of \in Made /\ reply.id = requests[reply.of].id
  BY DEF DuplexTypeOK, RepliesAreToRequests
<1>2. Everyone \in SUBSET Entry
  BY DEF DuplexTypeOK, Everyone
<1>3. AddressedTo(reply.id) \subseteq Everyone
  BY DEF AddressedTo, Waiting, Everyone
<1>4. \A e \in AddressedTo(reply.id) : e.request = reply.of
  <2>. TAKE e \in AddressedTo(reply.id)
  <2>1. PICK c \in Channel : e \in outstanding[c] /\ e.id = reply.id
    BY DEF AddressedTo, Waiting
  <2>2. e.request \in Made /\ e.id = requests[e.request].id
    BY <2>1 DEF EntriesAreRequests
  <2>. QED
    BY <1>1, <2>1, <2>2, IdsAreUnique
<1>5. ASSUME ResultOf(reply.of) = Pending
      PROVE  \E c \in Channel : \E e \in outstanding[c] : e.request = reply.of /\ e.id = reply.id
  <2>1. reply.of \in Requests(outstanding[requests[reply.of].channel])
    BY <1>1, <1>5 DEF OutstandingIsPending
  <2>2. requests[reply.of].channel \in Channel
    BY <1>1, RequestsAreTyped
  <2>3. PICK e \in outstanding[requests[reply.of].channel] : e.request = reply.of
    BY <2>1 DEF Requests
  <2>4. e.id = reply.id
    BY <1>1, <2>2, <2>3 DEF EntriesAreRequests
  <2>. QED
    BY <2>2, <2>3, <2>4
<1>6. ResultOf(reply.of) = Pending => reply.of \in Requests(AddressedTo(reply.id))
  BY <1>5 DEF Requests, AddressedTo, Waiting
<1>7. ResultOf(reply.of) = Pending => reply.of \in Requests(Everyone)
  BY <1>5 DEF Requests, Everyone
<1>8. reply.of \in 0..MaxRequests /\ NoOne \in 0..MaxRequests
  <2>1. reply.of \in 1..MaxRequests
    BY <1>1 DEF Reply, Index
  <2>. QED
    BY <2>1, DuplexAssumption DEF NoOne
<1>9. CASE ReceiveMessage(reply)
  <2>1. [is |-> "resolved", of |-> reply.of] \in Result
    BY <1>8 DEF Result
  <2>. QED
    BY <1>2, <1>3, <1>4, <1>6, <1>9, <2>1 DEF ReceiveMessage
<1>10. CASE ReceiveError(reply)
  <2>1. [is |-> "rejected", of |-> reply.of] \in Result
    BY <1>8 DEF Result
  <2>. QED
    BY <1>2, <1>3, <1>4, <1>6, <1>10, <2>1 DEF ReceiveError
<1>11. CASE ReceiveUnsupported(reply)
  <2>1. [is |-> "unsupported", of |-> NoOne] \in Result
    BY <1>8 DEF Result
  <2>. QED
    BY <1>2, <1>7, <1>11, <2>1 DEF ReceiveUnsupported
<1>. QED
  BY <1>9, <1>10, <1>11 DEF ReceiveEvent


-----------------------------------------------------------------------------
LEMMA RequestCorresponds ==
  ASSUME WebChannels, Correspondence, NEW c \in Channel, NEW command \in Command,
         MakeRequest(c, command)
  PROVE  Correspondence'
<1>. USE DEF Correspondence
<1>. DEFINE r == Len(requests) + 1
            id == <<clock, messageIdSuffix + 1>>
            q == [channel |-> c, command |-> command, id |-> id, result |-> Pending]
<1>1. MessageId(c, command) = id
  BY DEF MessageId, WebChannels
<1>2. /\ r <= MaxRequests
      /\ messageIdSuffix' = messageIdSuffix + 1
      /\ requests' = Append(requests, q)
      /\ Add(c, id, r)
      /\ sending' = sending \cup {r}
      /\ UNCHANGED <<clock, asked, replies, answered>>
  BY <1>1, Zenon DEF MakeRequest, WebChannels
<1>3. /\ requests \in Seq(Request) /\ Len(requests) \in Nat
      /\ Made = 1..Len(requests) /\ messageIdSuffix = Len(requests)
  BY DEF DuplexTypeOK, Made, IdsCount
<1>4. q \in Request
  <2>1. id \in Id
    BY <1>3 DEF DuplexTypeOK, Id
  <2>2. Pending \in Result
    BY DuplexAssumption DEF Pending, Result, NoOne
  <2>. QED
    BY <2>1, <2>2 DEF Request
<1>5. /\ requests' \in Seq(Request) /\ Len(requests') = r
      /\ Made' = Made \cup {r} /\ r \notin Made /\ r \in Index
      /\ \A k \in Made : requests'[k] = requests[k]
      /\ requests'[r] = q
  BY <1>2, <1>3, <1>4 DEF Made, Index
<1>. HIDE DEF q
<1>6. q.channel = c /\ q.id = id /\ q.result = Pending
  BY DEF q
<1>7. Waiting(c, id) = {}
  <2>. SUFFICES ASSUME NEW e \in outstanding[c], e.id = id PROVE FALSE
    BY DEF Waiting
  <2>1. e.request \in Made /\ requests[e.request].id = id
    BY DEF EntriesAreRequests
  <2>. QED
    BY <1>3, <2>1 DEF IdsCount
<1>. DEFINE entry == [id |-> id, request |-> r]
<1>8. outstanding' = [outstanding EXCEPT ![c] = @ \cup {entry}] /\ timeouts' = timeouts \cup {r}
  BY <1>2, <1>7 DEF Add, Requests
<1>9. entry \in Entry /\ entry.id = id /\ entry.request = r
  <2>1. id \in Id
    BY <1>3 DEF DuplexTypeOK, Id
  <2>. QED
    BY <1>5, <2>1 DEF Entry
<1>. HIDE DEF entry
<1>10. outstanding \in [Channel -> SUBSET Entry]
  BY DEF DuplexTypeOK
<1>11. /\ outstanding' \in [Channel -> SUBSET Entry]
       /\ outstanding'[c] = outstanding[c] \cup {entry}
       /\ \A d \in Channel : d # c => outstanding'[d] = outstanding[d]
  BY <1>8, <1>9, <1>10
<1>12. DuplexTypeOK'
  <2>1. requests' \in Seq(Request) /\ Len(requests') <= MaxRequests
    BY <1>2, <1>5
  <2>2. messageIdSuffix' \in Nat
    BY <1>2, <1>3
  <2>3. timeouts' \subseteq Index /\ sending' \subseteq Index
    BY <1>2, <1>5, <1>8 DEF DuplexTypeOK
  <2>. HIDE DEF r
  <2>. QED
    BY <1>2, <1>11, <2>1, <2>2, <2>3 DEF DuplexTypeOK
<1>13. IdsCount'
  <2>1. messageIdSuffix' = Len(requests')
    BY <1>2, <1>3, <1>5
  <2>2. q.id[2] = r
    BY <1>3, <1>6
  <2>. QED
    BY <1>5, <2>1, <2>2 DEF IdsCount
<1>14. EntriesAreRequests'
  BY <1>5, <1>6, <1>9, <1>11 DEF EntriesAreRequests
<1>15. RepliesAreToRequests'
  BY <1>2, <1>5 DEF RepliesAreToRequests
<1>16. timeouts' \subseteq Made' /\ answered' \subseteq Made'
  BY <1>2, <1>5, <1>8
<1>17. AnswersMatch'
  <2>1. q.result.is = "pending"
    BY <1>6 DEF Pending
  <2>. QED
    BY <1>5, <2>1 DEF AnswersMatch, ResultOf
<1>18. \A k \in Made : requests[k].channel \in Channel
  BY RequestsAreTyped
<1>19. OutstandingIsPending'
  <2>1. ASSUME NEW k \in Made
        PROVE  requests'[k].result = Pending
                 <=> k \in Requests(outstanding'[requests'[k].channel])
    <3>1. k # r /\ requests'[k] = requests[k] /\ requests[k].channel \in Channel
      BY <1>5, <1>18
    <3>2. k \in Requests(outstanding'[requests[k].channel])
            <=> k \in Requests(outstanding[requests[k].channel])
      BY <1>9, <1>11, <3>1 DEF Requests
    <3>. QED
      BY <3>1, <3>2 DEF OutstandingIsPending, ResultOf
  <2>2. requests'[r].result = Pending
    BY <1>5, <1>6
  <2>3. requests'[r].channel = c /\ entry \in outstanding'[c]
    BY <1>5, <1>6, <1>11
  <2>4. r \in Requests(outstanding'[requests'[r].channel])
    BY <1>9, <2>3 DEF Requests
  <2>. QED
    BY <1>5, <2>1, <2>2, <2>4 DEF OutstandingIsPending, ResultOf
<1>20. OnlyUnansweredTimeOut'
  BY <1>5, <1>6, <1>8 DEF OnlyUnansweredTimeOut, ResultOf
<1>21. ResponseSettlesRequest'
  BY <1>2, <1>5 DEF ResponseSettlesRequest, ResultOf
<1>22. AnswersSettle'
  <2>1. q.result.is = "pending"
    BY <1>6 DEF Pending
  <2>. QED
    BY <1>2, <1>5, <2>1 DEF AnswersSettle, ResultOf
<1>. QED
  BY <1>22, <1>12, <1>13, <1>14, <1>15, <1>16, <1>17, <1>19, <1>20, <1>21

LEMMA NextTickIsNat ==
  ASSUME clock \in Nat, clock' = clock \/ clock' = clock + 1
  PROVE  clock' \in Nat
OBVIOUS

\* Steps that leave requests and entries alone.
LEMMA OtherStepsCorrespond ==
  ASSUME Correspondence,
         \/ \E r \in Index : Dispatch(r)
         \/ \E r \in Index : DispatchFails(r)
         \/ \E r \in Index : TimeoutFires(r)
         \/ \E r \in Index, is \in {"message", "error", "no such channel"} : Answer(r, is)
         \/ Tick
         \/ UNCHANGED duplexVars
  PROVE  Correspondence'
<1>. USE DEF Correspondence
<1>1. UNCHANGED <<messageIdSuffix, requests, outstanding, answered>>
  BY DEF Dispatch, DispatchFails, TimeoutFires, Answer, Tick, duplexVars
<1>2. Made' = Made /\ \A r \in Made : ResultOf(r)' = ResultOf(r)
  BY <1>1 DEF Made, ResultOf
<1>3. IdsCount' /\ EntriesAreRequests' /\ AnswersMatch' /\ OutstandingIsPending'
      /\ ResponseSettlesRequest' /\ AnswersSettle' /\ answered' \subseteq Made'
  BY <1>1 DEF IdsCount, EntriesAreRequests, AnswersMatch, OutstandingIsPending,
     ResponseSettlesRequest, AnswersSettle, Made, ResultOf, Requests
<1>4. timeouts' \subseteq timeouts
  BY DEF Dispatch, DispatchFails, TimeoutFires, Answer, Tick, duplexVars
<1>5. timeouts' \subseteq Made' /\ OnlyUnansweredTimeOut'
  BY <1>2, <1>4 DEF OnlyUnansweredTimeOut
<1>6. clock' \in Nat
  <2>1. clock' = clock \/ clock' = clock + 1
    BY DEF Dispatch, DispatchFails, TimeoutFires, Answer, Tick, duplexVars
  <2>2. clock \in Nat
    BY DEF DuplexTypeOK
  <2>. QED
    BY <2>1, <2>2, NextTickIsNat
<1>7. /\ sending' \subseteq sending
      /\ asked' \subseteq asked \cup sending
  BY DEF Dispatch, DispatchFails, TimeoutFires, Answer, Tick, duplexVars
<1>8. \A reply \in replies' :
         reply \in replies \/ (reply \in Reply /\ reply.of \in Made /\ reply.id = requests[reply.of].id)
  <2>1. ASSUME NEW r \in Index, NEW is \in {"message", "error", "no such channel"}, Answer(r, is)
        PROVE  \A reply \in replies' :
                 reply \in replies \/ (reply \in Reply /\ reply.of \in Made /\ reply.id = requests[reply.of].id)
    <3>. DEFINE new == [is |-> is, id |-> requests[r].id, of |-> r]
    <3>1. r \in Made /\ replies' = replies \cup {new}
      BY <2>1 DEF Answer, RepliesAreToRequests
    <3>2. requests[r].id \in Id
      BY <3>1, RequestsAreTyped
    <3>3. new \in Reply /\ new.of = r /\ new.id = requests[r].id
      BY <3>2 DEF Reply
    <3>. HIDE DEF new
    <3>. QED
      BY <3>1, <3>3
  <2>2. (\E r \in Index, is \in {"message", "error", "no such channel"} : Answer(r, is)) \/ replies' = replies
    BY DEF Dispatch, DispatchFails, TimeoutFires, Tick, duplexVars
  <2>. QED
    BY <2>1, <2>2
<1>9. RepliesAreToRequests'
  BY <1>1, <1>2, <1>7, <1>8 DEF RepliesAreToRequests
<1>10. DuplexTypeOK'
  BY <1>1, <1>4, <1>6, <1>7, <1>8 DEF DuplexTypeOK
<1>. QED
  BY <1>3, <1>5, <1>9, <1>10

LEMMA ReceiveCorresponds ==
  ASSUME WebChannels, Correspondence, NEW reply \in replies, ReceiveEvent(reply)
  PROVE  Correspondence'
<1>. USE DEF Correspondence
<1>1. PICK S \in SUBSET Entry, result \in Result :
           /\ S \subseteq Everyone
           /\ Remove(S) /\ Settle(S, result)
           /\ result.is # "pending"
           /\ result.is \in {"resolved", "rejected"} =>
                result.of = reply.of /\ \A e \in S : e.request = result.of
           /\ ResultOf(reply.of) = Pending => reply.of \in Requests(S)
  BY ReceiveSettles
<1>2. /\ requests' \in Seq(Request) /\ Len(requests') = Len(requests) /\ Made' = Made
      /\ \A r \in Made :
           /\ requests'[r].id = requests[r].id
           /\ requests'[r].channel = requests[r].channel
           /\ requests'[r].result = IF r \in Requests(S) /\ ResultOf(r) = Pending
                                    THEN result ELSE ResultOf(r)
  BY <1>1, SettleSettles
<1>3. /\ reply.of \in Made /\ reply \in Reply
      /\ replies' = replies \ {reply} /\ answered' = answered \cup {reply.of}
      /\ UNCHANGED <<clock, messageIdSuffix, sending, asked>>
  BY DEF ReceiveEvent, RepliesAreToRequests, DuplexTypeOK
<1>4. outstanding' = [c \in Channel |-> outstanding[c] \ S] /\ timeouts' = timeouts \ Requests(S)
  BY <1>1 DEF Remove
<1>5. result # Pending
  BY <1>1 DEF Pending
<1>6. \A r \in Made : ResultOf(r)' = Pending <=> ResultOf(r) = Pending /\ r \notin Requests(S)
  BY <1>2, <1>5 DEF ResultOf
<1>7. DuplexTypeOK'
  <2>1. outstanding' \in [Channel -> SUBSET Entry]
    BY <1>4 DEF DuplexTypeOK
  <2>2. reply.of \in Index
    BY <1>3 DEF Reply
  <2>. QED
    BY <1>2, <1>3, <1>4, <2>1, <2>2 DEF DuplexTypeOK
<1>8. IdsCount'
  BY <1>2, <1>3 DEF IdsCount
<1>9. EntriesAreRequests'
  BY <1>2, <1>4 DEF EntriesAreRequests
<1>10. RepliesAreToRequests'
  BY <1>2, <1>3 DEF RepliesAreToRequests
<1>11. timeouts' \subseteq Made' /\ answered' \subseteq Made'
  BY <1>2, <1>3, <1>4
<1>12. AnswersMatch'
  <2>. SUFFICES ASSUME NEW r \in Made, requests'[r].result.is \in {"resolved", "rejected"}
                PROVE  requests'[r].result.of = r
    BY <1>2 DEF AnswersMatch, ResultOf
  <2>1. CASE r \in Requests(S) /\ ResultOf(r) = Pending
    <3>1. requests'[r].result = result
      BY <1>2, <2>1
    <3>2. PICK e \in S : e.request = r
      BY <2>1 DEF Requests
    <3>. QED
      BY <1>1, <3>1, <3>2
  <2>2. CASE ~(r \in Requests(S) /\ ResultOf(r) = Pending)
    <3>1. requests'[r].result = ResultOf(r)
      BY <1>2, <2>2
    <3>. QED
      BY <3>1 DEF AnswersMatch
  <2>. QED
    BY <2>1, <2>2
<1>13. OutstandingIsPending'
  <2>. SUFFICES ASSUME NEW r \in Made
                PROVE  ResultOf(r)' = Pending <=> r \in Requests(outstanding'[requests[r].channel])
    BY <1>2 DEF OutstandingIsPending
  <2>1. requests[r].channel \in Channel
    BY RequestsAreTyped
  <2>. DEFINE c == requests[r].channel
  <2>2. outstanding'[c] = outstanding[c] \ S
    BY <1>4, <2>1
  <2>3. ASSUME NEW e \in outstanding[c], e.request = r, NEW f \in S, f.request = r
        PROVE  e = f
    <3>1. PICK d \in Channel : f \in outstanding[d]
      BY <1>1 DEF Everyone
    <3>. QED
      BY <2>1, <2>3, <3>1, EntriesAreUnique
  <2>4. r \in Requests(outstanding[c] \ S) <=> r \in Requests(outstanding[c]) /\ r \notin Requests(S)
    BY <2>3 DEF Requests
  <2>. QED
    BY <1>6, <2>2, <2>4 DEF OutstandingIsPending
<1>14. OnlyUnansweredTimeOut'
  BY <1>2, <1>4, <1>6 DEF OnlyUnansweredTimeOut
<1>15. ResponseSettlesRequest'
  BY <1>1, <1>3, <1>6 DEF ResponseSettlesRequest
<1>16. AnswersSettle'
  <2>. SUFFICES ASSUME NEW r \in Made, requests'[r].result.is \in {"resolved", "rejected"}
                PROVE  r \in answered'
    BY <1>2 DEF AnswersSettle, ResultOf
  <2>1. CASE r \in Requests(S) /\ ResultOf(r) = Pending
    <3>1. requests'[r].result = result
      BY <1>2, <2>1
    <3>2. PICK e \in S : e.request = r
      BY <2>1 DEF Requests
    <3>. QED
      BY <1>1, <1>3, <3>1, <3>2
  <2>2. CASE ~(r \in Requests(S) /\ ResultOf(r) = Pending)
    <3>1. requests'[r].result = ResultOf(r)
      BY <1>2, <2>2
    <3>. QED
      BY <1>3, <3>1 DEF AnswersSettle
  <2>. QED
    BY <2>1, <2>2
<1>. QED
  BY <1>16, <1>7, <1>8, <1>9, <1>10, <1>11, <1>12, <1>13, <1>14, <1>15

LEMMA StepCorresponds == WebChannels /\ Correspondence /\ [DuplexNext]_duplexVars => Correspondence'
<1>. SUFFICES ASSUME WebChannels, Correspondence, [DuplexNext]_duplexVars
              PROVE  Correspondence'
  OBVIOUS
<1>1. ASSUME NEW c \in Channel, NEW command \in Command, MakeRequest(c, command)
      PROVE  Correspondence'
  BY <1>1, RequestCorresponds
<1>2. ASSUME NEW reply \in replies, ReceiveEvent(reply)
      PROVE  Correspondence'
  BY <1>2, ReceiveCorresponds
<1>3. ASSUME \/ \E r \in Index : Dispatch(r)
             \/ \E r \in Index : DispatchFails(r)
             \/ \E r \in Index : TimeoutFires(r)
             \/ \E r \in Index, is \in {"message", "error", "no such channel"} : Answer(r, is)
             \/ Tick
             \/ UNCHANGED duplexVars
      PROVE  Correspondence'
  BY <1>3, OtherStepsCorrespond
<1>. QED
  BY <1>1, <1>2, <1>3 DEF DuplexNext

-----------------------------------------------------------------------------
LEMMA CorrespondenceHolds ==
  ASSUME WebChannels PROVE DuplexSpec => []Correspondence
<1>1. Correspondence /\ [DuplexNext]_duplexVars => Correspondence'
  BY StepCorresponds
<1>. QED
  BY <1>1, InitCorresponds, PTL DEF DuplexSpec

\* A promise of a WebChannel is settled with the answer to its own request,
\* whatever the number of channels that send in the same millisecond
\* (createMessageId, onMessageReceived, onErrorReceived).
THEOREM AnswersReachTheirRequests ==
  ASSUME WebChannels PROVE DuplexSpec => []AnswersMatch
<1>1. Correspondence => AnswersMatch
  BY DEF Correspondence
<1>. QED
  BY <1>1, CorrespondenceHolds, PTL

\* A WebChannel waits for a request as long as its promise is pending, and no
\* longer, also for one that could not be sent (OutstandingRequests,
\* rejectAllOutstandingRequests, the catch of request).
THEOREM WaitsForThePending ==
  ASSUME WebChannels PROVE DuplexSpec => []RequestsAreWaitedFor
<1>1. Correspondence => RequestsAreWaitedFor
  <2>. SUFFICES ASSUME Correspondence PROVE UnsentIsNotNoticed
    BY DEF Correspondence, RequestsAreWaitedFor
  <2>. SUFFICES ASSUME NEW r \in Made, Unsent(r)
                PROVE  ResultOf(r).is \in {"pending", "unsupported"}
    BY DEF UnsentIsNotNoticed
  <2>1. ResultOf(r) \in Result
    BY RequestsAreTyped DEF Correspondence, ResultOf
  <2>2. ResultOf(r).is \notin {"resolved", "rejected"}
    BY DEF Correspondence, AnswersSettle, Unsent
  <2>. QED
    BY <2>1, <2>2 DEF Result
<1>. QED
  BY <1>1, CorrespondenceHolds, PTL

\* When the response has been received, the promise is settled ("Promise will
\* resolve when the response is received").
THEOREM ResponsesSettle ==
  ASSUME WebChannels PROVE DuplexSpec => []ResponseSettlesRequest
<1>1. Correspondence => ResponseSettlesRequest
  BY DEF Correspondence
<1>. QED
  BY <1>1, CorrespondenceHolds, PTL

\* The timeout of a settled request is cleared (OutstandingRequests.remove).
THEOREM TimeoutsAreCleared ==
  ASSUME WebChannels PROVE DuplexSpec => []OnlyUnansweredTimeOut
<1>1. Correspondence => OnlyUnansweredTimeOut
  BY DEF Correspondence
<1>. QED
  BY <1>1, CorrespondenceHolds, PTL

-----------------------------------------------------------------------------
(***************************************************************************)
(* SignUpConfirmation.                                                     *)
(***************************************************************************)
Fetch(u) == {r \in calls : r.kind = "fetch" /\ r.uid = u}
Told(u)  == \E i \in DOMAIN logins : logins[i].uid = u

\* Only accounts that were signed up for are spoken of, and a submit under way
\* was made on the screen with the choice.
Named ==
    /\ \A r \in calls : r.uid <= signUps /\ (r.kind = "fetch" => r.view = "choose")
    /\ \A u \in Uid : Told(u) => u <= signUps

\* The window takes for confirmed only what the server once said was.
Confirmed ==
    /\ \A u \in Uid : account[u].verified => u \in confirmed
    /\ \A r \in calls : r.reply = "verified" => r.uid \in confirmed
    /\ OnlyTheConfirmedGoOn

\* Who may still be told of.
Notices ==
    /\ screen = "choose" => ~Told(who)
    /\ screen = "confirm" => Fetch(who) = {} /\ (account[who].keys => loginUid = who)
    /\ \A r, s \in calls :
         r.kind = "fetch" /\ s.kind = "fetch" /\ r.uid = s.uid => r = s
    /\ \A r \in calls :
         r.kind = "fetch" => /\ ~Told(r.uid)
                             /\ account[r.uid].keys => account[r.uid].chosen
    /\ OneLoginPerAccount
    /\ LoginsCarryTheChoice

SignUpInv == SignUpTypeOK /\ Named /\ Confirmed /\ Notices

-----------------------------------------------------------------------------
LEMMA SignUpInitOK == SignUpInit => SignUpInv
<1> USE ConstantsAssumption
<1> SUFFICES ASSUME SignUpInit PROVE SignUpInv OBVIOUS
<1>1. SignUpTypeOK
  <2>1. account \in [Uid -> Account] BY DEF SignUpInit, Account
  <2>2. logins \in Seq(Login) BY DEF SignUpInit
  <2>3. /\ screen \in Screen /\ screen = "signup"
        /\ who = 0 /\ signUps = 0 /\ loginUid = 0 /\ failures = 0
    BY DEF SignUpInit, Screen
  <2>4. waiting \in BOOLEAN /\ gaveUp \in BOOLEAN BY DEF SignUpInit
  <2>5. timers = {} /\ calls = {} /\ registered = {} /\ confirmed = {} /\ sessions = {}
    BY DEF SignUpInit
  <2> HIDE DEF SignUpInit
  <2>6. signUps \in 0..MaxSignUps /\ failures \in 0..MaxFailures /\ who <= signUps
    BY <2>3
  <2> QED BY <2>1, <2>2, <2>3, <2>4, <2>5, <2>6 DEF SignUpTypeOK
<1>2. Named BY DEF SignUpInit, Named, Told
<1>3. Confirmed BY DEF SignUpInit, Confirmed, OnlyTheConfirmedGoOn
<1>4. Notices
  BY DEF SignUpInit, Notices, Told, OneLoginPerAccount, LoginsCarryTheChoice
<1> QED BY <1>1, <1>2, <1>3, <1>4 DEF SignUpInv

\* What a reply does to an account keeps its type, its keys and its choice, and
\* verifies it only with a reply that says so (Account.sessionStatus).
LEMMA UpdatedOK ==
    ASSUME NEW a \in Account, NEW reply
    PROVE  /\ Updated(a, reply) \in Account
           /\ Updated(a, reply).keys = a.keys
           /\ Updated(a, reply).chosen = a.chosen
           /\ Updated(a, reply).verified => a.verified \/ reply = "verified"
  BY DEF Updated, Account

\* A new request has its type and no good news.
LEMMA AskingOK ==
    ASSUME NEW u \in Uid, NEW v \in Polling, NEW kind \in {"status", "uid", "fetch", "resend"},
           NEW a \in Account
    PROVE  /\ Asking(u, v, kind) \in Call /\ Asking(u, v, kind).reply = "none"
           /\ Asking(u, v, kind).uid = u /\ Asking(u, v, kind).kind = kind
           /\ Asking(u, v, kind).view = v
           /\ Status(u, v, a) \in Call
           /\ Status(u, v, a).uid = u /\ Status(u, v, a).kind = "status"
           /\ Status(u, v, a).reply # "verified"
  BY DEF Asking, Status, Call

\* Telling the browser, of an account that it was not told of or whose login
\* is remembered (FxSyncChannelAuthenticationBroker._notifyRelierOfLogin).
LEMMA NotifyOK ==
    ASSUME logins \in Seq(Login), loginUid \in Uid \cup {0},
           OneLoginPerAccount, LoginsCarryTheChoice,
           NEW u \in Uid, NEW a \in Account,
           a.keys => loginUid = u \/ (~Told(u) /\ a.chosen),
           NotifyRelierOfLogin(u, a)
    PROVE  /\ logins' \in Seq(Login) /\ loginUid' \in Uid \cup {0}
           /\ OneLoginPerAccount' /\ LoginsCarryTheChoice'
           /\ \A w \in Uid : Told(w)' => Told(w) \/ w = u
           /\ a.token /\ a.keys => loginUid' = u
<1>1. CASE a.token /\ a.keys /\ u # loginUid
  <2> DEFINE login == [uid |-> u, chosen |-> a.chosen]
  <2>1. login \in Login /\ login.uid = u /\ login.chosen BY <1>1 DEF Login, Account
  <2>2. loginUid' = u /\ logins' = Append(logins, login) BY <1>1 DEF NotifyRelierOfLogin
  <2> HIDE DEF login
  <2>3. /\ logins' \in Seq(Login) /\ DOMAIN logins' = 1..(Len(logins) + 1)
        /\ DOMAIN logins = 1..Len(logins) /\ Len(logins) \in Nat
        /\ logins'[Len(logins) + 1] = login
        /\ \A i \in 1..Len(logins) : logins'[i] = logins[i]
    BY <2>1, <2>2
  <2>4. ~Told(u) BY <1>1
  <2>5. OneLoginPerAccount'
    BY <2>1, <2>3, <2>4 DEF OneLoginPerAccount, Told
  <2>6. LoginsCarryTheChoice'
    BY <2>1, <2>3 DEF LoginsCarryTheChoice
  <2>7. \A w \in Uid : Told(w)' => Told(w) \/ w = u
    BY <2>1, <2>3 DEF Told
  <2> QED BY <2>2, <2>3, <2>5, <2>6, <2>7
<1>2. CASE ~(a.token /\ a.keys /\ u # loginUid)
  <2>1. UNCHANGED <<loginUid, logins>> BY <1>2 DEF NotifyRelierOfLogin, broker
  <2> QED BY <1>2, <2>1 DEF OneLoginPerAccount, LoginsCarryTheChoice, Told
<1> QED BY <1>1, <1>2

-----------------------------------------------------------------------------
\* No account gets its keys back or forgets the choice, and no submit begins.
AccountsKept ==
    /\ \A u \in Uid : account'[u].verified => u \in confirmed'
    /\ \A u \in Uid : account'[u].keys => account[u].keys
    /\ \A u \in Uid : account[u].chosen => account'[u].chosen
RequestsKept ==
    /\ \A r \in calls' :
         /\ r.uid <= signUps
         /\ r.reply = "verified" => r.uid \in confirmed'
         /\ r.kind = "fetch" =>
              /\ r.view = "choose"
              /\ \E q \in calls : q.kind = "fetch" /\ q.uid = r.uid
    /\ \A r, s \in calls' :
         r.kind = "fetch" /\ s.kind = "fetch" /\ r.uid = s.uid => r = s

\* A step that tells nobody and shows no screen but the one shown or sign up.
Quiet ==
    /\ UNCHANGED <<signUps, loginUid, logins>>
    /\ confirmed \subseteq confirmed'
    /\ UNCHANGED <<screen, who>> \/ screen' = "signup"
    /\ AccountsKept
    /\ RequestsKept

LEMMA QuietOK == SignUpInv /\ SignUpTypeOK' /\ Quiet => SignUpInv'
<1> SUFFICES ASSUME SignUpInv, SignUpTypeOK', Quiet PROVE SignUpInv' OBVIOUS
<1>q. /\ UNCHANGED <<signUps, loginUid, logins>> /\ confirmed \subseteq confirmed'
      /\ UNCHANGED <<screen, who>> \/ screen' = "signup"
      /\ AccountsKept /\ RequestsKept
  BY Zenon DEF Quiet
<1>t. SignUpTypeOK /\ Named /\ Confirmed /\ Notices BY DEF SignUpInv
<1>v. \A u \in Uid : account'[u].verified => u \in confirmed'
  BY <1>q, Zenon DEF AccountsKept
<1>k. /\ \A u \in Uid : account'[u].keys => account[u].keys
      /\ \A u \in Uid : account[u].chosen => account'[u].chosen
  BY <1>q, Zenon DEF AccountsKept
<1>1. \A u : Told(u)' <=> Told(u) BY <1>q DEF Told
<1>2. Named' BY <1>q, <1>t, <1>1 DEF RequestsKept, Named
<1>3. Confirmed' BY <1>q, <1>t, <1>v DEF RequestsKept, Confirmed, OnlyTheConfirmedGoOn
<1>4. Notices'
  <2>1. (screen = "choose" => ~Told(who))' BY <1>q, <1>t, <1>1 DEF Notices
  <2>2. (screen = "confirm" => Fetch(who) = {} /\ (account[who].keys => loginUid = who))'
    <3> SUFFICES ASSUME screen' = "confirm"
                 PROVE  Fetch(who)' = {} /\ (account'[who'].keys => loginUid' = who')
      OBVIOUS
    <3>1. screen = "confirm" /\ who' = who BY <1>q
    <3>2. Fetch(who)' = {} BY <1>q, <1>t, <3>1 DEF RequestsKept, Fetch, Notices
    <3>3. who \in Uid BY <1>t, <3>1 DEF SignUpTypeOK
    <3> QED BY <1>q, <1>t, <1>k, <3>1, <3>2, <3>3 DEF Notices
  <2>3. \A r \in calls' : r.kind = "fetch" =>
          ~Told(r.uid)' /\ (account'[r.uid].keys => account'[r.uid].chosen)
    <3> SUFFICES ASSUME NEW r \in calls', r.kind = "fetch"
                 PROVE  ~Told(r.uid)' /\ (account'[r.uid].keys => account'[r.uid].chosen)
      OBVIOUS
    <3>1. PICK q \in calls : q.kind = "fetch" /\ q.uid = r.uid
      BY <1>q DEF RequestsKept
    <3>2. q.uid \in Uid BY <1>t DEF SignUpTypeOK, Call
    <3> QED BY <1>t, <1>k, <1>1, <3>1, <3>2 DEF Notices
  <2>4. OneLoginPerAccount' /\ LoginsCarryTheChoice'
    BY <1>q, <1>t DEF Notices, OneLoginPerAccount, LoginsCarryTheChoice
  <2>5. \A r, s \in calls' :
          r.kind = "fetch" /\ s.kind = "fetch" /\ r.uid = s.uid => r = s
    BY <1>q DEF RequestsKept
  <2> QED BY <2>1, <2>2, <2>3, <2>4, <2>5 DEF Notices
<1> QED BY <1>2, <1>3, <1>4 DEF SignUpInv

\* Going on with an account: to the last screen, if it is confirmed, or to the
\* one that waits, or back to sign up (AuthBroker.afterSignUp,
\* afterSignUpConfirmationPoll).
LEMMA GoOnOK ==
    ASSUME SignUpInv, NEW u \in Uid, u <= signUps, NEW a \in Account,
           NEW others \in SUBSET calls,
           account' = [account EXCEPT ![u] = a],
           a.verified => u \in confirmed,
           a.keys => loginUid = u \/ (~Told(u) /\ a.chosen),
           \A r \in others : r.kind = "fetch" => r.uid # u,
           UNCHANGED <<signUps, server, failures>>,
           \/ u \in confirmed /\ AfterSignUpConfirmationPoll(u, a, others)
           \/ OpenConfirm(u, a, others)
    PROVE  SignUpInv'
<1> DEFINE status == Status(u, "confirm", a)
<1>t. SignUpTypeOK /\ Named /\ Confirmed /\ Notices BY DEF SignUpInv
<1>s. /\ status \in Call /\ status.uid = u /\ status.kind = "status"
      /\ status.reply # "verified"
  BY AskingOK DEF Polling
<1>1. /\ logins' \in Seq(Login) /\ loginUid' \in Uid \cup {0}
      /\ OneLoginPerAccount' /\ LoginsCarryTheChoice'
      /\ \A w \in Uid : Told(w)' => Told(w) \/ w = u
  <2>1. CASE NotifyRelierOfLogin(u, a)
    BY <1>t, <2>1, NotifyOK DEF SignUpTypeOK, Notices
  <2>2. CASE UNCHANGED broker
    BY <1>t, <2>2 DEF SignUpTypeOK, Notices, broker, OneLoginPerAccount, LoginsCarryTheChoice, Told
  <2> QED BY <2>1, <2>2 DEF AfterSignUpConfirmationPoll, OpenConfirm
<1>2. /\ screen' \in {"next", "confirm", "signup"} /\ who' = u
      /\ waiting' \in BOOLEAN /\ gaveUp' \in BOOLEAN /\ timers' = {}
      /\ calls' = others \/ calls' = others \cup {status}
      /\ screen' = "next" => u \in confirmed
      /\ screen' = "confirm" => a.token /\ NotifyRelierOfLogin(u, a)
  BY DEF AfterSignUpConfirmationPoll, OpenConfirm, Leave, Open
<1>3. screen' = "confirm" /\ a.keys => loginUid' = u
  BY <1>t, <1>2, NotifyOK DEF SignUpTypeOK, Notices
<1> HIDE DEF status
<1>4. account' \in [Uid -> Account] /\ account'[u] = a
      /\ \A w \in Uid : w # u => account'[w] = account[w]
  BY <1>t DEF SignUpTypeOK
<1>5. \A r \in calls' : (r \in calls /\ r \in others) \/ r = status BY <1>2
<1>6. SignUpTypeOK'
  <2>1. calls' \subseteq Call BY <1>t, <1>s, <1>5 DEF SignUpTypeOK
  <2>2. UNCHANGED <<signUps, registered, confirmed, sessions, failures>> BY DEF server
  <2> QED BY <1>t, <1>1, <1>2, <1>4, <2>1, <2>2 DEF SignUpTypeOK, Screen, Uid
<1>7. Named'
  <2>1. UNCHANGED signUps OBVIOUS
  <2> QED BY <1>t, <1>s, <1>1, <1>5, <2>1 DEF Named
<1>8. Confirmed'
  <2>1. UNCHANGED confirmed BY DEF server
  <2> QED BY <1>t, <1>s, <1>2, <1>4, <1>5, <2>1 DEF Confirmed, OnlyTheConfirmedGoOn
<1>9. Notices'
  <2>1. \A r \in calls' : r.kind = "fetch" => r \in calls /\ r.uid # u /\ r.uid \in Uid
    BY <1>t, <1>s, <1>5 DEF SignUpTypeOK, Call
  <2>2. (screen = "confirm" => Fetch(who) = {} /\ (account[who].keys => loginUid = who))'
    BY <1>2, <1>3, <1>4, <2>1 DEF Fetch
  <2>3. \A r \in calls' : r.kind = "fetch" =>
          ~Told(r.uid)' /\ (account'[r.uid].keys => account'[r.uid].chosen)
    BY <1>t, <1>1, <1>4, <2>1 DEF Notices
  <2>4. \A r, s \in calls' :
          r.kind = "fetch" /\ s.kind = "fetch" /\ r.uid = s.uid => r = s
    BY <1>t, <2>1 DEF Notices
  <2>5. screen' # "choose" BY <1>2
  <2> QED BY <1>1, <2>2, <2>3, <2>4, <2>5 DEF Notices
<1> QED BY <1>6, <1>7, <1>8, <1>9 DEF SignUpInv

\* The choice: either its submit is now under way, or the user goes on
\* (ChooseWhatToSync.submit).
LEMMA ChooseOK ==
    ASSUME SignUpInv, screen = "choose", ~Submitting, NEW a \in Account,
           a.keys = account[who].keys, a.verified => who \in confirmed,
           NEW others \in SUBSET calls,
           UNCHANGED <<signUps, server, failures>>, Choose(a, others)
    PROVE  SignUpInv'
<1> DEFINE b == [a EXCEPT !.chosen = TRUE]
           fetch == Asking(who, "choose", "fetch")
<1>t. SignUpTypeOK /\ Named /\ Confirmed /\ Notices BY DEF SignUpInv
<1>1. who \in Uid /\ who <= signUps BY <1>t DEF SignUpTypeOK
<1>2. ~Told(who) BY <1>t DEF Notices
<1>3. \A r \in calls : r.kind = "fetch" => r.uid # who
  BY <1>t DEF Submitting, Live, Named
<1>4. b \in Account /\ b.chosen /\ b.keys = a.keys /\ b.verified = a.verified BY DEF Account
<1>5. account' = [account EXCEPT ![who] = b] BY DEF Choose
<1>6. CASE NeedsFetch(b)
  <2>1. /\ calls' = others \cup {fetch}
        /\ UNCHANGED <<screen, who, waiting, timers, gaveUp, loginUid, logins>>
    BY <1>6 DEF Choose, view, broker
  <2>2. /\ fetch \in Call /\ fetch.reply = "none" /\ fetch.uid = who
        /\ fetch.kind = "fetch" /\ fetch.view = "choose"
    BY <1>1, <1>4, AskingOK DEF Polling
  <2> HIDE DEF b, fetch
  <2>3. UNCHANGED <<signUps, registered, confirmed, sessions, failures>> BY DEF server
  <2>4. account' \in [Uid -> Account] /\ account'[who] = b
        /\ \A w \in Uid : w # who => account'[w] = account[w]
    BY <1>t, <1>1, <1>4, <1>5 DEF SignUpTypeOK
  <2>5. \A u : Told(u)' <=> Told(u) BY <2>1 DEF Told
  <2>6. SignUpTypeOK'
    <3>1. calls' \subseteq Call BY <1>t, <2>1, <2>2 DEF SignUpTypeOK
    <3> QED BY <1>t, <2>1, <2>3, <2>4, <3>1 DEF SignUpTypeOK
  <2>7. Named' BY <1>t, <1>1, <2>1, <2>2, <2>3, <2>5 DEF Named
  <2>8. Confirmed'
    BY <1>t, <1>4, <2>1, <2>2, <2>3, <2>4 DEF Confirmed, OnlyTheConfirmedGoOn
  <2>9. Notices'
    <3>1. OneLoginPerAccount' /\ LoginsCarryTheChoice'
      BY <1>t, <2>1 DEF Notices, OneLoginPerAccount, LoginsCarryTheChoice
    <3>2. screen' = "choose" /\ who' = who /\ ~Told(who)' BY <1>2, <2>1, <2>5
    <3>3. \A r, s \in calls' :
            r.kind = "fetch" /\ s.kind = "fetch" /\ r.uid = s.uid => r = s
      BY <1>t, <1>3, <2>1, <2>2 DEF Notices
    <3>4. \A r \in calls' : r.kind = "fetch" =>
            ~Told(r.uid)' /\ (account'[r.uid].keys => account'[r.uid].chosen)
      <4> SUFFICES ASSUME NEW r \in calls', r.kind = "fetch"
                   PROVE  ~Told(r.uid)' /\ (account'[r.uid].keys => account'[r.uid].chosen)
        OBVIOUS
      <4>1. CASE r = fetch BY <1>2, <1>4, <2>2, <2>4, <2>5, <4>1
      <4>2. CASE r \in calls
        <5>1. r.uid \in Uid /\ r.uid # who BY <1>t, <1>3, <4>2 DEF SignUpTypeOK, Call
        <5> QED BY <1>t, <2>4, <2>5, <4>2, <5>1 DEF Notices
      <4> QED BY <2>1, <4>1, <4>2
    <3> QED BY <3>1, <3>2, <3>3, <3>4 DEF Notices
  <2> QED BY <2>6, <2>7, <2>8, <2>9 DEF SignUpInv
<1>7. CASE ~NeedsFetch(b)
  <2>1. AfterSignUp(who, b, others) BY <1>7 DEF Choose
  <2>2. \/ who \in confirmed /\ AfterSignUpConfirmationPoll(who, b, others)
        \/ OpenConfirm(who, b, others)
    BY <1>4, <2>1 DEF AfterSignUp
  <2> HIDE DEF b
  <2> QED BY <1>1, <1>2, <1>3, <1>4, <1>5, <2>2, GoOnOK
<1> QED BY <1>6, <1>7

-----------------------------------------------------------------------------
(* What a reply, or its absence, leaves quiet.                             *)

LEMMA RepliedOK ==
    ASSUME SignUpInv, NEW w \in Uid, NEW reply, reply = "verified" => w \in confirmed,
           confirmed \subseteq confirmed',
           account' = [account EXCEPT ![w] = Updated(account[w], reply)]
    PROVE  /\ account' \in [Uid -> Account]
           /\ AccountsKept
<1> DEFINE a == Updated(account[w], reply)
<1>1. account \in [Uid -> Account] BY DEF SignUpInv, SignUpTypeOK
<1>2. /\ a \in Account /\ a.keys = account[w].keys /\ a.chosen = account[w].chosen
      /\ a.verified => account[w].verified \/ reply = "verified"
  BY <1>1, UpdatedOK
<1>3. account' = [account EXCEPT ![w] = a] OBVIOUS
<1> HIDE DEF a
<1> QED BY <1>1, <1>2, <1>3 DEF SignUpInv, Confirmed, AccountsKept

LEMMA AccountsKeptOK ==
    ASSUME SignUpInv, account' = account, confirmed \subseteq confirmed'
    PROVE  /\ account' \in [Uid -> Account]
           /\ AccountsKept
  BY DEF SignUpInv, SignUpTypeOK, Confirmed, AccountsKept

\* Requests that end, and new ones that are no submits.
LEMMA RequestsOK ==
    ASSUME SignUpInv, UNCHANGED signUps, confirmed \subseteq confirmed',
           \A r \in calls' :
             r \in calls \/ (/\ r \in Call /\ r.uid <= signUps
                            /\ r.kind # "fetch" /\ r.reply # "verified")
    PROVE  /\ calls' \subseteq Call
           /\ RequestsKept
  BY DEF SignUpInv, SignUpTypeOK, Named, Confirmed, Notices, RequestsKept

\* The view shown stays, or gives way to sign up; its poll does what it likes.
ViewStays ==
    /\ UNCHANGED <<screen, who>> \/ (screen' = "signup" /\ who' \in Uid /\ who' <= signUps)
    /\ waiting' \in BOOLEAN /\ gaveUp' \in BOOLEAN /\ timers' \subseteq {"poll", "retry"}
    /\ timers' # {} => screen' \in Polling

LEMMA QuietStepOK ==
    ASSUME SignUpInv, UNCHANGED <<signUps, broker>>, ViewStays,
           registered' \subseteq Uid, sessions' \subseteq Uid,
           confirmed \subseteq confirmed', confirmed' \subseteq Uid,
           failures' \in 0..MaxFailures,
           account' \in [Uid -> Account], AccountsKept,
           calls' \subseteq Call, RequestsKept
    PROVE  SignUpInv'
<1>1. UNCHANGED <<signUps, loginUid, logins>> BY DEF broker
<1>2. SignUpTypeOK'
  <2>1. SignUpTypeOK BY DEF SignUpInv
  <2>2. CASE UNCHANGED <<screen, who>> BY <1>1, <2>1, <2>2 DEF SignUpTypeOK, ViewStays
  <2>3. CASE screen' = "signup" /\ who' \in Uid /\ who' <= signUps
    BY <1>1, <2>1, <2>3 DEF SignUpTypeOK, ViewStays, Screen
  <2> QED BY <2>2, <2>3 DEF ViewStays
<1>3. UNCHANGED <<screen, who>> \/ screen' = "signup" BY DEF ViewStays
<1>4. Quiet BY <1>1, <1>3 DEF Quiet
<1> QED BY <1>2, <1>4, QuietOK

-----------------------------------------------------------------------------
(* The steps.                                                              *)

LEMMA SignUpOK == SignUpInv /\ SignUp => SignUpInv'
<1> SUFFICES ASSUME SignUpInv, SignUp PROVE SignUpInv' OBVIOUS
<1> DEFINE u == signUps + 1
           a == [token |-> TRUE, verified |-> FALSE, chosen |-> FALSE, keys |-> TRUE]
           status == Status(u, "choose", a)
<1>t. SignUpTypeOK /\ Named /\ Confirmed /\ Notices BY DEF SignUpInv
<1>1. u \in Uid /\ u \in 0..MaxSignUps /\ signUps \in Nat
  BY <1>t, ConstantsAssumption DEF SignUp, SignUpTypeOK, Uid
<1>2. a \in Account /\ ~a.verified BY DEF Account
<1>3. /\ signUps' = u /\ account' = [account EXCEPT ![u] = a]
      /\ registered' = registered \cup {u} /\ sessions' = sessions \cup {u}
      /\ screen' = "choose" /\ who' = u /\ waiting' = TRUE /\ timers' = {} /\ gaveUp' = FALSE
      /\ calls' = calls \cup {status}
      /\ UNCHANGED <<loginUid, logins, confirmed, failures>>
  BY DEF SignUp, Open, broker
<1>4. /\ status \in Call /\ status.uid = u /\ status.kind = "status"
      /\ status.reply # "verified"
  BY <1>1, <1>2, AskingOK DEF Polling
<1> HIDE DEF a, status
<1>5. account' \in [Uid -> Account] /\ account'[u] = a
      /\ \A w \in Uid : w # u => account'[w] = account[w]
  BY <1>t, <1>1, <1>2, <1>3 DEF SignUpTypeOK
<1>6. \A w : Told(w)' <=> Told(w) BY <1>3 DEF Told
<1>7. \A w \in Uid : w <= signUps => w # u /\ w <= u BY <1>1 DEF Uid
<1>8. \A r \in calls : r.uid \in Uid /\ r.uid # u /\ r.uid <= u
  BY <1>t, <1>7 DEF SignUpTypeOK, Named, Call
<1>9. ~Told(u) BY <1>t, <1>1, <1>7 DEF Named
<1>10. SignUpTypeOK'
  <2>1. calls' \subseteq Call BY <1>t, <1>3, <1>4 DEF SignUpTypeOK
  <2>2. /\ screen' \in Screen /\ who' \in Uid /\ who' <= signUps' /\ who' # 0
        /\ signUps' \in 0..MaxSignUps
    <3>1. u # 0 /\ u <= u BY <1>1
    <3> HIDE DEF u
    <3> QED BY <1>1, <1>3, <3>1 DEF Screen
  <2>3. waiting' \in BOOLEAN /\ gaveUp' \in BOOLEAN BY <1>3
  <2>4. /\ timers' \subseteq {"poll", "retry"} /\ timers' = {} /\ logins' \in Seq(Login)
        /\ loginUid' \in Uid \cup {0} /\ failures' \in 0..MaxFailures
        /\ registered' \subseteq Uid /\ confirmed' \subseteq Uid /\ sessions' \subseteq Uid
    BY <1>t, <1>1, <1>3 DEF SignUpTypeOK
  <2> HIDE DEF u
  <2> QED BY <1>5, <2>1, <2>2, <2>3, <2>4 DEF SignUpTypeOK
<1>11. Named' BY <1>t, <1>1, <1>3, <1>4, <1>6, <1>7, <1>8 DEF Named
<1>12. Confirmed' BY <1>t, <1>2, <1>3, <1>4, <1>5 DEF Confirmed, OnlyTheConfirmedGoOn
<1>13. Notices'
  <2>1. OneLoginPerAccount' /\ LoginsCarryTheChoice'
    BY <1>t, <1>3 DEF Notices, OneLoginPerAccount, LoginsCarryTheChoice
  <2>2. screen' = "choose" /\ ~Told(who)' BY <1>3, <1>6, <1>9
  <2>3. \A r \in calls' : r.kind = "fetch" => r \in calls BY <1>3, <1>4
  <2>4. \A r \in calls' : r.kind = "fetch" =>
          ~Told(r.uid)' /\ (account'[r.uid].keys => account'[r.uid].chosen)
    BY <1>t, <1>5, <1>6, <1>8, <2>3 DEF Notices
  <2> QED BY <1>t, <2>1, <2>2, <2>3, <2>4 DEF Notices
<1> QED BY <1>10, <1>11, <1>12, <1>13 DEF SignUpInv

LEMMA SubmitOK == SignUpInv /\ Submit => SignUpInv'
<1> SUFFICES ASSUME SignUpInv, Submit PROVE SignUpInv' OBVIOUS
<1>1. who \in Uid /\ account[who] \in Account BY DEF SignUpInv, SignUpTypeOK, Submit
<1>2. account[who].verified => who \in confirmed BY <1>1 DEF SignUpInv, Confirmed
<1> QED BY <1>1, <1>2, ChooseOK DEF Submit

LEMMA ResendOK == SignUpInv /\ Resend => SignUpInv'
<1> SUFFICES ASSUME SignUpInv, Resend PROVE SignUpInv' OBVIOUS
<1>1. who \in Uid /\ who <= signUps BY DEF SignUpInv, SignUpTypeOK, Resend
<1>2. /\ UNCHANGED <<screen, who, waiting, timers, gaveUp, signUps, account, broker, server, failures>>
      /\ calls' = calls \cup {Asking(who, "confirm", "resend")}
  BY DEF Resend, view
<1>3. UNCHANGED <<registered, confirmed, sessions>> BY <1>2 DEF server
<1>4. /\ Asking(who, "confirm", "resend") \in Call
      /\ Asking(who, "confirm", "resend").uid = who
      /\ Asking(who, "confirm", "resend").kind = "resend"
      /\ Asking(who, "confirm", "resend").reply = "none"
  <2>1. [token |-> TRUE, verified |-> FALSE, chosen |-> FALSE, keys |-> TRUE] \in Account
    BY DEF Account
  <2> QED BY <1>1, <2>1, AskingOK DEF Polling
<1>5. \A r \in calls' :
        r \in calls \/ (/\ r \in Call /\ r.uid <= signUps
                       /\ r.kind # "fetch" /\ r.reply # "verified")
  BY <1>1, <1>2, <1>4
<1>6. ViewStays BY <1>2 DEF ViewStays, SignUpInv, SignUpTypeOK
<1>7. /\ registered' \subseteq Uid /\ sessions' \subseteq Uid /\ confirmed' \subseteq Uid
      /\ failures' \in 0..MaxFailures
  BY <1>2, <1>3 DEF SignUpInv, SignUpTypeOK
<1> QED BY <1>2, <1>3, <1>5, <1>6, <1>7, RequestsOK, AccountsKeptOK, QuietStepOK

LEMMA ReloadOK == SignUpInv /\ Reload => SignUpInv'
<1> SUFFICES ASSUME SignUpInv, Reload PROVE SignUpInv' OBVIOUS
<1> DEFINE a == [account[who] EXCEPT !.chosen = FALSE, !.keys = FALSE]
<1>t. SignUpTypeOK /\ Named /\ Confirmed /\ Notices BY DEF SignUpInv
<1>1. who \in Uid /\ who <= signUps BY <1>t DEF SignUpTypeOK, Reload
<1>2. a \in Account /\ (a.verified => who \in confirmed)
  BY <1>t, <1>1 DEF SignUpTypeOK, Account, Confirmed
<1>3. /\ screen' = "signup" /\ who' = who /\ waiting' = FALSE /\ timers' = {} /\ gaveUp' = FALSE
      /\ account' = [account EXCEPT ![who] = a]
      /\ calls' = {} /\ loginUid' = 0
      /\ UNCHANGED <<signUps, logins, registered, confirmed, sessions, failures>>
  BY DEF Reload, Leave, server
<1> HIDE DEF a
<1>4. account' \in [Uid -> Account] /\ account'[who] = a
      /\ \A w \in Uid : w # who => account'[w] = account[w]
  BY <1>t, <1>1, <1>2, <1>3 DEF SignUpTypeOK
<1>5. \A u : Told(u)' <=> Told(u) BY <1>3 DEF Told
<1>6. SignUpTypeOK' BY <1>t, <1>1, <1>3, <1>4 DEF SignUpTypeOK, Screen
<1>7. Named' BY <1>t, <1>3, <1>5 DEF Named
<1>8. Confirmed' BY <1>t, <1>2, <1>3, <1>4 DEF Confirmed, OnlyTheConfirmedGoOn
<1>9. Notices'
  BY <1>t, <1>3 DEF Notices, OneLoginPerAccount, LoginsCarryTheChoice
<1> QED BY <1>6, <1>7, <1>8, <1>9 DEF SignUpInv

LEMMA OpenStoredOK == SignUpInv /\ OpenStored => SignUpInv'
<1> SUFFICES ASSUME SignUpInv, OpenStored PROVE SignUpInv' OBVIOUS
<1> DEFINE a == [account[who] EXCEPT !.token = TRUE, !.verified = FALSE]
<1>1. who \in Uid /\ who <= signUps /\ account[who] \in Account
  BY DEF SignUpInv, SignUpTypeOK, OpenStored
<1>2. a \in Account /\ ~a.keys /\ ~a.verified BY <1>1 DEF Account, OpenStored
<1>3. account' = [account EXCEPT ![who] = a] /\ OpenConfirm(who, a, {})
      /\ UNCHANGED <<signUps, server, failures>>
  BY DEF OpenStored
<1> HIDE DEF a
<1>4. {} \in SUBSET calls OBVIOUS
<1> QED BY <1>1, <1>2, <1>3, <1>4, GoOnOK

LEMMA ServerChangeOK == SignUpInv /\ ServerChange => SignUpInv'
<1> SUFFICES ASSUME SignUpInv, ServerChange PROVE SignUpInv' OBVIOUS
<1>1. UNCHANGED <<screen, who, waiting, timers, gaveUp, signUps, account, calls, broker, failures>>
  BY DEF ServerChange, view
<1>2. /\ registered' \subseteq Uid /\ sessions' \subseteq Uid
      /\ confirmed \subseteq confirmed' /\ confirmed' \subseteq Uid
  BY DEF ServerChange, SignUpInv, SignUpTypeOK
<1>3. ViewStays /\ failures' \in 0..MaxFailures BY <1>1 DEF ViewStays, SignUpInv, SignUpTypeOK
<1>4. \A r \in calls' :
        r \in calls \/ (/\ r \in Call /\ r.uid <= signUps
                       /\ r.kind # "fetch" /\ r.reply # "verified")
  BY <1>1
<1> QED BY <1>1, <1>2, <1>3, <1>4, RequestsOK, AccountsKeptOK, QuietStepOK

LEMMA AnswerOK == ASSUME SignUpInv, NEW r \in calls, ServerAnswer(r) PROVE SignUpInv'
<1> DEFINE heardOf(reply) == [r EXCEPT !.reply = reply]
<1>1. /\ UNCHANGED <<screen, who, waiting, timers, gaveUp, signUps, account, broker>>
      /\ UNCHANGED <<registered, confirmed, sessions>>
  BY DEF ServerAnswer, view, server
<1>2. r \in Call BY DEF SignUpInv, SignUpTypeOK
<1>3. PICK reply \in {"verified", "unverified", "invalid", "failed", "exists", "gone", "ok"} :
        /\ calls' = (calls \ {r}) \cup {heardOf(reply)}
        /\ reply = "verified" => r.uid \in confirmed
  <2>1. CASE calls' = (calls \ {r}) \cup {heardOf(ReplyTo(r))}
    BY <2>1 DEF ReplyTo
  <2>2. CASE calls' = (calls \ {r}) \cup {heardOf("failed")}
    BY <2>2
  <2> QED BY <2>1, <2>2 DEF ServerAnswer
<1> DEFINE q == heardOf(reply)
<1>4. /\ q \in Call /\ q.uid = r.uid /\ q.kind = r.kind /\ q.view = r.view
      /\ q.reply = "verified" => q.uid \in confirmed
      /\ calls' = (calls \ {r}) \cup {q}
  BY <1>2, <1>3 DEF Call
<1> HIDE DEF q, heardOf
<1>5. calls' \subseteq Call BY <1>4 DEF SignUpInv, SignUpTypeOK
<1>6. RequestsKept
  <2>1. ASSUME NEW s \in calls'
        PROVE  /\ s.uid <= signUps
               /\ s.reply = "verified" => s.uid \in confirmed'
               /\ s.kind = "fetch" =>
                    /\ s.view = "choose"
                    /\ \E p \in calls : p.kind = "fetch" /\ p.uid = s.uid
    <3>1. CASE s \in calls BY <1>1, <3>1 DEF SignUpInv, Named, Confirmed
    <3>2. CASE s = q BY <1>1, <1>4, <3>2 DEF SignUpInv, Named
    <3> QED BY <1>4, <3>1, <3>2
  <2>2. \A s, p \in calls' :
          s.kind = "fetch" /\ p.kind = "fetch" /\ s.uid = p.uid => s = p
    BY <1>4 DEF SignUpInv, Notices
  <2> QED BY <2>1, <2>2 DEF RequestsKept
<1>7. failures' \in 0..MaxFailures
  BY ConstantsAssumption DEF ServerAnswer, SignUpInv, SignUpTypeOK
<1>8. ViewStays BY <1>1 DEF ViewStays, SignUpInv, SignUpTypeOK
<1>9. registered' \subseteq Uid /\ sessions' \subseteq Uid /\ confirmed' \subseteq Uid
  BY <1>1 DEF SignUpInv, SignUpTypeOK
<1> QED BY <1>1, <1>5, <1>6, <1>7, <1>8, <1>9, AccountsKeptOK, QuietStepOK

-----------------------------------------------------------------------------
(* Replies.                                                                *)

\* What is true of a request that has its reply.
LEMMA RequestOK ==
    ASSUME SignUpInv, NEW r \in calls
    PROVE  /\ r \in Call /\ r.uid \in Uid /\ r.uid <= signUps
           /\ r.reply = "verified" => r.uid \in confirmed
           /\ account[r.uid] \in Account
           /\ account[r.uid].verified => r.uid \in confirmed
  BY DEF SignUpInv, SignUpTypeOK, Named, Confirmed, Call

\* A reply that shows no other screen than sign up, asks no fetch, and tells
\* nobody.
LEMMA QuietArrivalOK ==
    ASSUME SignUpInv, NEW r \in calls, UNCHANGED <<signUps, server, failures, broker>>,
           ViewStays,
           \/ UNCHANGED account
           \/ account' = [account EXCEPT ![r.uid] = Updated(account[r.uid], r.reply)],
           \A q \in calls' :
             q \in calls \/ (/\ q \in Call /\ q.uid <= signUps
                            /\ q.kind # "fetch" /\ q.reply # "verified")
    PROVE  SignUpInv'
<1>1. UNCHANGED <<registered, confirmed, sessions, failures>> BY DEF server
<1>2. /\ registered' \subseteq Uid /\ sessions' \subseteq Uid /\ confirmed' \subseteq Uid
      /\ confirmed \subseteq confirmed' /\ failures' \in 0..MaxFailures
  BY <1>1 DEF SignUpInv, SignUpTypeOK
<1>3. account' \in [Uid -> Account] /\ AccountsKept
  <2>1. CASE UNCHANGED account BY <1>2, <2>1, AccountsKeptOK
  <2>2. CASE account' = [account EXCEPT ![r.uid] = Updated(account[r.uid], r.reply)]
    BY <1>2, <2>2, RequestOK, RepliedOK
  <2> QED BY <2>1, <2>2
<1>4. calls' \subseteq Call /\ RequestsKept BY <1>2, RequestsOK
<1> QED BY <1>2, <1>3, <1>4, QuietStepOK

LEMMA StatusArrivesOK ==
    ASSUME SignUpInv, NEW r \in calls, StatusArrives(r),
           UNCHANGED <<signUps, server, failures>>
    PROVE  SignUpInv'
<1> DEFINE a == Updated(account[who], r.reply)
           others == calls \ {r}
<1>1. /\ r.uid = who /\ r.view = screen /\ r.kind = "status"
      /\ \/ r.reply = "verified" /\ Verified(a, others)
         \/ account' = [account EXCEPT ![who] = a] /\ UNCHANGED broker
            /\ \/ /\ r.reply = "unverified"
                  /\ timers' = timers \cup {"poll"}
                  /\ calls' = others
                  /\ UNCHANGED <<screen, who, waiting, gaveUp>>
               \/ /\ r.reply = "invalid"
                  /\ calls' = others \cup {Asking(who, screen, "uid")}
                  /\ UNCHANGED view
               \/ StatusFailed(r)
  BY DEF StatusArrives, Live
<1>2. /\ who \in Uid /\ who <= signUps /\ account[who] \in Account
      /\ screen \in Polling
      /\ r.reply = "verified" => who \in confirmed
      /\ account[who].verified => who \in confirmed
  BY <1>1, RequestOK DEF Call
<1>3. /\ a \in Account /\ a.keys = account[who].keys
      /\ a.verified => who \in confirmed
  BY <1>2, UpdatedOK
<1>4. others \in SUBSET calls OBVIOUS
<1>5. CASE r.reply = "verified" /\ screen = "confirm" /\ Verified(a, others)
  <2>1. account' = [account EXCEPT ![who] = a] /\ AfterSignUpConfirmationPoll(who, a, others)
    BY <1>5 DEF Verified
  <2> HIDE DEF a, others
  <2>2. a.keys => loginUid = who BY <1>3, <1>5 DEF SignUpInv, Notices
  <2>3. \A q \in others : q.kind = "fetch" => q.uid # who
    BY <1>4, <1>5 DEF SignUpInv, Notices, Fetch
  <2> QED BY <1>2, <1>3, <1>4, <1>5, <2>1, <2>2, <2>3, GoOnOK
<1>6. CASE r.reply = "verified" /\ screen = "choose" /\ ~Submitting /\ Verified(a, others)
  <2>1. Choose(a, others) BY <1>6 DEF Verified
  <2> HIDE DEF a, others
  <2> QED BY <1>3, <1>4, <1>6, <2>1, ChooseOK
<1>7. CASE r.reply = "verified" /\ screen = "choose" /\ Submitting /\ Verified(a, others)
  <2>1. /\ account' = [account EXCEPT ![who] = a] /\ calls' = others
        /\ waiting' = FALSE /\ timers' = timers \ {"poll"}
        /\ UNCHANGED <<screen, who, gaveUp, broker>>
    BY <1>7 DEF Verified, StopPolling
  <2>2. ViewStays BY <1>2, <2>1 DEF ViewStays, SignUpInv, SignUpTypeOK
  <2> QED BY <1>1, <2>1, <2>2, QuietArrivalOK
<1>8. CASE /\ r.reply = "unverified"
           /\ account' = [account EXCEPT ![who] = a] /\ UNCHANGED broker
           /\ timers' = timers \cup {"poll"} /\ calls' = others
           /\ UNCHANGED <<screen, who, waiting, gaveUp>>
  <2>1. ViewStays BY <1>2, <1>8 DEF ViewStays, SignUpInv, SignUpTypeOK
  <2> QED BY <1>1, <1>8, <2>1, QuietArrivalOK
<1>9. CASE /\ r.reply = "invalid"
           /\ account' = [account EXCEPT ![who] = a] /\ UNCHANGED broker
           /\ calls' = others \cup {Asking(who, screen, "uid")} /\ UNCHANGED view
  <2>1. ViewStays BY <1>9 DEF ViewStays, view, SignUpInv, SignUpTypeOK
  <2>2. /\ Asking(who, screen, "uid") \in Call /\ Asking(who, screen, "uid").uid = who
        /\ Asking(who, screen, "uid").kind = "uid"
        /\ Asking(who, screen, "uid").reply = "none"
    BY <1>2, AskingOK
  <2>3. \A q \in calls' :
          q \in calls \/ (/\ q \in Call /\ q.uid <= signUps
                         /\ q.kind # "fetch" /\ q.reply # "verified")
    BY <1>2, <1>9, <2>2
  <2> QED BY <1>1, <1>9, <2>1, <2>3, QuietArrivalOK
<1>10. CASE account' = [account EXCEPT ![who] = a] /\ UNCHANGED broker /\ StatusFailed(r)
  <2>1. ViewStays /\ calls' = others
    BY <1>2, <1>10 DEF StatusFailed, ViewStays, SignUpInv, SignUpTypeOK
  <2> QED BY <1>1, <1>10, <2>1, QuietArrivalOK
<1> QED BY <1>1, <1>5, <1>6, <1>7, <1>8, <1>9, <1>10 DEF Verified

LEMMA FetchArrivesOK ==
    ASSUME SignUpInv, NEW r \in calls, FetchArrives(r),
           UNCHANGED <<signUps, server, failures>>
    PROVE  SignUpInv'
<1> DEFINE a == Updated(account[r.uid], r.reply)
           others == calls \ {r}
<1>1. /\ r.kind = "fetch" /\ account' = [account EXCEPT ![r.uid] = a]
      /\ AfterSignUp(r.uid, a, others)
  BY DEF FetchArrives
<1>2. /\ r.uid \in Uid /\ r.uid <= signUps /\ account[r.uid] \in Account
      /\ r.reply = "verified" => r.uid \in confirmed
      /\ account[r.uid].verified => r.uid \in confirmed
  BY RequestOK
<1>3. /\ a \in Account /\ a.keys = account[r.uid].keys /\ a.chosen = account[r.uid].chosen
      /\ a.verified => r.uid \in confirmed
  BY <1>2, UpdatedOK
<1>4. others \in SUBSET calls OBVIOUS
<1>5. \A q \in others : q.kind = "fetch" => q.uid # r.uid
  BY <1>1 DEF SignUpInv, Notices
<1> HIDE DEF a, others
<1>6. ~Told(r.uid) /\ (a.keys => a.chosen) BY <1>1, <1>3 DEF SignUpInv, Notices
<1>7. \/ r.uid \in confirmed /\ AfterSignUpConfirmationPoll(r.uid, a, others)
      \/ OpenConfirm(r.uid, a, others)
  BY <1>1, <1>3 DEF AfterSignUp
<1> QED BY <1>1, <1>2, <1>3, <1>4, <1>5, <1>6, <1>7, GoOnOK

LEMMA ArriveOK == ASSUME SignUpInv, NEW r \in calls, Arrive(r) PROVE SignUpInv'
<1>1. UNCHANGED <<signUps, server, failures>> BY DEF Arrive
<1>2. r.uid \in Uid /\ r.uid <= signUps BY RequestOK
<1>3. CASE StatusArrives(r) BY <1>1, <1>3, StatusArrivesOK
<1>4. CASE LateStatusArrives(r)
  <2>1. /\ account' = [account EXCEPT ![r.uid] = Updated(account[r.uid], r.reply)]
        /\ calls' = calls \ {r} /\ UNCHANGED <<view, broker>>
    BY <1>4 DEF LateStatusArrives
  <2>2. ViewStays BY <2>1 DEF ViewStays, view, SignUpInv, SignUpTypeOK
  <2> QED BY <1>1, <2>1, <2>2, QuietArrivalOK
<1>5. CASE UidArrives(r)
  <2>1. calls' = calls \ {r} /\ UNCHANGED <<account, broker>>
    BY <1>5 DEF UidArrives
  <2>2. ViewStays
    <3>1. CASE Live(r) /\ Leave(who, "signup")
      BY <1>2, <3>1 DEF Live, Leave, ViewStays
    <3>2. CASE StopPolling /\ gaveUp' = TRUE /\ UNCHANGED <<screen, who>>
      BY <3>2 DEF StopPolling, ViewStays, SignUpInv, SignUpTypeOK
    <3>3. CASE UNCHANGED view BY <3>3 DEF ViewStays, view, SignUpInv, SignUpTypeOK
    <3> QED BY <1>5, <3>1, <3>2, <3>3 DEF UidArrives
  <2> QED BY <1>1, <2>1, <2>2, QuietArrivalOK
<1>6. CASE FetchArrives(r) BY <1>1, <1>6, FetchArrivesOK
<1>7. CASE ResendArrives(r)
  <2>1. calls' = calls \ {r} /\ UNCHANGED <<account, broker>>
    BY <1>7 DEF ResendArrives
  <2>2. ViewStays
    <3>1. CASE Leave(r.uid, "signup") BY <1>1, <1>2, <3>1 DEF Leave, ViewStays
    <3>2. CASE UNCHANGED view BY <3>2 DEF ViewStays, view, SignUpInv, SignUpTypeOK
    <3> QED BY <1>7, <3>1, <3>2 DEF ResendArrives
  <2> QED BY <1>1, <2>1, <2>2, QuietArrivalOK
<1> QED BY <1>3, <1>4, <1>5, <1>6, <1>7 DEF Arrive

\* A timer that fires asks for the account of the screen that set it.
LEMMA TimerOK ==
    ASSUME SignUpInv, timers # {}, ViewStays, UNCHANGED <<signUps, account, broker, server, failures>>,
           \/ UNCHANGED calls
           \/ calls' = calls \cup {Status(who, screen, account[who])}
    PROVE  SignUpInv'
<1> DEFINE status == Status(who, screen, account[who])
<1>1. /\ who \in Uid /\ who <= signUps /\ account[who] \in Account
      /\ screen \in Polling
  BY DEF SignUpInv, SignUpTypeOK, Polling
<1>2. /\ status \in Call /\ status.uid = who /\ status.kind = "status"
      /\ status.reply # "verified"
  BY <1>1, AskingOK
<1>3. \A q \in calls' : q \in calls \/ q = status OBVIOUS
<1>4. UNCHANGED <<registered, confirmed, sessions, failures>> BY DEF server
<1>5. /\ registered' \subseteq Uid /\ sessions' \subseteq Uid /\ confirmed' \subseteq Uid
      /\ confirmed \subseteq confirmed' /\ failures' \in 0..MaxFailures
  BY <1>4 DEF SignUpInv, SignUpTypeOK
<1> HIDE DEF status
<1>6. calls' \subseteq Call /\ RequestsKept BY <1>1, <1>2, <1>3, <1>5, RequestsOK
<1> QED BY <1>5, <1>6, AccountsKeptOK, QuietStepOK

LEMMA SignUpStepOK == SignUpInv /\ [SignUpNext]_signUpVars => SignUpInv'
<1> SUFFICES ASSUME SignUpInv, [SignUpNext]_signUpVars PROVE SignUpInv' OBVIOUS
<1>1. CASE PollAgain
  <2>1. ViewStays /\ timers # {} BY <1>1 DEF PollAgain, ViewStays, SignUpInv, SignUpTypeOK
  <2> QED BY <1>1, <2>1, TimerOK DEF PollAgain
<1>2. CASE StartAgain
  <2>1. ViewStays /\ timers # {} BY <1>2 DEF StartAgain, ViewStays, SignUpInv, SignUpTypeOK
  <2> QED BY <1>2, <2>1, TimerOK DEF StartAgain
<1>3. CASE UNCHANGED signUpVars
  BY <1>3 DEF signUpVars, SignUpInv, SignUpTypeOK, Named, Confirmed, Notices, Told, Fetch,
              OneLoginPerAccount, LoginsCarryTheChoice, OnlyTheConfirmedGoOn
<1> QED
  BY <1>1, <1>2, <1>3, SignUpOK, SubmitOK, ResendOK, ReloadOK, OpenStoredOK,
     ServerChangeOK, AnswerOK, ArriveOK DEF SignUpNext

-----------------------------------------------------------------------------
(* What the browser has heard when the last screen is shown: the uid that  *)
(* is remembered was told of, so a notice that is left out for it was sent *)
(* before; and an account that is shown the last screen gets nothing back. *)

Heard == (loginUid # 0 => Told(loginUid)) /\ BrowserIsTold

\* A step that tells nobody: what is shown is what was shown, of an account
\* that got nothing back, or it is not the last screen.
Silent ==
    /\ UNCHANGED logins /\ loginUid' \in {loginUid, 0}
    /\ \/ screen' # "next"
       \/ /\ UNCHANGED <<screen, who>>
          /\ account'[who].keys => account[who].keys
          /\ account'[who].token => account[who].token

\* A step that goes on with the account u, as a.
GoesOn(u, a) ==
    /\ u \in Uid /\ account' = [account EXCEPT ![u] = a]
    /\ \E others : AfterSignUpConfirmationPoll(u, a, others) \/ OpenConfirm(u, a, others)

LEMMA SilentHeard == Heard /\ Silent => Heard'
  BY DEF Heard, Silent, Told, BrowserIsTold

LEMMA GoesOnHeard ==
    ASSUME SignUpInv, Heard, NEW u, NEW a, GoesOn(u, a)
    PROVE  Heard'
<1>1. logins \in Seq(Login) /\ account \in [Uid -> Account] /\ u \in Uid /\ u # 0
  BY DEF SignUpInv, SignUpTypeOK, GoesOn, Uid
<1>2. account'[u] = a BY <1>1 DEF GoesOn
<1>3. CASE NotifyRelierOfLogin(u, a)
  <2>1. CASE a.token /\ a.keys /\ u # loginUid
    <3>1. /\ loginUid' = u
          /\ logins' = Append(logins, [uid |-> u, chosen |-> a.chosen])
      BY <1>3, <2>1 DEF NotifyRelierOfLogin
    <3>2. Len(logins) + 1 \in DOMAIN logins' /\ logins'[Len(logins) + 1].uid = u
      BY <1>1, <3>1
    <3>3. Told(u)' BY <3>2 DEF Told
    <3>4. who' = u BY DEF GoesOn, AfterSignUpConfirmationPoll, OpenConfirm, Leave, Open
    <3> QED BY <3>1, <3>3, <3>4 DEF Heard, BrowserIsTold, Told
  <2>2. CASE ~(a.token /\ a.keys /\ u # loginUid)
    <3>1. UNCHANGED <<loginUid, logins>> BY <1>3, <2>2 DEF NotifyRelierOfLogin, broker
    <3>2. who' = u BY DEF GoesOn, AfterSignUpConfirmationPoll, OpenConfirm, Leave, Open
    <3> QED BY <1>1, <1>2, <2>2, <3>1, <3>2 DEF Heard, BrowserIsTold, Told
  <2> QED BY <2>1, <2>2
<1>4. CASE ~NotifyRelierOfLogin(u, a)
  <2>1. UNCHANGED <<loginUid, logins>> /\ screen' = "signup"
    BY <1>4 DEF GoesOn, AfterSignUpConfirmationPoll, OpenConfirm, Leave, broker
  <2> QED BY <2>1 DEF Heard, BrowserIsTold, Told
<1> QED BY <1>3, <1>4

\* A choice is silent as long as its submit is under way.
LEMMA ChooseSpeaks ==
    ASSUME SignUpInv, screen = "choose", NEW a, NEW others, Choose(a, others)
    PROVE  Silent \/ \E b : GoesOn(who, b)
<1> DEFINE b == [a EXCEPT !.chosen = TRUE]
<1>1. who \in Uid BY DEF SignUpInv, SignUpTypeOK
<1>2. CASE NeedsFetch(b) BY <1>2 DEF Choose, Silent, view, broker
<1>3. CASE ~NeedsFetch(b)
  <2>1. account' = [account EXCEPT ![who] = b] /\ AfterSignUp(who, b, others)
    BY <1>3 DEF Choose
  <2> HIDE DEF b
  <2> QED BY <1>1, <2>1 DEF AfterSignUp, GoesOn
<1> QED BY <1>2, <1>3

\* What a reply says never gives an account its token or its keys back.
LEMMA UpdatedGivesNothing ==
    ASSUME NEW a \in Account, NEW reply
    PROVE  /\ Updated(a, reply).keys => a.keys
           /\ Updated(a, reply).token => a.token
  BY DEF Updated, Account

LEMMA ArriveSpeaks ==
    ASSUME SignUpInv, NEW r \in calls, Arrive(r)
    PROVE  Silent \/ \E u, a : GoesOn(u, a)
<1>t. /\ r.uid \in Uid /\ r.view \in Polling
      /\ account \in [Uid -> Account] /\ who \in Uid \cup {0} /\ (who = 0 => screen = "signup")
  BY DEF SignUpInv, SignUpTypeOK, Call
<1>1. CASE StatusArrives(r)
  <2> DEFINE a == Updated(account[who], r.reply)
             others == calls \ {r}
  <2>1. screen \in Polling BY <1>t, <1>1 DEF StatusArrives, Live
  <2>2. CASE r.reply = "verified" /\ Verified(a, others)
    <3>1. CASE screen = "confirm" /\ account' = [account EXCEPT ![who] = a]
               /\ AfterSignUpConfirmationPoll(who, a, others)
      <4> HIDE DEF a, others
      <4>1. who \in Uid BY <1>t, <3>1
      <4> QED BY <3>1, <4>1 DEF GoesOn
    <3>2. CASE screen = "choose" /\ Choose(a, others) BY <3>2, ChooseSpeaks
    <3>3. CASE StopPolling /\ UNCHANGED <<screen, who, gaveUp, broker>>
      BY <2>1, <3>3 DEF Silent, broker, Polling
    <3> QED BY <2>2, <3>1, <3>2, <3>3 DEF Verified
  <2>3. CASE UNCHANGED <<screen, who, broker>> BY <2>1, <2>3 DEF Silent, broker, Polling
  <2> QED BY <1>1, <2>2, <2>3 DEF StatusArrives, StatusFailed, view
<1>2. CASE LateStatusArrives(r)
  <2> DEFINE a == Updated(account[r.uid], r.reply)
  <2>1. /\ account' = [account EXCEPT ![r.uid] = a]
        /\ UNCHANGED <<screen, who, loginUid, logins>>
    BY <1>2 DEF LateStatusArrives, view, broker
  <2>2. (a.keys => account[r.uid].keys) /\ (a.token => account[r.uid].token)
    BY <1>t, UpdatedGivesNothing
  <2> HIDE DEF a
  <2>3. CASE screen = "signup" BY <2>1, <2>3 DEF Silent
  <2>4. CASE who \in Uid
    <3>1. account'[who] = IF who = r.uid THEN a ELSE account[who] BY <1>t, <2>1, <2>4
    <3> QED BY <2>1, <2>2, <3>1 DEF Silent
  <2> QED BY <1>t, <2>3, <2>4
<1>3. CASE UidArrives(r)
  BY <1>3 DEF UidArrives, Leave, Silent, view, broker
<1>4. CASE FetchArrives(r)
  <2> DEFINE a == Updated(account[r.uid], r.reply)
  <2>1. account' = [account EXCEPT ![r.uid] = a] /\ AfterSignUp(r.uid, a, calls \ {r})
    BY <1>4 DEF FetchArrives
  <2> HIDE DEF a
  <2> QED BY <1>t, <2>1 DEF AfterSignUp, GoesOn
<1>5. CASE ResendArrives(r)
  BY <1>5 DEF ResendArrives, Leave, Silent, view, broker
<1> QED BY <1>1, <1>2, <1>3, <1>4, <1>5 DEF Arrive

LEMMA HeardStep == SignUpInv /\ Heard /\ [SignUpNext]_signUpVars => Heard'
<1> SUFFICES ASSUME SignUpInv, Heard, [SignUpNext]_signUpVars PROVE Heard' OBVIOUS
<1>1. CASE SignUp BY <1>1, SilentHeard DEF SignUp, Open, Silent, broker
<1>2. CASE Submit BY <1>2, ChooseSpeaks, SilentHeard, GoesOnHeard DEF Submit
<1>3. CASE Resend BY <1>3, SilentHeard DEF Resend, Silent, view, broker
<1>4. CASE Reload BY <1>4, SilentHeard DEF Reload, Leave, Silent
<1>5. CASE OpenStored
  <2> DEFINE a == [account[who] EXCEPT !.token = TRUE, !.verified = FALSE]
  <2>1. who \in Uid BY <1>5 DEF OpenStored, SignUpInv, SignUpTypeOK
  <2>2. account' = [account EXCEPT ![who] = a] /\ OpenConfirm(who, a, {})
    BY <1>5 DEF OpenStored
  <2> HIDE DEF a
  <2>3. GoesOn(who, a) BY <2>1, <2>2 DEF GoesOn
  <2> QED BY <2>3, GoesOnHeard
<1>6. CASE ServerChange BY <1>6, SilentHeard DEF ServerChange, Silent, view, broker
<1>7. ASSUME NEW r \in calls, ServerAnswer(r) PROVE Heard'
  BY <1>7, SilentHeard DEF ServerAnswer, Silent, view, broker
<1>8. ASSUME NEW r \in calls, Arrive(r) PROVE Heard'
  BY <1>8, ArriveSpeaks, SilentHeard, GoesOnHeard
<1>9. CASE PollAgain BY <1>9, SilentHeard DEF PollAgain, Silent, broker
<1>10. CASE StartAgain BY <1>10, SilentHeard DEF StartAgain, Silent, broker
<1>11. CASE UNCHANGED signUpVars BY <1>11, SilentHeard DEF signUpVars, Silent
<1> QED
  BY <1>1, <1>2, <1>3, <1>4, <1>5, <1>6, <1>7, <1>8, <1>9, <1>10, <1>11 DEF SignUpNext

-----------------------------------------------------------------------------
(* One task at a time.  What is asked for the screen shown is told apart   *)
(* from what an earlier screen asked by the account and the view of the    *)
(* request: a screen that waits for the email is not shown twice for one   *)
(* account, unless the page was loaded anew in between.                    *)

Task(r) == Live(r) /\ r.kind \in {"status", "uid"}
Tasks   == {r \in calls : Task(r)}

OneTask ==
    /\ waiting /\ "poll" \in timers => Tasks = {}
    /\ Tasks = {} \/ \E r \in Tasks : Tasks = {r}
    /\ ~waiting => Tasks = {} /\ "poll" \notin timers

ReplyFits(r) ==
    /\ r.kind = "status" => r.reply \in {"none", "verified", "unverified", "invalid", "failed"}
    /\ r.kind = "uid" => r.reply \in {"none", "exists", "gone", "failed"}

\* The screen that waits comes after the submit, and after the choice.
ConfirmIsLast ==
    /\ \A r, q \in calls : r.view = "confirm" /\ q.kind = "fetch" => q.uid # r.uid
    /\ screen = "choose" => \A r \in calls : r.view = "confirm" => r.uid # who

Polls == OneTask /\ (\A r \in calls : ReplyFits(r)) /\ ConfirmIsLast

\* The poll goes on as it should, and does not fall silent.
Quieter == waiting /\ "poll" \notin timers /\ Tasks = {}
PollGoesOn == Polls' /\ (Quieter' => Quieter)

LEMMA AskingFits ==
    ASSUME NEW u, NEW v, NEW kind \in {"status", "uid", "fetch", "resend"}
    PROVE  /\ ReplyFits(Asking(u, v, kind)) /\ Asking(u, v, kind).kind = kind
           /\ Asking(u, v, kind).view = v /\ Asking(u, v, kind).uid = u
  BY DEF ReplyFits, Asking

LEMMA StatusFits ==
    ASSUME NEW u, NEW v, NEW a
    PROVE  /\ ReplyFits(Status(u, v, a)) /\ Status(u, v, a).kind = "status"
           /\ Status(u, v, a).view = v /\ Status(u, v, a).uid = u
  BY DEF ReplyFits, Asking, Status

LEMMA OneTaskCounts ==
    ASSUME OneTask PROVE PollHasOneTask
  BY DEF OneTask, Tasks, Task, PollTasks, PollHasOneTask

\* A view that does not poll takes over.
LEMMA LeavesPolls ==
    ASSUME SignUpInv, Polls, NEW u, NEW s \in {"signup", "next"}, Leave(u, s), calls' \subseteq calls
    PROVE  PollGoesOn
<1>1. \A r \in calls : r.view \in Polling BY DEF SignUpInv, SignUpTypeOK, Call
<1>2. screen' = s /\ waiting' = FALSE /\ timers' = {} BY DEF Leave
<1>3. Tasks' = {} BY <1>1, <1>2 DEF Tasks, Task, Live, Polling
<1> QED BY <1>2, <1>3 DEF Polls, OneTask, ReplyFits, ConfirmIsLast, Quieter, PollGoesOn

\* A view that polls takes over, and nothing is asked for it yet.
LEMMA OpensPolls ==
    ASSUME Polls, NEW u, NEW v \in Polling, NEW a, NEW others \in SUBSET calls,
           Open(u, v, a, others),
           \A r \in others : r.uid = u => r.view # v,
           v = "confirm" => \A r \in others : r.kind = "fetch" => r.uid # u,
           v = "choose" => \A r \in others : r.uid # u
    PROVE  PollGoesOn
<1> DEFINE status == Status(u, v, a)
<1>1. status.view = v /\ status.uid = u /\ status.kind = "status" /\ ReplyFits(status)
  BY StatusFits
<1>2. /\ screen' = v /\ who' = u /\ waiting' = TRUE /\ timers' = {}
      /\ calls' = others \cup {status}
  BY DEF Open
<1> HIDE DEF status
<1>3. Tasks' = {status} BY <1>1, <1>2 DEF Tasks, Task, Live
<1>4. OneTask' BY <1>2, <1>3 DEF OneTask
<1>5. ConfirmIsLast' BY <1>1, <1>2 DEF Polls, ConfirmIsLast, Polling
<1> QED BY <1>1, <1>2, <1>3, <1>4, <1>5 DEF Polls, ReplyFits, Quieter, PollGoesOn

LEMMA GoesOnPolls ==
    ASSUME SignUpInv, Polls, NEW u, NEW a, NEW others \in SUBSET calls,
           \/ AfterSignUpConfirmationPoll(u, a, others)
           \/ /\ OpenConfirm(u, a, others)
              /\ \A r \in others : r.uid = u => r.view # "confirm" /\ r.kind # "fetch"
    PROVE  PollGoesOn
<1>1. CASE AfterSignUpConfirmationPoll(u, a, others)
  BY <1>1, LeavesPolls DEF AfterSignUpConfirmationPoll
<1>2. CASE OpenConfirm(u, a, others) /\ a.token
         /\ \A r \in others : r.uid = u => r.view # "confirm" /\ r.kind # "fetch"
  BY <1>2, OpensPolls DEF OpenConfirm, Polling
<1>3. CASE OpenConfirm(u, a, others) /\ ~a.token
  BY <1>3, LeavesPolls DEF OpenConfirm
<1> QED BY <1>1, <1>2, <1>3

\* The choice is submitted from a screen whose poll goes on, or leaves it.
LEMMA ChoosePolls ==
    ASSUME SignUpInv, Polls, screen = "choose", ~Submitting, NEW a, NEW others \in SUBSET calls,
           Choose(a, others), NeedsFetch([a EXCEPT !.chosen = TRUE]) => others = calls
    PROVE  PollGoesOn
<1> DEFINE b == [a EXCEPT !.chosen = TRUE]
           fetch == Asking(who, "choose", "fetch")
<1>1. \A r \in calls : r.uid = who => r.view # "confirm" /\ r.kind # "fetch"
  BY DEF SignUpInv, Named, Polls, ConfirmIsLast, Submitting, Live
<1>2. CASE NeedsFetch(b)
  <2>1. calls' = calls \cup {fetch} /\ UNCHANGED <<screen, who, waiting, timers>>
    BY <1>2 DEF Choose, view
  <2>2. fetch.kind = "fetch" /\ fetch.uid = who /\ fetch.view = "choose" /\ ReplyFits(fetch)
    BY AskingFits
  <2> HIDE DEF b, fetch
  <2>3. Tasks' = Tasks BY <2>1, <2>2 DEF Tasks, Task, Live
  <2>4. OneTask' BY <2>1, <2>3 DEF Polls, OneTask
  <2>5. ConfirmIsLast' BY <1>1, <2>1, <2>2 DEF Polls, ConfirmIsLast
  <2> QED BY <2>1, <2>2, <2>3, <2>4, <2>5 DEF Polls, ReplyFits, Quieter, PollGoesOn
<1>3. CASE ~NeedsFetch(b)
  <2>1. AfterSignUp(who, b, others) BY <1>3 DEF Choose
  <2> HIDE DEF b
  <2> QED BY <1>1, <2>1, GoesOnPolls DEF AfterSignUp
<1> QED BY <1>2, <1>3

\* Requests that are not for the screen shown come and go as they like.
LEMMA OthersPoll ==
    ASSUME Polls, UNCHANGED <<screen, who, waiting, timers>>,
           \A r \in calls : Task(r) => r \in calls',
           \A r \in calls' : r \in calls \/
               (/\ ~Task(r) /\ ReplyFits(r) /\ r.kind # "fetch"
                /\ \A q \in calls : q.kind = "fetch" => q.uid # r.uid
                /\ screen # "choose")
    PROVE  PollGoesOn
<1>1. Tasks' = Tasks BY DEF Tasks, Task, Live
<1>2. OneTask' BY <1>1 DEF Polls, OneTask
<1>3. ConfirmIsLast' BY DEF Polls, ConfirmIsLast
<1> QED BY <1>1, <1>2, <1>3 DEF Polls, ReplyFits, Quieter, PollGoesOn

LEMMA AnswerPolls ==
    ASSUME SignUpInv, Polls, NEW r \in calls, ServerAnswer(r)
    PROVE  PollGoesOn
<1> DEFINE heardOf(reply) == [r EXCEPT !.reply = reply]
<1>1. UNCHANGED <<screen, who, waiting, timers>> BY DEF ServerAnswer, view
<1>2. r \in Call BY DEF SignUpInv, SignUpTypeOK
<1>3. PICK reply \in {"verified", "unverified", "invalid", "failed", "exists", "gone", "ok"} :
        /\ calls' = (calls \ {r}) \cup {heardOf(reply)}
        /\ r.kind = "uid" => reply \in {"exists", "gone", "failed"}
        /\ r.kind = "status" => reply \in {"verified", "unverified", "invalid", "failed"}
  <2>1. CASE calls' = (calls \ {r}) \cup {heardOf(ReplyTo(r))}
    <3>1. ReplyTo(r) \in {"verified", "unverified", "invalid", "exists", "gone", "ok"}
          /\ (r.kind = "uid" => ReplyTo(r) \in {"exists", "gone"})
          /\ (r.kind = "status" => ReplyTo(r) \in {"verified", "unverified", "invalid"})
      BY DEF ReplyTo
    <3> QED BY <2>1, <3>1
  <2>2. CASE calls' = (calls \ {r}) \cup {heardOf("failed")}
    BY <2>2
  <2> QED BY <2>1, <2>2 DEF ServerAnswer
<1> DEFINE q == heardOf(reply)
<1>4. /\ q.uid = r.uid /\ q.kind = r.kind /\ q.view = r.view /\ ReplyFits(q)
      /\ calls' = (calls \ {r}) \cup {q}
  BY <1>2, <1>3 DEF Call, ReplyFits
<1> HIDE DEF q, heardOf
<1>5. OneTask' /\ (Quieter' => Quieter)
  <2>1. CASE Task(r)
    <3>1. Tasks = {r} BY <2>1 DEF Polls, OneTask, Tasks
    <3>2. Tasks' = {q} BY <1>1, <1>4, <2>1, <3>1 DEF Tasks, Task, Live
    <3> QED BY <1>1, <2>1, <3>1, <3>2 DEF Polls, OneTask, Quieter
  <2>2. CASE ~Task(r)
    <3>1. Tasks' = Tasks BY <1>1, <1>4, <2>2 DEF Tasks, Task, Live
    <3> QED BY <1>1, <3>1 DEF Polls, OneTask, Quieter
  <2> QED BY <2>1, <2>2
<1>6. ConfirmIsLast' BY <1>1, <1>4 DEF Polls, ConfirmIsLast
<1> QED BY <1>4, <1>5, <1>6 DEF Polls, ReplyFits, PollGoesOn

\* The task of a poll that waits: a reply for the screen is the one awaited.
LEMMA TheTask ==
    ASSUME Polls, NEW r \in calls, Task(r)
    PROVE  waiting /\ "poll" \notin timers /\ Tasks = {r}
  BY DEF Polls, OneTask, Tasks

LEMMA StatusArrivesPolls ==
    ASSUME SignUpInv, Polls, NEW r \in calls, StatusArrives(r)
    PROVE  PollGoesOn
<1> DEFINE a == Updated(account[who], r.reply)
           others == calls \ {r}
           uid == Asking(who, screen, "uid")
<1>1. /\ waiting /\ "poll" \notin timers /\ Tasks = {r}
      /\ r.uid = who /\ r.view = screen /\ r.kind = "status"
  BY TheTask DEF StatusArrives, Task, Live
<1>2. \A q \in others : ~Task(q) BY <1>1 DEF Tasks
<1>3. screen \in Polling /\ who \in Uid /\ account[who] \in Account
  BY <1>1 DEF SignUpInv, SignUpTypeOK, Call
<1>4. CASE r.reply = "verified" /\ Verified(a, others)
  <2>1. a.verified BY <1>3, <1>4 DEF Updated, Account
  <2>2. CASE AfterSignUpConfirmationPoll(who, a, others)
    <3> HIDE DEF a
    <3> QED BY <2>2, GoesOnPolls
  <2>3. CASE screen = "choose" /\ ~Submitting /\ Choose(a, others)
    <3>1. ~NeedsFetch([a EXCEPT !.chosen = TRUE])
      <4>1. a \in Account BY <1>3, UpdatedOK
      <4> HIDE DEF a
      <4> QED BY <2>1, <4>1 DEF NeedsFetch, Account
    <3> HIDE DEF a
    <3> QED BY <2>3, <3>1, ChoosePolls
  <2>4. CASE calls' = others /\ StopPolling /\ UNCHANGED <<screen, who>>
    <3>1. Tasks' = {} BY <1>2, <2>4 DEF Tasks, Task, Live
    <3>2. OneTask' /\ ~Quieter' BY <2>4, <3>1 DEF OneTask, StopPolling, Quieter
    <3> QED BY <2>4, <3>2 DEF Polls, ConfirmIsLast, ReplyFits, PollGoesOn
  <2> QED BY <1>4, <2>2, <2>3, <2>4 DEF Verified
<1>5. CASE r.reply = "unverified" /\ timers' = timers \cup {"poll"} /\ calls' = others
           /\ UNCHANGED <<screen, who, waiting>>
  <2>1. Tasks' = {} BY <1>2, <1>5 DEF Tasks, Task, Live
  <2>2. OneTask' /\ ~Quieter' BY <1>1, <1>5, <2>1 DEF OneTask, Quieter
  <2> QED BY <1>5, <2>2 DEF Polls, ConfirmIsLast, ReplyFits, PollGoesOn
<1>6. CASE r.reply = "invalid" /\ calls' = others \cup {uid} /\ UNCHANGED view
  <2>1. uid.kind = "uid" /\ uid.uid = who /\ uid.view = screen /\ ReplyFits(uid)
    BY AskingFits
  <2>2. UNCHANGED <<screen, who, waiting, timers>> BY <1>6 DEF view
  <2> HIDE DEF uid
  <2>3. Tasks' = {uid} BY <1>2, <1>6, <2>1, <2>2 DEF Tasks, Task, Live
  <2>4. OneTask' /\ ~Quieter' BY <1>1, <2>2, <2>3 DEF OneTask, Quieter
  <2>5. ConfirmIsLast' BY <1>1, <1>6, <2>1, <2>2 DEF Polls, ConfirmIsLast
  <2> QED BY <1>6, <2>1, <2>4, <2>5 DEF Polls, ReplyFits, PollGoesOn
<1>7. CASE StatusFailed(r)
  <2>1. Tasks' = {} BY <1>2, <1>7 DEF Tasks, Task, Live, StatusFailed
  <2>2. OneTask' /\ ~Quieter'
    BY <1>7, <2>1 DEF OneTask, StatusFailed, Quieter, SignUpInv, SignUpTypeOK
  <2> QED BY <1>7, <2>2 DEF Polls, ConfirmIsLast, ReplyFits, StatusFailed, PollGoesOn
<1> QED BY <1>4, <1>5, <1>6, <1>7 DEF StatusArrives

\* The check of the uid fails, and nobody handles it.
CheckFails(r) == Task(r) /\ r.kind = "uid" /\ r.reply = "failed" /\ calls' = calls \ {r}

LEMMA ArrivePolls ==
    ASSUME SignUpInv, Polls, NEW r \in calls, Arrive(r)
    PROVE  PollGoesOn \/ (Polls' /\ CheckFails(r))
<1>1. CASE StatusArrives(r) BY <1>1, StatusArrivesPolls
<1>2. CASE LateStatusArrives(r)
  <2>1. ~Task(r) BY <1>2, TheTask DEF LateStatusArrives, Task
  <2> QED BY <1>2, <2>1, OthersPoll DEF LateStatusArrives, view
<1>3. CASE UidArrives(r)
  <2>1. CASE Live(r) /\ r.reply = "failed" /\ UNCHANGED view
    <3>1. Tasks = {r} /\ waiting /\ "poll" \notin timers BY <1>3, <2>1, TheTask DEF UidArrives, Task
    <3>2. Tasks' = {} /\ UNCHANGED <<screen, who, waiting, timers>>
      BY <1>3, <2>1, <3>1 DEF UidArrives, Tasks, Task, Live, view
    <3>3. OneTask' BY <3>1, <3>2 DEF OneTask
    <3> QED BY <1>3, <2>1, <3>2, <3>3 DEF UidArrives, Polls, ConfirmIsLast, ReplyFits, CheckFails, Task
  <2>2. CASE Leave(who, "signup") BY <1>3, <2>2, LeavesPolls DEF UidArrives
  <2>3. CASE Live(r) /\ StopPolling /\ UNCHANGED <<screen, who>>
    <3>1. Tasks = {r} BY <1>3, <2>3, TheTask DEF UidArrives, Task
    <3>2. Tasks' = {} BY <1>3, <2>3, <3>1 DEF UidArrives, Tasks, Task, Live
    <3>3. OneTask' /\ ~Quieter' BY <2>3, <3>2 DEF OneTask, StopPolling, Quieter
    <3> QED BY <1>3, <2>3, <3>3 DEF UidArrives, Polls, ConfirmIsLast, ReplyFits, PollGoesOn
  <2>4. CASE ~Live(r) /\ UNCHANGED view
    BY <1>3, <2>4, OthersPoll DEF UidArrives, view, Task
  <2> QED BY <1>3, <2>1, <2>2, <2>3, <2>4 DEF UidArrives
<1>4. CASE FetchArrives(r)
  <2> DEFINE a == Updated(account[r.uid], r.reply)
             others == calls \ {r}
  <2>1. r.kind = "fetch" /\ AfterSignUp(r.uid, a, others) BY <1>4 DEF FetchArrives
  <2> HIDE DEF a
  <2>2. \A q \in others : q.uid = r.uid => q.view # "confirm" /\ q.kind # "fetch"
    BY <2>1 DEF SignUpInv, Notices, Polls, ConfirmIsLast
  <2> QED BY <2>1, <2>2, GoesOnPolls DEF AfterSignUp
<1>5. CASE ResendArrives(r)
  <2>1. CASE Leave(r.uid, "signup") BY <1>5, <2>1, LeavesPolls DEF ResendArrives
  <2>2. CASE UNCHANGED view
    BY <1>5, <2>2, OthersPoll DEF ResendArrives, view, Task
  <2> QED BY <1>5, <2>1, <2>2 DEF ResendArrives
<1> QED BY <1>1, <1>2, <1>3, <1>4, <1>5 DEF Arrive

\* A timer asks once, for a poll that asks nothing.
LEMMA TimerPolls ==
    ASSUME Polls, Tasks = {}, UNCHANGED <<screen, who>>, waiting' = TRUE, "poll" \notin timers',
           calls' = calls \cup {Status(who, screen, account[who])},
           screen = "confirm" => \A q \in calls : q.kind = "fetch" => q.uid # who
    PROVE  PollGoesOn
<1> DEFINE status == Status(who, screen, account[who])
<1>1. status.view = screen /\ status.uid = who /\ status.kind = "status" /\ ReplyFits(status)
  BY StatusFits
<1> HIDE DEF status
<1>2. calls' = calls \cup {status} BY DEF status
<1>3. Tasks' = {status} BY <1>1, <1>2 DEF Tasks, Task, Live
<1>4. OneTask' BY <1>3 DEF OneTask
<1>5. ConfirmIsLast' BY <1>1, <1>2 DEF Polls, ConfirmIsLast
<1> QED BY <1>1, <1>2, <1>3, <1>4, <1>5 DEF Polls, ReplyFits, Quieter, PollGoesOn

LEMMA PollsStep ==
    ASSUME SignUpInv, Polls, [SignUpNext]_signUpVars
    PROVE  PollGoesOn \/ (Polls' /\ \E r \in calls : CheckFails(r))
<1>c. screen = "confirm" => \A q \in calls : q.kind = "fetch" => q.uid # who
  BY DEF SignUpInv, Notices, Fetch
<1>1. CASE SignUp
  <2> DEFINE u == signUps + 1
             a == [token |-> TRUE, verified |-> FALSE, chosen |-> FALSE, keys |-> TRUE]
  <2>1. Open(u, "choose", a, calls) BY <1>1 DEF SignUp
  <2>2. \A r \in calls : r.uid # u
    <3>1. signUps \in Nat /\ \A r \in calls : r.uid \in Nat /\ r.uid <= signUps
      BY ConstantsAssumption DEF SignUpInv, SignUpTypeOK, Named, Call, Uid
    <3> QED BY <3>1
  <2> HIDE DEF u, a
  <2> QED BY <2>1, <2>2, OpensPolls DEF Polling
<1>2. CASE Submit BY <1>2, ChoosePolls DEF Submit
<1>3. CASE Resend
  <2>1. Asking(who, "confirm", "resend").kind = "resend"
        /\ Asking(who, "confirm", "resend").uid = who
        /\ ReplyFits(Asking(who, "confirm", "resend"))
    BY AskingFits
  <2>2. UNCHANGED <<screen, who, waiting, timers>> BY <1>3 DEF Resend, view
  <2> QED BY <1>3, <1>c, <2>1, <2>2, OthersPoll DEF Resend, Task
<1>4. CASE Reload BY <1>4, LeavesPolls DEF Reload
<1>5. CASE OpenStored
  <2> DEFINE a == [account[who] EXCEPT !.token = TRUE, !.verified = FALSE]
  <2>1. OpenConfirm(who, a, {}) /\ {} \in SUBSET calls BY <1>5 DEF OpenStored
  <2> HIDE DEF a
  <2> QED BY <2>1, GoesOnPolls
<1>6. CASE ServerChange BY <1>6, OthersPoll DEF ServerChange, view
<1>7. ASSUME NEW r \in calls, ServerAnswer(r) PROVE PollGoesOn BY <1>7, AnswerPolls
<1>8. ASSUME NEW r \in calls, Arrive(r) PROVE PollGoesOn \/ (Polls' /\ CheckFails(r)) BY <1>8, ArrivePolls
<1>9. CASE PollAgain
  <2>1. waiting /\ Tasks = {} BY <1>9 DEF PollAgain, Polls, OneTask, SignUpInv, SignUpTypeOK
  <2> QED BY <1>9, <1>c, <2>1, TimerPolls DEF PollAgain, SignUpInv, SignUpTypeOK
<1>10. CASE StartAgain
  <2>1. UNCHANGED <<screen, who>> /\ waiting' = TRUE /\ timers' = timers \ {"retry"}
    BY <1>10 DEF StartAgain
  <2>2. CASE waiting
    <3>1. UNCHANGED <<calls, waiting>> /\ ("poll" \in timers' <=> "poll" \in timers)
      BY <1>10, <2>1, <2>2 DEF StartAgain
    <3>2. Tasks' = Tasks BY <2>1, <3>1 DEF Tasks, Task, Live
    <3>3. OneTask' /\ (Quieter' => Quieter) BY <3>1, <3>2 DEF Polls, OneTask, Quieter
    <3> QED BY <2>1, <3>1, <3>3 DEF Polls, ConfirmIsLast, ReplyFits, PollGoesOn
  <2>3. CASE ~waiting
    <3>1. Tasks = {} /\ "poll" \notin timers' BY <2>1, <2>3 DEF Polls, OneTask
    <3> QED BY <1>10, <1>c, <2>1, <2>3, <3>1, TimerPolls DEF StartAgain
  <2> QED BY <2>2, <2>3
<1>11. CASE UNCHANGED signUpVars BY <1>11, OthersPoll DEF signUpVars
<1> QED
  BY <1>1, <1>2, <1>3, <1>4, <1>5, <1>6, <1>7, <1>8, <1>9, <1>10, <1>11 DEF SignUpNext

-----------------------------------------------------------------------------
\* The screens, the poll, the requests and the messages to the browser keep
\* their types, and a timer belongs to a screen that polls.
THEOREM SignUpTypes == SignUpSpec => []SignUpTypeOK
<1>1. SignUpInv => SignUpTypeOK BY DEF SignUpInv
<1> QED BY <1>1, SignUpInitOK, SignUpStepOK, PTL DEF SignUpSpec

\* The browser is told of a login once, whichever screen notices that the email
\* is confirmed and however often the page is reloaded
\* (FxSyncChannelAuthenticationBroker._notifyRelierOfLogin).
THEOREM ToldOnce == SignUpSpec => []OneLoginPerAccount
<1>1. SignUpInv => OneLoginPerAccount BY DEF SignUpInv, Notices
<1> QED BY <1>1, SignUpInitOK, SignUpStepOK, PTL DEF SignUpSpec

\* It is never told before the user has chosen what to sync
\* (ChooseWhatToSync.submit).
THEOREM ToldOfTheChoice == SignUpSpec => []LoginsCarryTheChoice
<1>1. SignUpInv => LoginsCarryTheChoice BY DEF SignUpInv, Notices
<1> QED BY <1>1, SignUpInitOK, SignUpStepOK, PTL DEF SignUpSpec

\* Stale answers, submits without their view and reloads show the last screen
\* only to a user whose email is confirmed
\* (SessionVerificationPoll._onStatusComplete, AuthBroker.afterSignUp).
THEOREM ConfirmedGoOn == SignUpSpec => []OnlyTheConfirmedGoOn
<1>1. SignUpInv => OnlyTheConfirmedGoOn BY DEF SignUpInv, Confirmed
<1> QED BY <1>1, SignUpInitOK, SignUpStepOK, PTL DEF SignUpSpec

\* Nobody whose browser could be told is shown the last screen before it is, and
\* what it is told has the choice (FxSyncChannelAuthenticationBroker.
\* _notifyRelierOfLogin, afterSignUpConfirmationPoll).
THEOREM BrowserHears == SignUpSpec => []BrowserIsToldOfChoices
<1>1. SignUpInit => Heard BY DEF SignUpInit, Heard, BrowserIsTold
<1>2. SignUpInv /\ Heard => BrowserIsToldOfChoices
  BY DEF SignUpInv, Notices, Heard, BrowserIsToldOfChoices
<1> QED BY <1>1, <1>2, SignUpInitOK, SignUpStepOK, HeardStep, PTL DEF SignUpSpec

\* A poll has one request under way or one timer set and never two chains, one
\* that does not wait has nothing, and it falls silent only when the request
\* that looks whether the account is still there fails
\* (SessionVerificationPoll._poll, checkUidExists).
THEOREM OnePoll == SignUpSpec => []PollHasOneTask /\ SilentByFailedCheck
<1> DEFINE Fails == ~FellSilent /\ FellSilent' =>
             \E r \in PollTasks : r.kind = "uid" /\ r.reply = "failed" /\ calls' = calls \ {r}
<1>1. SignUpInit => Polls
  BY DEF SignUpInit, Polls, OneTask, Tasks, ConfirmIsLast
<1>2. Polls => PollHasOneTask BY OneTaskCounts DEF Polls
<1>3. SignUpInv /\ Polls /\ [SignUpNext]_signUpVars => Polls' BY PollsStep DEF PollGoesOn
<1>4. SignUpInv /\ Polls /\ [SignUpNext]_signUpVars => [Fails]_signUpVars
  <2> SUFFICES ASSUME SignUpInv, Polls, [SignUpNext]_signUpVars PROVE Fails
    OBVIOUS
  <2>1. (Quieter <=> FellSilent) /\ (Quieter' <=> FellSilent')
    BY DEF Quieter, FellSilent, Tasks, Task, PollTasks
  <2>2. CASE PollGoesOn BY <2>1, <2>2 DEF PollGoesOn
  <2>3. CASE \E r \in calls : CheckFails(r) BY <2>3 DEF CheckFails, Task, PollTasks
  <2> QED BY <2>2, <2>3, PollsStep
<1> HIDE DEF Fails
<1>5. SignUpSpec => []PollHasOneTask /\ [][Fails]_signUpVars
  BY <1>1, <1>2, <1>3, <1>4, SignUpInitOK, SignUpStepOK, PTL DEF SignUpSpec
<1> QED BY <1>5 DEF SilentByFailedCheck, Fails

=============================================================================
