------------------------- MODULE PairingSupplicant -------------------------
(***************************************************************************)
(* The page a phone opens to be paired: its state machine                  *)
(* (models/pairing/supplicant-state-machine.js), the client of the pairing *)
(* channel (lib/pairing-channel-client.js), the broker                     *)
(* (models/auth_brokers/pairing/supplicant.js) and its screens.            *)
(*                                                                         *)
(* The machine never stops listening to a state it leaves, so a promise a  *)
(* state started moves the machine even when the state is gone. The        *)
(* promises under way are therefore variables of the machine: jobs[j]      *)
(* counts those of kind j that have not settled.                           *)
(***************************************************************************)
EXTENDS Naturals, Sequences

CONSTANTS
    MaxJobs,        \* how many promises of one kind may be under way
    Failures        \* what may go wrong, "cancel" by a user included

FailureKinds == {"connect", "close", "error", "badCode", "refuse", "browser", "totp", "cancel"}

ASSUME PairingAssumption ==
    /\ MaxJobs \in Nat \ {0}
    /\ Failures \subseteq FailureKinds

VARIABLES
    supp,           \* the state of the supplicant's machine
    page,           \* the screen of the phone
    jobs,           \* promises under way on the phone
    hasCode,        \* the relier holds a code that passed validation
    suppConsent,    \* the user has accepted on the phone
    socket,         \* the pairing channel as the phone sees it
    toSupp,         \* messages on their way to the phone
    toAuth          \* messages on their way to the desktop browser

suppVars == <<supp, page, jobs, hasCode, suppConsent>>
channelVars == <<socket, toSupp, toAuth>>

SuppState == {"WaitForConnectionToChannelServer", "SendOAuthRequest",
              "WaitForAccountMetadata", "WaitForAuthorizations",
              "WaitForSupplicantAuthorize", "WaitForAuthorityAuthorize",
              "SendResultToRelier", "State"}
Page == {"supp", "allow", "wait", "failure", "relier"}

\* A promise is named by what it waits for and the state it leads to.
Job == {"request",              \* send(pair:supp:request)
        "consentToWait",        \* send(pair:supp:authorize), then WaitForAuthorityAuthorize
        "consentToRelier",      \* send(pair:supp:authorize), then SendResultToRelier
        "codeToWait",           \* onAuthAuthorize, then WaitForSupplicantAuthorize
        "codeToRelier",         \* onAuthAuthorize, then SendResultToRelier
        "handOver",             \* sendCodeToRelier, then State
        "redirect"}             \* metrics.flush, then window.location
Sends == {"request", "consentToWait", "consentToRelier"}

SuppInit ==
    /\ supp = "WaitForConnectionToChannelServer"
    /\ page = "supp"
    /\ jobs = [j \in Job |-> 0]
    /\ hasCode = FALSE
    /\ suppConsent = FALSE

ChannelInit ==
    /\ socket = "connecting"
    /\ toSupp = <<>>
    /\ toAuth = <<>>

\* Once the page is redirected nothing of it runs.
Running == page # "relier"

Begin(j) == jobs' = [jobs EXCEPT ![j] = @ + 1]
End(j) == jobs' = [jobs EXCEPT ![j] = @ - 1]
EndAndBegin(j, k) == jobs' = [jobs EXCEPT ![j] = @ - 1, ![k] = @ + 1]

\* createState with a state that navigates: WaitForAuthorizations and
\* WaitForAuthorityAuthorize replace the screen, the others leave it.
ScreenOf(state) ==
    CASE state = "WaitForAuthorizations" -> "allow"
      [] state = "WaitForAuthorityAuthorize" -> "wait"
      [] OTHER -> page
GotoState(state) ==
    /\ supp' = state
    /\ page' = ScreenOf(state)

-----------------------------------------------------------------------------
\* The channel client.

\* open() connects; 'connected' is triggered before its promise returns.
Connected ==
    /\ Running /\ socket = "connecting"
    /\ socket' = "open"
    /\ IF supp = "WaitForConnectionToChannelServer"
       THEN GotoState("SendOAuthRequest") /\ Begin("request")
       ELSE UNCHANGED <<supp, page, jobs>>
    /\ UNCHANGED <<hasCode, suppConsent, toSupp, toAuth>>

\* socketError: every SupplicantState shows the failure screen, none is left.
Fail == page' = IF supp = "State" THEN page ELSE "failure"

ConnectFails ==
    /\ "connect" \in Failures
    /\ Running /\ socket = "connecting"
    /\ socket' = "closed"
    /\ Fail
    /\ UNCHANGED <<supp, jobs, hasCode, suppConsent, toSupp, toAuth>>

\* An 'error' of the socket, or a message that _messageHandler refuses.
SocketError ==
    /\ "error" \in Failures
    /\ Running /\ socket = "open"
    /\ Fail
    /\ UNCHANGED <<supp, jobs, hasCode, suppConsent, channelVars>>

\* socketClosed: two states expect the socket to close and do nothing.
SocketClosed ==
    /\ socket = "open"
    /\ socket' = "closed"
    /\ toSupp' = <<>>
    /\ page' = IF Running /\ supp \notin {"WaitForConnectionToChannelServer",
                                           "SendResultToRelier", "State"}
               THEN "failure" ELSE page
    /\ UNCHANGED <<supp, jobs, hasCode, suppConsent, toAuth>>

-----------------------------------------------------------------------------
\* Messages from the desktop.

Receive(message) ==
    /\ Running /\ socket = "open"
    /\ toSupp # <<>> /\ Head(toSupp) = message
    /\ toSupp' = Tail(toSupp)

\* The listener for the metadata is added when the request has been sent.
ReceiveMetadata ==
    /\ Receive("metadata")
    /\ IF supp = "WaitForAccountMetadata"
       THEN GotoState("WaitForAuthorizations")
       ELSE UNCHANGED <<supp, page>>
    /\ UNCHANGED <<jobs, hasCode, suppConsent, socket, toAuth>>

\* Mutant: the first state with the next state of the second.
ReceiveCodeEarly ==
    /\ Receive("code")
    /\ IF supp \in {"WaitForAuthorizations", "WaitForAuthorityAuthorize"}
       THEN Begin("codeToRelier")
       ELSE UNCHANGED jobs
    /\ UNCHANGED <<supp, page, hasCode, suppConsent, socket, toAuth>>

\* Two states listen for the code; each has its own next state.
ReceiveCode ==
    /\ Receive("code")
    /\ CASE supp = "WaitForAuthorizations" -> Begin("codeToWait")
         [] supp = "WaitForAuthorityAuthorize" -> Begin("codeToRelier")
         [] OTHER -> UNCHANGED jobs
    /\ UNCHANGED <<supp, page, hasCode, suppConsent, socket, toAuth>>

\* validateApprovalData throws; the state triggers an 'error' nobody hears.
ReceiveBadCode ==
    /\ Receive("badCode")
    /\ UNCHANGED <<suppVars, socket, toAuth>>

-----------------------------------------------------------------------------
\* The user of the phone.

\* PairSuppAllowView.submit: the broker triggers pair:supp:authorize.
Approve ==
    /\ page = "allow"
    /\ suppConsent' = TRUE
    /\ CASE supp = "WaitForAuthorizations" ->
                jobs["consentToWait"] < MaxJobs /\ Begin("consentToWait")
         [] supp = "WaitForSupplicantAuthorize" ->
                jobs["consentToRelier"] < MaxJobs /\ Begin("consentToRelier")
         [] OTHER -> UNCHANGED jobs
    /\ UNCHANGED <<supp, page, hasCode, channelVars>>

\* PairSuppAllowView.cancel: the screen changes, the machine is not told.
CancelOnPhone ==
    /\ "cancel" \in Failures
    /\ page = "allow"
    /\ page' = "failure"
    /\ UNCHANGED <<supp, jobs, hasCode, suppConsent, channelVars>>

-----------------------------------------------------------------------------
\* Promises that settle.

Transmit(message) == toAuth' = IF socket = "open" THEN Append(toAuth, message) ELSE toAuth

\* The constructor of SendResultToRelier calls sendCodeToRelier at once.
SendResult(j) == EndAndBegin(j, "handOver") /\ GotoState("SendResultToRelier")

RequestSent ==
    /\ Running /\ jobs["request"] > 0
    /\ End("request")
    /\ Transmit("request")
    /\ supp' = IF supp = "SendOAuthRequest" THEN "WaitForAccountMetadata" ELSE supp
    /\ UNCHANGED <<page, hasCode, suppConsent, socket, toSupp>>

ConsentSentToWait ==
    /\ Running /\ jobs["consentToWait"] > 0
    /\ End("consentToWait")
    /\ Transmit("consent")
    /\ GotoState("WaitForAuthorityAuthorize")
    /\ UNCHANGED <<hasCode, suppConsent, socket, toSupp>>

ConsentSentToRelier ==
    /\ Running /\ jobs["consentToRelier"] > 0
    /\ SendResult("consentToRelier")
    /\ Transmit("consent")
    /\ UNCHANGED <<hasCode, suppConsent, socket, toSupp>>

\* send() rejects on a closed socket and no caller catches it.
SendRejected ==
    /\ Running /\ socket = "closed"
    /\ \E j \in Sends : jobs[j] > 0 /\ End(j)
    /\ UNCHANGED <<supp, page, hasCode, suppConsent, channelVars>>

CodeValidToWait ==
    /\ Running /\ jobs["codeToWait"] > 0
    /\ hasCode' = TRUE
    /\ End("codeToWait")
    /\ GotoState("WaitForSupplicantAuthorize")
    /\ UNCHANGED <<suppConsent, channelVars>>

CodeValidToRelier ==
    /\ Running /\ jobs["codeToRelier"] > 0
    /\ hasCode' = TRUE
    /\ SendResult("codeToRelier")
    /\ UNCHANGED <<suppConsent, channelVars>>

\* sendCodeToRelier starts sendOAuthResultToRelier and does not wait for it.
HandedOver ==
    /\ Running /\ jobs["handOver"] > 0
    /\ EndAndBegin("handOver", "redirect")
    /\ GotoState("State")
    /\ UNCHANGED <<hasCode, suppConsent, channelVars>>

\* sendOAuthResultToRelier: the metrics are flushed, then the page leaves.
Redirected ==
    /\ Running /\ jobs["redirect"] > 0
    /\ End("redirect")
    /\ page' = "relier"
    /\ UNCHANGED <<supp, hasCode, suppConsent, channelVars>>

SuppSettle ==
    \/ RequestSent
    \/ ConsentSentToWait
    \/ ConsentSentToRelier
    \/ CodeValidToWait
    \/ CodeValidToRelier
    \/ HandedOver
    \/ Redirected

SuppNext ==
    \/ Connected
    \/ ConnectFails
    \/ SocketError
    \/ ReceiveMetadata
    \/ ReceiveCode
    \/ ReceiveBadCode
    \/ Approve
    \/ CancelOnPhone
    \/ SendRejected
    \/ SuppSettle

=============================================================================
