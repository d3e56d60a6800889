-------------------------- MODULE PairingAuthority --------------------------
(***************************************************************************)
(* The page a desktop browser opens to let a phone be paired: its state    *)
(* machine (models/pairing/authority-state-machine.js), the broker with    *)
(* its heartbeat (models/auth_brokers/pairing/authority.js) and its        *)
(* screens. Requests to the browser go over the WebChannel; the browser    *)
(* itself is external (docs/pairing-architecture.md).                      *)
(***************************************************************************)
EXTENDS PairingSupplicant

CONSTANT MaxBeats       \* how many heartbeats may be unanswered at once

ASSUME MaxBeatsAssumption == MaxBeats \in Nat \ {0}

VARIABLES
    auth,           \* the state of the authority's machine
    desk,           \* the screen of the desktop page
    beating,        \* the interval timer of the heartbeat runs
    beats,          \* heartbeats the browser has not answered
    allowing,       \* the PAIR_AUTHORIZE request of the page
    ending,         \* PAIR_DECLINE or PAIR_COMPLETE was sent to the browser
    authConsent,    \* the user has accepted on the desktop
    heard,          \* browser: pair:supp:authorize arrived from the phone
    issued          \* browser: it sent an OAuth code to the phone

authVars == <<auth, desk, beating, beats, allowing, ending, authConsent>>
browserVars == <<heard, issued>>

AuthState == {"WaitForAuthorizations", "WaitForSupplicantAuthorize",
              "WaitForAuthorityAuthorize", "PairAuthComplete", "PairAuthFailure"}
Desk == {"closed", "loading", "allow", "wait", "complete", "failure"}

AuthInit ==
    /\ auth = "WaitForAuthorizations"
    /\ desk = "closed"
    /\ beating = FALSE
    /\ beats = 0
    /\ allowing = "idle"
    /\ ending = FALSE
    /\ authConsent = FALSE

\* createState: WaitForAuthorityAuthorize is the one state that leaves the
\* screen as it is. The complete screen tells the browser that it is shown.
GotoAuth(state) ==
    /\ auth' = state
    /\ desk' = CASE state = "WaitForSupplicantAuthorize" -> "wait"
                 [] state = "PairAuthComplete" -> "complete"
                 [] state = "PairAuthFailure" -> "failure"
                 [] OTHER -> desk
    /\ ending' = (ending \/ state = "PairAuthComplete")

\* Mutant: the user's consent on the desktop is enough.
AuthAuthorizeAlone ==
    IF auth \in {"WaitForAuthorizations", "WaitForAuthorityAuthorize"}
    THEN GotoAuth("PairAuthComplete")
    ELSE UNCHANGED <<auth, desk, ending>>

\* Mutant: the phone's consent is enough.
SuppAuthorizeAlone ==
    IF auth \in {"WaitForAuthorizations", "WaitForSupplicantAuthorize"}
    THEN GotoAuth("PairAuthComplete")
    ELSE UNCHANGED <<auth, desk, ending>>

\* The machine's part in the notification pair:supp:authorize.
NotifySuppAuthorize ==
    CASE auth = "WaitForAuthorizations" -> GotoAuth("WaitForAuthorityAuthorize")
      [] auth = "WaitForSupplicantAuthorize" -> GotoAuth("PairAuthComplete")
      [] OTHER -> UNCHANGED <<auth, desk, ending>>

\* The machine's part in the notification pair:auth:authorize.
NotifyAuthAuthorize ==
    CASE auth = "WaitForAuthorizations" -> GotoAuth("WaitForSupplicantAuthorize")
      [] auth = "WaitForAuthorityAuthorize" -> GotoAuth("PairAuthComplete")
      [] OTHER -> UNCHANGED <<auth, desk, ending>>

-----------------------------------------------------------------------------
\* The page starts: fetch() asks for the phone's metadata, then beats.
Fetched ==
    /\ desk = "loading"
    /\ beating' = TRUE
    /\ desk' \in {"allow"} \cup (IF "totp" \in Failures THEN {"failure"} ELSE {})
    /\ UNCHANGED <<auth, beats, allowing, ending, authConsent, browserVars, suppVars, channelVars>>

\* Mutant: a timer that fires once.
HeartbeatOnce ==
    /\ beating /\ beats < MaxBeats
    /\ beats' = beats + 1
    /\ beating' = FALSE
    /\ UNCHANGED <<auth, desk, allowing, ending, authConsent, browserVars, suppVars, channelVars>>

\* The interval fires whether or not the last heartbeat was answered.
Heartbeat ==
    /\ beating /\ beats < MaxBeats
    /\ beats' = beats + 1
    /\ UNCHANGED <<auth, desk, beating, allowing, ending, authConsent,
                   browserVars, suppVars, channelVars>>

\* The answer: an error, the phone's consent, or neither.
HeartbeatFailed ==
    /\ beats > 0
    /\ ending \/ socket = "closed" \/ "browser" \in Failures
    /\ beats' = beats - 1
    /\ GotoAuth("PairAuthFailure")
    /\ UNCHANGED <<beating, allowing, authConsent, browserVars, suppVars, channelVars>>

HeartbeatAnswered ==
    /\ beats > 0
    /\ beats' = beats - 1
    /\ IF heard THEN NotifySuppAuthorize ELSE UNCHANGED <<auth, desk, ending>>
    /\ UNCHANGED <<beating, allowing, authConsent, browserVars, suppVars, channelVars>>

-----------------------------------------------------------------------------
\* PairAuthAllowView.submit; a second submit waits for the first.
Allow ==
    /\ desk = "allow" /\ allowing = "idle"
    /\ authConsent' = TRUE
    /\ allowing' = "asked"
    /\ UNCHANGED <<auth, desk, beating, beats, ending, browserVars, suppVars, channelVars>>

\* The browser has answered PAIR_AUTHORIZE.
Allowed ==
    /\ allowing = "granted"
    /\ allowing' = "idle"
    /\ NotifyAuthAuthorize
    /\ UNCHANGED <<beating, beats, authConsent, browserVars, suppVars, channelVars>>

\* The request was refused: the form shows the error and can be sent again.
AllowRefused ==
    /\ "refuse" \in Failures \/ socket = "closed"
    /\ allowing = "asked"
    /\ allowing' = "idle"
    /\ UNCHANGED <<auth, desk, beating, beats, ending, authConsent,
                   browserVars, suppVars, channelVars>>

\* PairAuthAllowView.cancel: the screen and the browser are told, not the machine.
CancelOnDesktop ==
    /\ "cancel" \in Failures
    /\ desk = "allow"
    /\ desk' = "failure"
    /\ ending' = TRUE
    /\ UNCHANGED <<auth, beating, beats, allowing, authConsent, browserVars, suppVars, channelVars>>

AuthNext ==
    \/ Fetched
    \/ Heartbeat
    \/ HeartbeatFailed
    \/ HeartbeatAnswered
    \/ Allow
    \/ Allowed
    \/ AllowRefused
    \/ CancelOnDesktop

=============================================================================
