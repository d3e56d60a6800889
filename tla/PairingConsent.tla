--------------------------- MODULE PairingConsent ---------------------------
(***************************************************************************)
(* What pairing promises, whatever the two pages, their promises and their *)
(* channel do: a code is made when the user of the desktop accepts, and    *)
(* leaves the phone, or is called complete on the desktop, only when the   *)
(* user of the phone has accepted as well. An acceptance and a code are    *)
(* never taken back. Either side may stop at any point, and the desktop    *)
(* may still report a failure after it has called the pairing complete.    *)
(***************************************************************************)
VARIABLES
    phone,          \* the user has accepted on the phone
    desktop,        \* the user has accepted on the desktop
    code,           \* "none", "issued" to the phone or "delivered" by it
    complete        \* the desktop has called the pairing complete

vars == <<phone, desktop, code, complete>>

Init ==
    /\ phone = FALSE
    /\ desktop = FALSE
    /\ code = "none"
    /\ complete = FALSE

PhoneAccepts ==
    /\ phone' = TRUE
    /\ UNCHANGED <<desktop, code, complete>>

DesktopAccepts ==
    /\ desktop' = TRUE
    /\ UNCHANGED <<phone, code, complete>>

Issue ==
    /\ desktop
    /\ code = "none"
    /\ code' = "issued"
    /\ UNCHANGED <<phone, desktop, complete>>

Deliver ==
    /\ phone
    /\ code = "issued"
    /\ code' = "delivered"
    /\ UNCHANGED <<phone, desktop, complete>>

Complete ==
    /\ phone
    /\ code # "none"
    /\ complete' = TRUE
    /\ UNCHANGED <<phone, desktop, code>>

FailAfterAll ==
    /\ complete
    /\ complete' = FALSE
    /\ UNCHANGED <<phone, desktop, code>>

Next ==
    \/ PhoneAccepts
    \/ DesktopAccepts
    \/ Issue
    \/ Deliver
    \/ Complete
    \/ FailAfterAll

Spec == Init /\ [][Next]_vars

=============================================================================
