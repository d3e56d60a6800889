--------------------------- MODULE MCResetPassword ---------------------------
(* Each kind of relier, each place the link may be opened in, and accounts
   with and without a recovery key and a second factor. *)
EXTENDS ResetPassword

Modern(status) ==
    [modern |-> TRUE, aboutAccounts |-> FALSE, fxaStatus |-> status, pairing |-> FALSE, halt |-> FALSE]

Plain ==
    [context |-> "web", service |-> "none", keys |-> FALSE, totp |-> FALSE, recovery |-> FALSE,
     channel |-> TRUE, link |-> "here", resets |-> 1, browser |-> Modern("none")]

Sync(context) == [Plain EXCEPT !.context = context, !.service = "sync", !.keys = TRUE]

OAuth(keys) == [Plain EXCEPT !.context = "oauth", !.service = "rp", !.keys = keys]

AllScenarios ==
    {[Plain EXCEPT !.link = l, !.recovery = TRUE] : l \in {"here", "there"}}
    \cup {[Plain EXCEPT !.link = "replaces"], [Plain EXCEPT !.link = "either", !.resets = 2]}
    \cup {[Sync(x) EXCEPT !.recovery = TRUE] : x \in {"fx_desktop_v3", "fx_ios_v1"}}
    \cup {[Sync("fx_desktop_v3") EXCEPT !.link = "either"], [Sync("fx_desktop_v3") EXCEPT !.totp = TRUE],
          [Sync("fx_ios_v1") EXCEPT !.channel = FALSE], [Sync("fx_firstrun_v2") EXCEPT !.browser = Modern("supported")]}
    \cup {OAuth(k) : k \in BOOLEAN}
    \cup {[OAuth(FALSE) EXCEPT !.link = "replaces"],
          [OAuth(FALSE) EXCEPT !.link = "replaces", !.channel = FALSE, !.resets = 2], [OAuth(FALSE) EXCEPT !.totp = TRUE],
          [OAuth(TRUE) EXCEPT !.link = "there", !.totp = TRUE]}
=============================================================================
