------------------------------- MODULE MCLinks -------------------------------
(* Each kind of link, each place it is opened in, each context and device. *)
EXTENDS Links

Modern == [modern |-> TRUE, aboutAccounts |-> FALSE, fxaStatus |-> "none", pairing |-> FALSE, halt |-> FALSE]

Plain ==
    [type |-> "signup", where |-> "other", valid |-> TRUE, resume |-> "plain", context |-> "web", service |-> "none",
     session |-> TRUE, signedIn |-> "own", device |-> "fx_desktop", browser |-> Modern, country |-> "none",
     tester |-> FALSE, moves |-> FALSE]

Sync == [Plain EXCEPT !.context = "fx_desktop_v3", !.service = "sync"]

OAuth == [Plain EXCEPT !.context = "oauth", !.service = "rp"]

AllScenarios ==
    {[Plain EXCEPT !.type = x, !.where = w] :
         x \in {"signup", "login", "primary_email", "secondary_email"}, w \in {"other", "there"}}
    \cup {[Plain EXCEPT !.type = "report", !.valid = v] : v \in BOOLEAN}
    \cup {[Plain EXCEPT !.valid = FALSE], [Plain EXCEPT !.signedIn = "none"]}
    \cup {[Sync EXCEPT !.resume = "opt-in", !.moves = TRUE], [Plain EXCEPT !.resume = "invalid"],
          [Plain EXCEPT !.resume = "damaged"], [Plain EXCEPT !.resume = "opt-in", !.moves = TRUE]}
    \cup {[Sync EXCEPT !.where = "there", !.session = FALSE, !.signedIn = "none", !.device = d] :
             d \in {"fx_desktop", "fx_android", "fx_ios", "other_android", "other_ios", "other"}}
    \cup {[Sync EXCEPT !.context = "fx_fennec_v1", !.device = "fx_android"],
          [Sync EXCEPT !.country = "LU", !.type = "login"], [Sync EXCEPT !.country = "AU"],
          [Sync EXCEPT !.tester = TRUE], [Sync EXCEPT !.context = "fx_firstrun_v2", !.where = "replaces"]}
    \cup {[OAuth EXCEPT !.where = w, !.type = x] : w \in {"other", "replaces"}, x \in {"signup", "login"}}

SomeNumbers ==
    {[plus |-> p, lead |-> l, digits |-> n] : p \in BOOLEAN, l \in {"zero", "code", "seven", "other"}, n \in 9..11}
=============================================================================
