------------------------------- MODULE MCStart -------------------------------
(* Each kind of page and each browser first, then OAuth pages and settings. *)
EXTENDS Start

Desktop == [agent |-> "desktop", storage |-> "works", status |-> "answers", account |-> "a"]

Other == [Desktop EXCEPT !.agent = "other", !.status = "silent", !.account = "none"]

Plain ==
    [path |-> "signin", client |-> "none", redirect |-> "none", scope |-> {}, keys |-> FALSE, consent |-> FALSE,
     service |-> "none", context |-> "none", link |-> "none", channel |-> FALSE, valid |-> TRUE, signin |-> FALSE]

OAuth == [Plain EXCEPT !.path = "oauth/signin", !.client = "app", !.scope = {"profile:email", "profile:display_name", "profile:avatar"}]

Consent == [OAuth EXCEPT !.client = "plain", !.redirect = "plain", !.scope = {"profile"}, !.consent = TRUE]

Keys == [OAuth EXCEPT !.client = "rp", !.redirect = "rp", !.scope = {"oldsync", "profile"}, !.keys = TRUE]

Supplicant == [Keys EXCEPT !.path = "pair/supp", !.channel = TRUE]

Authority == [Keys EXCEPT !.redirect = "authority", !.channel = TRUE, !.keys = FALSE]

Sync == [Plain EXCEPT !.service = "sync", !.context = "fx_desktop_v3"]

Link == [Plain EXCEPT !.path = "verify_email", !.link = "signup"]

Pages ==
    {Plain, [Plain EXCEPT !.valid = FALSE], [Plain EXCEPT !.path = "settings"], [Plain EXCEPT !.path = "cookies_disabled"],
     [Plain EXCEPT !.path = "report_signin"], [Plain EXCEPT !.service = "app"], [Plain EXCEPT !.context = "oauth"],
     OAuth, Consent, Keys, Supplicant, Authority, Sync,
     [OAuth EXCEPT !.client = "unknown"], [OAuth EXCEPT !.scope = {}], [OAuth EXCEPT !.scope = {"profile:avatar"}],
     [OAuth EXCEPT !.service = "sync"], [OAuth EXCEPT !.redirect = "rp"], [OAuth EXCEPT !.scope = @ \cup {"profile"}],
     [OAuth EXCEPT !.path = "oauth/success", !.service = "sync", !.context = "iframe"],
     [OAuth EXCEPT !.path = "verify_email"], [OAuth EXCEPT !.context = "iframe"], [Authority EXCEPT !.link = "signup"],
     [OAuth EXCEPT !.path = "oauth/success", !.scope = {}], [OAuth EXCEPT !.path = "oauth/success", !.client = "none"],
     [Keys EXCEPT !.client = "plain", !.redirect = "plain"], [Keys EXCEPT !.scope = {"profile"}],
     [Keys EXCEPT !.client = "app", !.redirect = "app"], [Keys EXCEPT !.redirect = "none", !.consent = TRUE],
     [Supplicant EXCEPT !.channel = FALSE], [Supplicant EXCEPT !.client = "app", !.redirect = "app"],
     [Authority EXCEPT !.channel = FALSE], [Sync EXCEPT !.context = "none"], [Sync EXCEPT !.context = "iframe"],
     [Sync EXCEPT !.context = "oauth"], [Sync EXCEPT !.signin = TRUE],
     Link, [Link EXCEPT !.valid = FALSE], [Link EXCEPT !.service = "sync"], [Link EXCEPT !.service = "app"]}

Browsers ==
    {Desktop, Other, [Other EXCEPT !.agent = "chromeAndroid"]}
    \cup {[Desktop EXCEPT !.status = s] : s \in {"noChannel", "fails", "silent"}}
    \cup {[b EXCEPT !.storage = s] : b \in {Desktop, Other, [Other EXCEPT !.agent = "mobileSafari"]}, s \in {"readOnly", "denied"}}
    \cup {[Desktop EXCEPT !.account = "none"]}

AllVisits == [url : Pages, browser : Browsers]

SomeUrls ==
    {OAuth, [OAuth EXCEPT !.scope = {"profile:email"}], Consent, Keys, [Plain EXCEPT !.path = "settings"], Sync}
=============================================================================
