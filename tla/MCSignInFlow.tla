---------------------------- MODULE MCSignInFlow ----------------------------
(* The scenarios that are explored: each context with what is particular to
   it, and each thing an account may be like. *)
EXTENDS SignInFlow

Browser(status) ==
    [modern |-> TRUE, aboutAccounts |-> FALSE, fxaStatus |-> status, pairing |-> FALSE, halt |-> FALSE]

\* Two plain accounts, the sign-in form of the content server, nothing asked for.
Plain ==
    [context |-> "web", browser |-> Browser("none"), asks |-> FALSE, keys |-> FALSE, twoStep |-> FALSE,
     permissions |-> FALSE, emailFirst |-> FALSE, action |-> "none", tokenCode |-> "none",
     email |-> "none", uid |-> "none", page |-> "signin", redirectTo |-> "none", cached |-> "none",
     accounts |-> [a |-> "plain", b |-> "plain"], typed |-> {"a"}, passwords |-> {"right"}]

Sync(context) == [Plain EXCEPT !.context = context, !.keys = TRUE, !.asks = TRUE,
                               !.browser = Browser("supported")]

OAuth(context) == [Plain EXCEPT !.context = context]

A(sc, kind) == [sc EXCEPT !.accounts = [a |-> kind, b |-> "plain"]]

WebScenarios ==
    {A([Plain EXCEPT !.typed = {"a", "A"}, !.passwords = {"right", "wrong"}], kind) : kind \in {"plain", "blocked"}}
    \cup {A(Plain, kind) : kind \in {"totp", "suspicious", "locked", "throttled", "bounced"}}
    \cup {[Plain EXCEPT !.cached = c, !.redirectTo = r] : c \in {"live", "dead"}, r \in {"none", "avatar"}}
    \cup {A([Plain EXCEPT !.page = "signup", !.tokenCode = "treatment-link"], kind) :
             kind \in {"missing", "unverified"}}
    \cup {[Plain EXCEPT !.page = "index", !.action = x, !.cached = c] : x \in {"none", "signin"}, c \in {"none", "live", "dead"}}
    \cup {A([Plain EXCEPT !.page = "index", !.cached = "live"], "suspicious")}

SyncScenarios ==
    {A(Sync(x), "suspicious") : x \in ChannelContexts}
    \cup {[A(Sync(x), "missing") EXCEPT !.page = "signup"] : x \in {"fx_desktop_v3", "fx_ios_v1"}}
    \cup {[Sync("fx_desktop_v3") EXCEPT !.page = "index", !.emailFirst = TRUE, !.action = x, !.email = "a"] : x \in {"signin", "signup", "force_auth"}}
    \cup {A([Sync("fx_desktop_v3") EXCEPT !.typed = {"a", "b"}], "locked"),
          [Sync("fx_fennec_v1") EXCEPT !.asks = FALSE],
          [Sync("fx_firstrun_v1") EXCEPT !.browser.halt = TRUE],
          [Sync("fx_desktop_v3") EXCEPT !.browser.modern = FALSE, !.browser.aboutAccounts = TRUE],
          A(Sync("fx_firstrun_v2"), "totp"),
          [Sync("fx_sync") EXCEPT !.asks = FALSE],
          [A(Sync("fx_desktop_v3"), "missing") EXCEPT !.page = "index", !.emailFirst = TRUE],
          [Sync("fx_desktop_v3") EXCEPT !.page = "index", !.action = "email", !.cached = "live",
                                     !.passwords = {"right", "wrong"}]}
    \cup {A([Sync("fx_desktop_v3") EXCEPT !.page = "force_auth", !.email = "a", !.uid = u], kind) :
             u \in {"a", "stale"}, kind \in {"plain", "missing"}}
    \cup {A([Sync("fx_ios_v1") EXCEPT !.page = "force_auth", !.email = "a", !.uid = u, !.passwords = {"right", "wrong"}], kind) :
             u \in {"none", "stale"}, kind \in {"blocked", "missing"}}

OAuthScenarios ==
    {A([OAuth("oauth") EXCEPT !.twoStep = TRUE], kind) : kind \in {"plain", "totp"}}
    \cup {A([OAuth(x) EXCEPT !.tokenCode = "treatment-code"], kind) :
             x \in OAuthContexts, kind \in {"suspicious", "plain"}}
    \cup {[OAuth("oauth") EXCEPT !.permissions = TRUE, !.cached = c] : c \in {"live", "dead"}}
    \cup {[A(OAuth(x), "missing") EXCEPT !.permissions = p, !.page = "signup"] :
             x \in OAuthContexts, p \in BOOLEAN}
    \cup {[A(OAuth("oauth"), "missing") EXCEPT !.page = "signup", !.twoStep = TRUE]}
    \cup {[OAuth("oauth") EXCEPT !.page = "oauth_index", !.email = e, !.action = x] :
             e \in {"none", "a"}, x \in {"none", "email"}}
    \cup {[OAuth("oauth") EXCEPT !.twoStep = TRUE, !.cached = "live"]}

AllScenarios == WebScenarios \cup SyncScenarios \cup OAuthScenarios

=============================================================================
