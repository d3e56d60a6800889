# A verification of the Firefox Accounts content server

The repository holds the web application people use to sign in to Firefox Accounts: a single page application under
`app/scripts` (about 33 000 lines), and a small express server under `server` that delivers it and collects its metrics.
The auth, OAuth and profile servers, and the browser behind the WebChannel, are other programs; here they are external.

The application is sequential inside a tab, but hardly anything in it happens in one go: every operation is a chain of
promises over network calls, several tabs share one `localStorage`, tabs and the browser send each other messages, and
screens poll servers on timers. The modules beside this file model those interleavings; TLC explores them on small
instances, and TLAPS proves the most important properties for instances of any size.

Each module starts with what it models and at which grain. `PROJECT.json` maps every definition to the lines it models,
lists the runs, and the hazards of the code with the properties that watch them.

## 1. The system

Paths are relative to `app/scripts` unless they start with `server`.

| part | state it keeps | operations and interaction | what is hard, and what makes it correct |
|---|---|---|---|
| Start (`lib/app-start.js`) | the parts of the page | reads the URL, the session and the storage, asks the browser and the OAuth server, builds relier, broker, user and router | two rows of conditions that must agree, answers that fail or never come; a page ends with a screen or an error, with the right user |
| Reliers and consent (`models/reliers`, `views/permissions.js`) | what the URL, the session or a link says the relying party wants | validation, normalization of scopes, permissions the user must have seen | several pages and links of several clients in one browser; nothing is granted that was not asked for, allowed and seen |
| User accounts (`models/user.js`, `models/account.js`) | `accounts` and `currentAccountUid` in `localStorage`, shared by all tabs; per tab the cached signed in `Account` | sign in, sign up, reset, sign out, deletion, changes of the password; `SIGNED_IN` and `SIGNED_OUT` between tabs | what a continuation writes was read steps earlier, perhaps by another tab; tokens stay with their account, no update of another account is lost |
| Account tokens, assertions, profile (`models/account.js`, `lib/assertion.js`) | the access token of the profile, cached promises | renew and retry after a 401 | several calls renew one token; a retry has a fresh one |
| Settings (`views/settings`, `models/attached-clients.js`, ...) | what each panel shows and waits for | one request or a chain of them, refreshed by messages | late and failed answers; the recovery-key panel shows in the end what the server has, a refresh ends, the end of one's own session is noticed |
| Auth brokers (`models/auth_brokers`, `views/behaviors`) | capabilities, behaviors, what the browser was told | say what follows each step of a flow | eleven contexts that override each other's tables |
| Sign in, sign up (`views/sign_in*.js`, `views/force_auth.js`, `views/index.js`, ...) | the form, the stored accounts | a submit asks the browser, then the server, then perhaps for a second factor | which screen comes next; an answer for a screen that was left; the browser hears what its user agreed to |
| Sign-up confirmation (`models/polls`, `views/confirm.js`, `views/choose_what_to_sync.js`) | the poll and its timers, the uid of the last login notice | polls the auth server, submits, resends, tells the browser | stale answers, two screens that may each finish; one login notice with the choice, a confirmation is noticed |
| Password reset (`views/confirm_reset_password.js`, `views/complete_reset_password.js`) | whether a tab polls or waits for a message | a poll against messages of other tabs; the recovery key; the OAuth flow of the tab | the answer that loses is dropped; one tab goes back to the relying party, the key is given up knowingly, a reset is noticed |
| E-mail links (`views/complete_sign_up.js`, `models/resume-token.js`, `views/sms_send.js`) | what a link carries, whether it was opened here | verification, who is told, text messages | the tab that asked may finish first; whoever must hear does, once |
| Navigation (`lib/router.js`, `views/app.js`, `views/base.js`) | the stack of view models, the history, the current view | navigate, back, redirect while rendering, lazy imports, reload | two stacks kept in step by hand, rendering that ends late; one live view, each view with its own data |
| Forms (`views/form.js`, `views/base.js`, `views/decorators`, `views/tooltip.js`) | inputs, messages, the submit under way, timers | validation, submit, progress, tooltips, legible passwords | timers that outlive what they are for; one submit at a time, of checked values, that ends |
| Device pairing (`models/pairing`, `models/auth_brokers/pairing`, `views/pair`) | a state machine on the phone and one on the desktop | an encrypted channel between phone and browser; the desktop page asks its browser every second | two users accept in any order; promises of states that were left; nobody gets a code unless both accepted |
| Channels to the browser (`lib/channels`) | outstanding requests with ids and timeouts | request and reply over events every channel of the window hears | replies late, out of order or never; each settles its own request only |
| Metrics (`lib/metrics.js`, `models/flow.js`, `server/lib/flow-event.js`) | events not yet sent, the flow | flush on unload, blur, a pause and before a link; the server validates and times events | lost and repeated reports, clocks that differ; an event is given up only after two tries, logged twice only if an answer was lost, and at a real time |
| Notifier, client of the auth server | none | messages and requests of the parts above | part of their actions |
| Sync engines, experiments, password strength, errors, texts, cryptography, pages and headers of the server, tools | none or a table | pure functions | not modelled, see 6 |

The parts meet in the start, which makes the relier and the broker; in the user, which every flow ends with; and in the
broker, which decides what comes after each step and tells the browser. `Brokers` is used by `Start`, `SignInFlow`,
`ResetPassword` and `Links`; `Reliers` by `Start`; `AccountTokens` by `Settings`; `FormInputs` by `Page`; the two
machines of pairing by `Pairing`. Tabs of one browser meet in `UserAccounts`, `ResetPassword`, `Links` and `Start`.

## 2. Modules

A module `X` has its instance in `MCX` with `MCX_*.cfg` and its proofs in `X_proofs`; those of `Pairing`,
`DuplexChannel` and `SignUpConfirmation` are in `Channels_proofs`, those of `Navigation` and `Page` in `Screens_proofs`,
those of `ResetPassword` and `Links` in `EmailLinks_proofs`. Such a proof module extends all its models, which is why some
of these have names of their own for what others call `Init`, `Next`, `Spec`, `TypeOK` and `vars` (`SignUpInit`,
`DuplexSpec`, `PageNext`, `linkVars`). The set-ups a run explores are records listed in the MC module (`Scenarios`,
`Visits`, `Uses`); what changes none of the control is fixed in them, what is not fixed is a choice of an action.

### Start, Reliers

`Reliers` has the reliers as functions: `Fetch` is what the URL and the session give or refuse, `FetchAnswered` what the
answer of the OAuth server adds; each throwing step sets `error`, and the rest is skipped. `Start` runs `initializeDeps` as a
chain of steps, `page.phase`, each of which may wait or fail; `disk` is what the pages of this browser stored (session,
verification info, account), and `server` the mails sent and the codes issued. A behaviour opens several pages in a row,
by URLs and by links of mails that were sent, in one browser; so what one page left is what the next one starts from.
`granted` remembers each code with what the user had not seen of its scope; it has no counterpart in the code.

### UserAccounts

`accounts` and `current` are the two entries of `localStorage`. `cache[t]` is `_cachedSignedInAccount` of tab `t`.
`calls[t]` are the requests under way: a call is sent in one step (with what it read: the account, whether that is the
very object in the cache, and the token it captured) and settled in another, where the server acts and the continuation
writes storage. So every interleaving of continuations that the promise chains of `user.js` allow is a behaviour.
`inbox[t]` holds broadcasts. The server is `owner`, `live`, `confirmed`, `registered`; `Revoke` and `Confirm` let it
act at any other time. Only uid, session token and verification are kept of an account; the properties need no more.

### AccountTokens, Settings

`server` are tokens and clients, `account` the model of this tab, `assertion` and `profile` the two cached promises.
A call of a panel occupies a slot; its `step` says what it waits for, so two panels may share one renewal of the token.
`Settings` adds the panels: `use` names the part of the screen a behaviour is about, `ui` what the panels show. Sending
is one action, each answer another; other devices change the server meanwhile (`changes`).

### Brokers, SignInFlow

`Brokers` has a broker as a record: its tables of behaviors and capabilities, made by overriding the parent's as the
subclasses do, what it agreed with the browser and what it sent. `SignInFlow` has the screens: `view` is the one shown
with its account, `calls` the submits under way, each with the view it was made by, `user` the stored accounts,
`asked` the e-mails its user said yes to, and those the question failed for. An answer acts for the view that asked, whatever is shown.

### SignUpConfirmation

`screen` and `who` are the view shown and its account; `waiting` and `timers` belong to its poll; `calls` are on
their way whether or not their view is still there. A view that is left loses its timers but not its requests.
`account[u].keys` stands for the key fetch token, which exists until the page is reloaded, `chosen` for `customizeSync`.
`loginUid` is the memory of the broker and `logins` what the browser has heard.

### ResetPassword

`tabs[t]` is what a tab shows and waits for, `browser` what tabs share (the session's `oauth`, the stored account), `inbox`
the messages of one tab for the other in order. `server` has the reset tokens, which of them a reset was made with
(`resetWith`, by `AccountReset`) and which browser had the answer (`answered`, by `ResetAnswered`): it may be lost between.

### Links

`linkTab` is the tab of the link; `stored` the storage; `auth` the server; `others` the tab that asked and what all tabs were told. Accounts
may be signed out between any two steps. Text messages and their countries are here as they follow a link.

### Navigation

`history` and `place` are the browser's; `viewModels` is `_viewModelStack`; `views` are all views ever created with
whether each is destroyed and what its rendering has come to; `attributes` is what the models were filled with: a view that
stays has its model filled with the data of the next page (`app.js:104`). `Go`, `Redirect`, `Back` and the buttons of the browser
start things; `Imported`, `Rendered`, `Refused`, `RenderFails` (the error page) and `PopState` are the ends that come later.
Backbone does not route to a page with the URL of the last one (`Traverse`). Several URLs may have one view (`ViewOf`). `Hasty`, `BrowserButtons` and `SameUrl` choose which of these a run allows.

### FormInputs, Page

A text is the class of its characters, its length and what a conversion strips; `FormInputs` says which input takes it
and with which error. `Page` has one screen: `form` its inputs, `task` the submit and the refresh with the decorator
each is in, `spinner` the indicators with their two timers, `tips` the tooltips with the listeners that stay.

### Pairing

`PairingSupplicant` and `PairingAuthority` are the two pages, `Pairing` adds the desktop browser and the channel server
and composes them. `supp` and `auth` are the states of the two machines. The states a machine has left still listen:
`jobs` counts the promises that are pending for each thing a state may do when one resolves, whichever state is current
then, so a late promise moves the machine as it does in the code (`state-machine.js` never removes listeners).
Heartbeats overlap: `beats` counts those without an answer. `PairingConsent` is what pairing promises: a code is made
only after the desktop's user accepts and leaves the phone only after both accept. `KeepsConsent` is the refinement.

### DuplexChannel

One window with several channels. `requests` has every promise ever made with what became of it, `outstanding` the map
each channel keeps by id, `timeouts` the running ones. All channels hear all replies, as all receivers listen to one window.
Ids are made from clock and suffix; with `Kind = "fxDesktopV1"` the id is the command, as in `fx-desktop-v1.js`.

### Metrics

`client` is `Metrics` with its flow model, `wire` the reports under way with their attempt, `server` the lines logged.
`now` is the server's clock; the page's differs by `skew` and may jump. `lost` has the tries to send an event that failed or
were not heard of, with the state the report was in; `server.got` the events that arrived, with the try that brought them.

## 3. What the runs check

There is one run for each composed model; a property is a conjunction where several things must hold for one reason, and
its parts are named definitions. Two runs have two kinds of user in one instance, told apart by a variable of the MC module
that never changes: `solo` (a user of one tab with every operation, or of two tabs with those that write shared state)
and `user` (hasty, or waiting for each screen); a property that only holds for one kind says so.

| run | instance | properties |
|---|---|---|
| `start` | 40 URLs in 13 browsers, then up to 3 more pages | relier and broker fit, but for Sync's first run, and the user is the right one (`StartIsConsistent`); the codes of sign-ins and links are within what the client may have, asked for and the user saw in this browser (`GrantsAreAllowed`); a start ends unless the browser is silent (`StartEnds`) |
| `accounts` | 2 tabs, 2 accounts, 2 tokens, 2 calls in one tab or 1 in each of two | types; tokens stay with their account; in one tab cache and storage agree (`OneTabAgrees`); with two, they come to disagree only by another tab's act, the storage names an account that is gone only after a stale tab removed it, and a removal is told unless the own copy is stale or everything is forgotten (`DisagreementHasACause`) |
| `settings` | 8 parts of the screen, 2 calls, 3 tokens, 1 failure, 2 changes | retries are with a fresh token, newsletter tokens are destroyed (`SettingsTokensHold`); `OwnEndIsNoticed`; the spinner of the clients stops whatever fails, and the recovery-key panel shows in the end what the server has while nothing fails (`PanelsSettle`) |
| `sign_in` | 64 scenarios: each context, each kind of account, 2 calls, 3 submits; questions to the browser may fail | what a LOGIN says of the user's consent is so, but for a failed question (`LoginIsAgreed`); verified and with keys at the end (`FlowEndsVerified`); `TooYoungStaysOut`; submits end and redirections settle, but for one circle (`FlowMovesOn`) |
| `signup_confirmation` | 2 sign-ups in one window, 1 failing request of any kind | one login notice per account, before the last screen and with the choice; only the confirmed go on; one poll at a time, which falls silent only when the check of the uid fails, and else a confirmation is noticed (`PollIsFaithful`) |
| `reset_password` | 16 scenarios: contexts, recovery key, second factor, link in each place or in either browser, 2 resets; answers lost | one tab redirects, the browser is told (`ResetIsReported`); `KeysSurviveUnlessLost`; `ResetIsNoticed` |
| `links` | 31 scenarios: kinds of link, places, contexts, devices | tabs are told, the relying party at most once and, but for failures and flows without a way back, is (`VerificationIsHeard`); `MessagesAreAddressed`; `LinkEnds` |
| `navigation` | 4 URLs of 3 views, one lazy; 2 hasty navigations, 2 with the browser's buttons or 4 patient ones | one live view; a current view is written, replaced or gives the error page; for who waits, the screen is of the URL, and for the patient its data too (`PatientHistoryAgrees`) |
| `forms` | 13 forms, 2 submits, 3 edits | one submit at a time, of what was valid when it began, edits since aside (`SubmitIsSound`); indicator, notices, errors and passwords tell the state, and a marked input has its tooltip (`ScreenTellsTheState`); a submit ends or is lost with a screen made again (`SubmitEnds`) |
| `pairing` | 2 promises of a kind and 2 heartbeats pending, every failure | code and completion need both users; the refinement of `PairingConsent`; whoever waits learns, but for a phone that took the code while its acceptance was being sent (`EveryoneLearns`, `CodeTakenWhileAccepting`) |
| `channel_requests` | 2 channels, 3 requests, 2 instants, failing sends | answers match; what is waited for is pending, a request that could not be sent included (`RequestsAreWaitedFor`); a response settles |
| `metrics` | 11 scenarios, 3 events, flows and offsets valid for 1 tick | no event forgotten, nor doubled unless an answer was lost (`EventsAreKept`); times are real, and what is refused has an event too late (`FlowDataIsSound`); a flush ends (`FlushEnds`) |

**Bounds.** Two of each actor (tabs, accounts, tokens, channels, sign-ups, calls) are the fewest that can be confused with
each other, and the interleavings the properties are about are between two calls. A third token lets a retry meet a
second renewal; a third request on two channels lets two share an instant while an older one waits; a third submit lets
one screen be left and come back to. Four pages in `start` are the fewest for: a sign-in with permissions, a new value in the settings, another page, and a
return. Three events let two be in one report and one in the next; a flow valid for one tick and offsets of one tick at most have both sides of the limits.
Two navigations and three views let a redirection, a late rendering and a replacement meet; four patient navigations give a stack deep enough
to go back twice. One failure is enough to meet each error path, at each point of the others. `MaxJobs = 2` lets a
promise of a state that was left meet one of the present state. Deadlock is not checked: users may stop, and a bounded
run ends at its bounds.

**Fairness.** Never of the user, always of what the code has scheduled. `Start`: the start goes on where an answer
came; a browser that does not answer `fxa_status` is in the property. `Pairing`: promises settle, messages on an open channel arrive,
the timer fires, the browser answers; the channel may close. `Navigation`: a rendering that has begun ends, or fails.
`SignUpConfirmation`, `ResetPassword`, `Links`, `SignInFlow`, `Settings`: timers fire, and what was asked is answered or
fails (`lib/xhr.js` gives every request a timeout), failures being bounded; messages between tabs arrive. `Page`: timers fire, and
`beforeSubmit` and `submit` settle. `Metrics`: a report under way is answered, lost or refused. So "is noticed" means:
once the network is back, or with an error displayed.

## 4. Met while modelling

Where the code does not do what a comment or a document says, or what a property would have said; the models have the
behaviour of the code, and the properties are stated so that they are true of it.

**Accounts.** `removeAccount` (`models/user.js:301`) asks the cache whether the account is signed in; one that another tab
signed in is removed and stays named. `sessionStatus` (`models/account.js:286`) drops the session token on INVALID_TOKEN,
whatever token the account has by then. `destroyOAuthApp` retries with the token it had read before (`account.js:996`). An
assertion that was rejected is kept for an hour as a rejected promise (`account.js:219`). A change of the profile after a failed fetch
does not clear the cached request. A list of clients fetched before one was destroyed brings it back. Late answers to
`replaceRecoveryCodes` show dead codes. `newsletters.push` (`models/marketing-email-prefs.js:92`) changes a default all objects share.

**Start.** A browser that says it supports `fxa_status` and never answers leaves the page blank: the timeout of a request
only logs (`lib/channels/duplex.js`). With storage denied, a link ends at the error page and not at `/cookies_disabled`
as `lib/app-start.js:529` says, since `same-browser.js` reads `window.localStorage` unguarded. A context of `oauth` without client (or
one stored by an earlier sign-up) gives an OAuth broker with a relier that is none. A link of one client opened after
a sign-up for another one is completed for the latter (`models/reliers/oauth.js:152`). `Session.clear` in one tab erases
the flow of another. The conditions that choose a broker look for Sync in an iframe before they look for OAuth (`app-start.js:320`), those that choose
a relier look for OAuth first, "if the Sync check is done first, a bad acting OAuth relier could specify both a client_id and service=sync
which would cause us to present the Sync UI to the user" (`app-start.js:256`): `/oauth/success/<client>` with `service=sync` and
`context=iframe` has a relier of OAuth and the broker of Sync's first run (`AsksForFirstRun`, the case `RelierHasItsBroker` states). The
desktop's relier of pairing is made without a session, so that an e-mail's code in its address throws a `TypeError` (`reliers/oauth.js:153`). The phone's relier skips the normalization of scopes and the check of where keys go
(`reliers/pairing/supplicant.js`). Permissions the user unticks are granted all the same: what is sent is the relier's scope. A name
set in another browser is granted without having been shown.

**Sign in.** The FxSync brokers override `onFxaStatus` without the base's, so `supportsPairing` is never set there.
`options.originalLoginEmail` is never passed by the retry that needs it. `force_auth.onSignInError` displays an error
and goes on. `finishOAuthFlow` forgets the flow before it has the code. `verifiedCanLinkAccount` is not compared with
the e-mail and a failing CAN_LINK is taken for none: after the user agreed to one account, a login to another whose question
failed is reported as agreed to (`fx-sync-channel.js:130`, `:285`), the exception in `LoginIsAgreed`. A view that wants a verified session
navigates to `signin_code`, which is no route (`views/base.js:321`). In the iOS context the settings take over the stored
account the relier names by its uid: its keys were only in memory, so that it is confirmed and the browser is never
told of them (the exception in `BrowserHasTheKeys`).
With `action=signin` or `signup` and the experiment of the first screen the user is sent in a circle for ever (`index.js:53`,
`email-first-experiment-mixin.js:37`), the exception `InACircle` in `FlowMovesOn`.
If the request that should explain an error of the poll fails itself, nobody is told (`polls/session-verification.js:98`, `:11`).

**Reset and links.** `isPasswordResetComplete` takes any missing token for a reset that was made (`lib/fxa-client.js:633`). A
link that was used already, opened again, stops the poll of a waiting tab for ever (`TAB_OPEN` is sent for an expired
link too); so does one opened here when the reset is then made in another browser, or its answer is lost
(`confirm_reset_password.js:140`). `ResetIsNoticed` promises nothing for these. A wrong recovery key that exchanged the token leaves the form shown (`complete_reset_password.js:204`). With two
resets both tabs redirect (`oauth-redirect.js:322`). `resetPasswordWithRecoveryKey` drops `emailToHashWith`.
`country-telephone-info.js:46` says a missing rolloutRate means 1, `send-sms-install-link.js:43` takes 0. `isAnotherAccountSignedIn` is
true when only its argument is a default account (`models/user.js:205`). A sign-in link opened in place of the OAuth tab never finishes the flow, though the
comment at `oauth-redirect.js:267` says that the link that replaces the tab does (only `afterCompleteSignUp` is overridden, `:346`); nor is a
flow whose end failed tried again: its state and its mark were cleared first (`:305-311`). `country-telephone-info.js` keeps the trunk 0
that the patterns of Australia, Belgium, France and Britain take, after the prefix, and puts the prefix before a country code that was typed without a plus.

**Screens.** A view replaced while it rendered is written into the page nevertheless (`views/app.js:84`). A hasty second
navigation gives a lazily loaded view the data of another page; the browser's buttons leave the stack of view models behind.
A view whose rendering fails stays the current one under the error page (`app.js:154`), so that a route of its class renders nothing.
A view that stays for another URL keeps the data of the last one in its model (`app.js:104`).
`afterSubmit` is called without a result (`form.js:216`), so no behavior can halt it. Text errors passed with `navigate` are reported twice. An
answer that halts within 100 ms leaves the form enabled. A screen made again while a submit waits for the indicator
loses the submit. The listeners of a tooltip stay on the input (`tooltip.js:80` says otherwise).
`Validate.isVerificationRedirectValid`, used by `vat.js:34`, does not exist.

**Pairing and channels.** `docs/pairing-architecture.md:78` says that the users may accept in any order; in one order of
promise and message the phone waits for a code it already received (`supplicant-state-machine.js:84`): `CodeTakenWhileAccepting`,
the exception `EveryoneLearns` names. Requests of the old desktop channel with the
same command lose the older promise. A request whose dispatch fails is never forgotten, although `duplex.js:155` says so.

**Metrics.** If only the answer of a report is lost, its events are logged twice, those that are collected once too
(`CountedTwiceOnlyUnheard` names it); a resumed flow is not marked, so its begin is logged again by the first view. A clock
set back refuses the whole batch; so does one event later than two days after the start of its page
(`post-metrics.js:59`, `configuration.js:77`), and the retry is refused as well: a tab left open loses what it collects. A resume token with a flow id and no begin makes every report invalid. An entrypoint with a colon passes the schema
and drops all data of the flow (`flow-event.js:34`). Performance events are lost unless they are in the first report.
`flow.begin` of `GET /metrics-flow` has the epoch as flow time (`get-metrics-flow.js:78`).

## 5. What is proved

All theorems hold for every value of the constants, under the assumptions the modules name. Most say only what kind of
thing each constant is, and that "undefined" is none of the defined values (`ConstantsAssumption`, `NoAccountAssumption`,
`DuplexAssumption`, `NavigationAssumption`, `BoundsAssumption`, `TokenAssumption`, `SettingsAssumption`, those of the
pairing modules). Six say more:

- `UrlsAssumption` (`Start`): nobody starts at a screen only other screens lead to (`InnerScreens`). The permissions and
  the confirmation send whoever comes without a session away (`views/permissions.js:243`, `views/confirm.js:61`); the
  others are names the model gives to ends.
- `ScenariosAssumption` (`ResetPassword`): the set-ups are of known contexts, and a context of Sync means the service
  Sync, whose relier wants keys (`models/reliers/sync.js:66`).
- `ScenariosAssumption` (`SignInFlow`): the kinds of set-up there are; reliers of Sync want keys
  (`models/reliers/sync.js:66`), and `/force_auth` is only opened with an e-mail, without which it is an error screen
  (`views/force_auth.js`).
- `LinkScenariosAssumption` and `NumbersAssumption` (`Links`): the kinds of link, session and context there are, and that a
  telephone number is a prefix, a first digit and a length.
- `ScenariosAssumption` (`Page`): every password input carries the class `password`, by which its kind is found also while
  it is legible (`views/elements/password-input.js`), as those of the templates do.
- `ScenariosAssumption` (`Metrics`): times are natural numbers, skews and jumps integers, and a page is opened after its
  flow began.

| module | theorems | of these, checked by a run |
|---|---|---|
| `UserAccounts_proofs` | `TypesHold`, `TokensAreNeverMixed`, `DisagreementIsCaused`; of the user of one tab, whom `MCUserAccounts` adds: `OneTabAgreesAlways` | `TypeOK`, `TokensStayWithTheirAccount`, `DisagreementHasACause`; `OneTabAgrees` |
| `Channels_proofs` | of `Pairing`: `PairingTypes`, `CodeIsAccepted`, `CompleteIsAccepted`, `FailureStays`, `PairingKeepsConsent` | `CodeNeedsBothUsers`, `CompleteNeedsBothUsers`, `KeepsConsent` |
| | of `DuplexChannel`: `AnswersReachTheirRequests`, `WaitsForThePending`, `ResponsesSettle`, `TimeoutsAreCleared` | `AnswersMatch`, `RequestsAreWaitedFor`, `ResponseSettlesRequest` |
| | of `SignUpConfirmation`: `SignUpTypes`, `ToldOnce`, `ToldOfTheChoice`, `ConfirmedGoOn`, `BrowserHears`, `OnePoll` | `OneLoginPerAccount`, `BrowserIsToldOfChoices`, `OnlyTheConfirmedGoOn`, a part of `PollIsFaithful` |
| `Screens_proofs` | of `Navigation`: `TypesHold`, `OneViewIsAlive`; of the patient user, whom `MCNavigation` adds: `PatientStaysInStep`; of `Page`: `FormInvariant`, `SubmitsAreSound`, `ScreenIsTrue` | `AliveIsCurrent`; `PatientHistoryAgrees`; `SubmitIsSound`, `ScreenTellsTheState` |
| `SignInFlow_proofs` | `LinksAreAgreed`, `EndsAreVerified`, `TooYoungNeverSignsUp` | `LoginIsAgreed`, `FlowEndsVerified`, `TooYoungStaysOut` |
| `Start_proofs` | `StartFits`, `NothingElseIsGranted` | `StartIsConsistent`, `GrantsAreAllowed` |
| `EmailLinks_proofs` | of `ResetPassword`: `Invariant`, `ResetsAreReported`, `KeysAreKept`; of `Links`: `LinkInvariant`, `VerificationsAreHeard`, `TextsAreAddressed` | `ResetIsReported`, `KeysSurviveUnlessLost`; `VerificationIsHeard`, `MessagesAreAddressed` |
| `Metrics_proofs` | `Invariant`, `EventsAreNeverForgotten`, `LinesAreSound` | `EventsAreKept`, `FlowDataIsSound` |
| `Settings_proofs` | `TokensAlwaysHold` | `SettingsTokensHold` |

**Accounts.** Ownership of tokens is not inductive: a continuation may use a token it captured although its object has
lost or changed it. The invariant adds that a captured token belongs to the account of the call, that calls that create an
account are not aliased to the cache, and that a valid token has an owner, which never changes. A tab is in
step with the storage (`Agrees`) when the account that the storage names is stored and is the one the tab caches. A step of
a tab in step leaves it so, whatever the other tabs did before: a call that works on the cached object writes it back under
that uid, one on an object of its own either leaves the cache alone or makes its account the signed in one. As a step
leaves the memory of the other tabs alone, `DisagreementIsCaused` follows for any number of tabs, and `OneTabAgreesAlways`
for the one tab of a user who opens no other.

**Pairing.** A consent passes through a promise, a message, a state and a heartbeat before a screen depends on it; the
invariant says of each of those places whose consent it stands for. The refinement is proved as initial states and steps.

**Channels.** What is proved is about WebChannels (the hypothesis `WebChannels`; the kind of the channels is a constant of
`DuplexChannel`): their suffix counts the requests, so no two have the same id, and entries and replies carry the id of
their request.

**Navigation.** A view is created or destroyed in three places only; everything else keeps `alive` and `current` together.
`PatientStaysInStep` is about users who wait for each screen. What renders is the current view, and one that is imported is that
of the page one is at (`Waits`), so that the view shown in the end is that of the URL, whatever buttons are used. The data
is another matter: going back takes the model off the stack before the browser has moved, so the stack agrees with the history up
to `place - back`; a reload empties it, so it may be shorter (`InStep`). Filling the model of a view that stays mixes data of one
view only, since what is in a model is meant for the view that has it and for the page whose navigation made it (`Kinds`).
Without the waiting, or with the browser's buttons, that is false, which is what section 4 says.

**Forms.** A button's count is bounded by the operations under way that are its own: one that a screen made
again left behind counts nowhere, as its indicator went with the old screen. What was judged valid when the submit started
stays so without an edit, because a legible password is checked as a password (`PasswordHelper`, by the order of the kinds of
inputs). "Still working" is said by a submit that is under way and knows it, so that its end takes the notice away; an error
puts its own in place. At most one tooltip is shown, and a mark is its input's, also when keys reach the listeners of
tooltips long gone. That an error is reported once is proved of the errors the model tells apart: the answers to the second
and later submits are one there.

**Sign-up.** That the browser hears of a login once is not inductive: the broker remembers one uid, and forgets it at a
reload. The invariant says who may still be told of: the account of the choice and that of a submit under way were never
told of, and each account has one such submit; on the screen that waits the uid is remembered, or the keys are gone.
`BrowserHears` adds what each screen that waits, and each request that would leave it, has told already. `OnePoll` counts
the tasks of a poll: its timer and the request of the screen are one, or there
is none. What is shown of each step besides is that the poll does not fall silent by it (waits, with neither), unless it is
the one in which the check of the uid fails (`polls/session-verification.js:98`): then nobody is told, against `:11`.

**Sign in.** The invariant has three parts: the world (the server, the relier, what is stored, the broker, what the user
agreed to), the screen, and the calls under way; each is an operator of what it depends on, so that an action is looked at
in the parts it changes. The keys go with the account from the form through permissions, the choice of engines, second
factors and confirmations until the broker of the context tells the browser: of every screen and every call the
invariant says whether they are still to come or the browser has them (`Carried`): a screen that waits for a confirmation
is shown after the browser was told, or without keys. Where a broker's behaviors lead is one of a few ends (`DonePages`), at
which the session is verified. An account with keys, and a call that may make one, is of an e-mail in `asked`, so
that a login that may be linked without asking is. For `TooYoungStaysOut` no step makes more calls that
create an account than there were (`NoneMore`), as every way to a form of a new account asks the cookie first.

**Start.** The invariant goes by the phases of a page, and from page to page by what is stored. Before the server has
answered, the relier is what `fetch` makes of the URL or of the session (`Made`, with a lemma for each kind of relier);
afterwards its scope is one that some address asked for, narrowed or with the profile written out. What the session keeps for a
link is within that, and within what the user of this browser has seen if the client is not trusted; nothing is forgotten
of what was seen. Both rows of conditions are followed for each kind of relier, and agree but for Sync's first run (`RowsAgree`). The theorem about codes is
about those that sign-ins and links issue: the reliers of pairing are fetched and given a broker, and granted nothing here.

**Reset.** One invariant per tab, `TabOK`: what goes back to the relying party comes of asking, a screen of a link has a
token, the tabs of Sync want keys, the form that gives up the key is shown to who has no recovery key or lost it, and a
broker that remembers an account has told the browser of its keys. Of the messages on their way it needs that those of Sync carry
keys, of the browser that a stored context of Sync comes of Sync. The steps of a tab are lemmas about one tab, so that the
other one is not looked at.

**Links.** The invariant counts: the other
tabs heard no more often than the link was opened, less often while an answer is on its way, and before it is opened
nothing was verified. A session that is stored after an opening is one the tab of the link had, unless the link was opened
in another browser, and who signs in or out elsewhere does not give the tab one. That the relying party hears at most once needs that a tab
which may still return, as the original tab or by its poll, finds that none did; that it hears, that the first link opened in place of
the tab that asked is still marked as the original tab and has the broker of OAuth when its code is verified (`Comes`). For text messages it goes along the
screens: from the one that types on, the country is eligible; from the submit on, the number is normalised for the country,
which sending again does not change, as to normalise twice is to normalise once (`NumberOK`, by the tables of countries).

**Metrics.** What matters of the ways an event may go is which numbers are on each (`Parted`), and of a report under way
which tries were lost and what the server has of it (`Tried`): no two reports have an event in common, so that what the
server has twice came from the two tries of one report, the second sent because the answer to the first was lost.
Times (`TimesOK`) are bounds on the offsets by the page's own clock; the server's estimate subtracts the same clock again, so
that any skew cancels out, and what breaks it is a clock that is set. What is logged once has one number wherever it is
known (`OnceOK`), as the metrics remember its type after the event was sent.

**Settings.** The invariant goes by the panel in use. A request that was refused goes out again with a token that was issued
after the first one was kept (`CallOK`): what the server issues is the least number it has not issued, hence new, and
nothing else enters `account.access`. Of the newsletter at most one operation is under way that has its token in
`account.prefs`, and a token the server still knows is in that place, in a call that destroys it, or lost by a failure
(`NewsletterOK`). The session changes in the panels of the account alone, from the first to the second when the password does;
between the answer of the server and the end of that call the account has the old one, and the call is there to replace it
(`AccountPanelOK`). In every other panel it stays the first, so that no assertion and no token is refused while nothing
failed (`OtherPanelOK`). When a session ended and nothing failed, a call is under way that leads away from the settings
(`Ends`): so a screen with nothing under way has a session the server knows. What was ended elsewhere, or failed, is
excluded in the property itself, by `trouble`.

**Only model-checked.** Everything under fairness, which is out of the proof system's reach: `StartEnds`, `PanelsSettle`,
`OwnEndIsNoticed`, `FlowMovesOn`, the second half of `PollIsFaithful`, `ResetIsNoticed`, `LinkEnds`, `CurrentIsWritten`,
`SubmitEnds`, `EveryoneLearns`, `FlushEnds`. Every other property of a run is a theorem. No module has a RECURSIVE
operator, and no theorem needs induction over data.

## 6. What is left out

Of the parts modelled: attributes of accounts that no property tells apart; teardown of channels (never called); child
views and links that leave the application; the reload of a page while pairing; the positions and the wording of what
a screen shows; the hints on mistyped domains; which panels a relier asks for; avatars' geometry; the encoding of resume
tokens; the timers of speed-trap. `Start` has one account and one tab at a time, and leaves out what only decorates a
screen (style, campaign, entrypoint), the unique user id, and parts whose construction neither fails nor decides anything.

Of the rest, for good: Sync engines, experiments and password strength are pure functions of tables, which a model would
copy; texts, errors and images are data; of cryptography the models keep only whether keys are there; pages and headers of the
server are one answer per request from fixed tables; vendored code is external.
