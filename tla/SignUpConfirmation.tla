------------------------- MODULE SignUpConfirmation -------------------------
(***************************************************************************)
(* From signing up for Sync to the screen after confirmation.              *)
(*                                                                         *)
(* A user who has signed up chooses what to sync (choose_what_to_sync.js)  *)
(* and waits for the email to be confirmed (confirm.js).  Both screens ask *)
(* the auth server again and again whether it was (the poll of             *)
(* session-verification.js), so a user may be taken on from either.  The   *)
(* broker tells the browser of the login (fx-sync-channel.js), once.       *)
(*                                                                         *)
(* A step is one event of the page with all the promises it settles: a     *)
(* click, a timer, or the arrival of a reply; the server answers earlier.  *)
(* The brokers are those that offer the choice and do not take the page    *)
(* over once the email is confirmed.                                       *)
(***************************************************************************)
EXTENDS Naturals, Sequences

CONSTANTS
    MaxSignUps,    \* bound: accounts signed up for in one window
    MaxFailures    \* bound: requests that fail although the session is good

ASSUME ConstantsAssumption ==
    MaxSignUps \in Nat \ {0} /\ MaxFailures \in Nat

VARIABLES
    screen,    \* the view shown
    who,       \* the account it was given; 0 for none
    signUps,   \* accounts signed up for so far
    account,   \* what the window knows of each account
    waiting,   \* `_isWaiting` of the poll of the view shown
    timers,    \* the timers of the view shown: to poll, to start polling again
    gaveUp,    \* the view shown displays the error its poll ended with
    calls,     \* requests to the auth server, with the reply once it has one
    loginUid,  \* the broker's `_uidOfLoginNotification`
    logins,    \* LOGIN messages sent to the browser
    registered, confirmed, sessions,  \* the auth server, per account
    failures   \* how often a request has failed

view       == <<screen, who, waiting, timers, gaveUp>>
broker     == <<loginUid, logins>>
server     == <<registered, confirmed, sessions>>
signUpVars == <<screen, who, signUps, account, waiting, timers, gaveUp, calls,
                loginUid, logins, registered, confirmed, sessions, failures>>

Uid    == 1..MaxSignUps
Screen == {"signup", "choose", "confirm", "next"}
Polling == {"choose", "confirm"}

\* `chosen`: customizeSync, false until the user has chosen.  `keys`: the
\* account has keyFetchToken and unwrapBKey, which are never stored.
Account == [token : BOOLEAN, verified : BOOLEAN, chosen : BOOLEAN, keys : BOOLEAN]

Call  == [uid : Uid, view : Polling, kind : {"status", "uid", "fetch", "resend"},
          reply : {"none", "verified", "unverified", "invalid", "failed",
                   "exists", "gone", "ok"}]
Login == [uid : Uid, chosen : BOOLEAN]

-----------------------------------------------------------------------------
SignUpInit ==
    /\ screen = "signup" /\ who = 0 /\ signUps = 0
    /\ account = [u \in Uid |-> [token |-> FALSE, verified |-> FALSE,
                                 chosen |-> FALSE, keys |-> FALSE]]
    /\ waiting = FALSE /\ timers = {} /\ gaveUp = FALSE
    /\ calls = {}
    /\ loginUid = 0 /\ logins = <<>>
    /\ registered = {} /\ confirmed = {} /\ sessions = {}
    /\ failures = 0

-----------------------------------------------------------------------------
(* Requests.  The view that made one may be gone when its reply arrives.   *)

Live(r) == r.view = screen /\ r.uid = who

Asking(u, v, kind) == [uid |-> u, view |-> v, kind |-> kind, reply |-> "none"]

\* sessionStatus rejects at once if the account has no session token.
Status(u, v, a) ==
    [Asking(u, v, "status") EXCEPT !.reply = IF a.token THEN "none" ELSE "invalid"]

\* account.fetch
NeedsFetch(a) == a.token /\ ~a.verified

\* What sessionStatus does to the account, whoever asked.
Updated(a, reply) ==
    CASE reply = "verified"   -> [a EXCEPT !.verified = TRUE]
      [] reply = "unverified" -> [a EXCEPT !.verified = FALSE]
      [] reply = "invalid"    -> [a EXCEPT !.token = FALSE]
      [] OTHER                -> a

-----------------------------------------------------------------------------
(* Moving on.  A new view has no error and a poll of its own; the poll and *)
(* the timers of the view that is left end with it.                        *)

Leave(u, s) ==
    /\ screen' = s /\ who' = u
    /\ waiting' = FALSE /\ timers' = {} /\ gaveUp' = FALSE

\* afterVisible: waitForSessionVerification starts a poll.
Open(u, v, a, others) ==
    /\ screen' = v /\ who' = u
    /\ waiting' = TRUE /\ timers' = {} /\ gaveUp' = FALSE
    /\ calls' = others \cup {Status(u, v, a)}

\* Mutants: the login is not remembered; it is sent without looking whether
\* the account can be used.
ForgetLogin(u, a) ==
    IF a.token /\ a.keys
      THEN /\ logins' = Append(logins, [uid |-> u, chosen |-> a.chosen])
           /\ UNCHANGED loginUid
      ELSE UNCHANGED broker

\* _notifyRelierOfLogin
NotifyRelierOfLogin(u, a) ==
    IF a.token /\ a.keys /\ u # loginUid
      THEN /\ loginUid' = u
           /\ logins' = Append(logins, [uid |-> u, chosen |-> a.chosen])
      ELSE UNCHANGED broker

\* The confirm view goes back to sign up if the account has no session token.
\* Otherwise it tells the browser, then polls.
OpenConfirm(u, a, others) ==
    IF a.token
      THEN /\ NotifyRelierOfLogin(u, a)
           /\ Open(u, "confirm", a, others)
      ELSE /\ Leave(u, "signup")
           /\ calls' = others
           /\ UNCHANGED broker

\* Mutant: the browser is told only before the poll on the confirm screen.
ConfirmedUntold(u, a, others) ==
    /\ Leave(u, "next")
    /\ calls' = others
    /\ UNCHANGED broker

\* afterSignUpConfirmationPoll
AfterSignUpConfirmationPoll(u, a, others) ==
    /\ NotifyRelierOfLogin(u, a)
    /\ Leave(u, "next")
    /\ calls' = others

\* Mutant: whoever has chosen goes on.
AfterSignUpUnchecked(u, a, others) == AfterSignUpConfirmationPoll(u, a, others)

\* onSubmitComplete: onSignUpSuccess, afterSignUp
AfterSignUp(u, a, others) ==
    IF a.verified THEN AfterSignUpConfirmationPoll(u, a, others)
                  ELSE OpenConfirm(u, a, others)

-----------------------------------------------------------------------------
(* The user.                                                               *)

SignUp ==
    /\ screen = "signup" /\ signUps < MaxSignUps
    /\ LET u == signUps + 1
           a == [token |-> TRUE, verified |-> FALSE, chosen |-> FALSE, keys |-> TRUE]
       IN  /\ signUps' = u
           /\ account' = [account EXCEPT ![u] = a]
           /\ registered' = registered \cup {u}
           /\ sessions' = sessions \cup {u}
           /\ Open(u, "choose", a, calls)
    /\ UNCHANGED <<broker, confirmed, failures>>

\* validateAndSubmit allows one submit at a time.
Submitting == \E r \in calls : r.kind = "fetch" /\ Live(r)

\* submit: remember the choice, setAccount, onSubmitComplete.  `others` are
\* the requests that go on.
Choose(a, others) ==
    LET b == [a EXCEPT !.chosen = TRUE] IN
    /\ account' = [account EXCEPT ![who] = b]
    /\ IF NeedsFetch(b)
         THEN /\ calls' = others \cup {Asking(who, "choose", "fetch")}
              /\ UNCHANGED <<view, broker>>
         ELSE AfterSignUp(who, b, others)

Submit ==
    /\ screen = "choose" /\ ~Submitting
    /\ Choose(account[who], calls)
    /\ UNCHANGED <<signUps, server, failures>>

\* One resend at a time is enough: it changes nothing but the screen.
Resend ==
    /\ screen = "confirm"
    /\ \A r \in calls : r.kind # "resend"
    /\ calls' = calls \cup {Asking(who, "confirm", "resend")}
    /\ UNCHANGED <<view, signUps, account, broker, server, failures>>

\* A reload loses the model of the view, and all that was not stored.
Reload ==
    /\ screen # "signup"
    /\ Leave(who, "signup")
    /\ account' = [account EXCEPT ![who] = [@ EXCEPT !.chosen = FALSE, !.keys = FALSE]]
    /\ calls' = {}
    /\ loginUid' = 0
    /\ UNCHANGED <<signUps, logins, server, failures>>

\* After a reload the settings send an unconfirmed user to the confirm screen
\* with the account that was stored.
OpenStored ==
    /\ screen = "signup" /\ who # 0 /\ calls = {}
    /\ ~account[who].keys /\ who \in sessions \ confirmed
    /\ LET a == [account[who] EXCEPT !.token = TRUE, !.verified = FALSE] IN
         /\ account' = [account EXCEPT ![who] = a]
         /\ OpenConfirm(who, a, {})
    /\ UNCHANGED <<signUps, server, failures>>

-----------------------------------------------------------------------------
(* The auth server.                                                        *)

ServerChange ==
    /\ \/ \E u \in registered : confirmed' = confirmed \cup {u} /\ UNCHANGED <<registered, sessions>>
       \/ \E u \in sessions : sessions' = sessions \ {u} /\ UNCHANGED <<registered, confirmed>>
       \/ \E u \in registered : /\ registered' = registered \ {u} \* the email bounced
                                /\ sessions' = sessions \ {u}
                                /\ UNCHANGED confirmed
    /\ UNCHANGED <<view, signUps, account, calls, broker, failures>>

ReplyTo(r) ==
    IF r.kind = "uid" THEN IF r.uid \in registered THEN "exists" ELSE "gone"
    ELSE IF r.uid \notin sessions THEN "invalid"
    ELSE IF r.kind = "resend" THEN "ok"
    ELSE IF r.uid \in confirmed THEN "verified" ELSE "unverified"

ServerAnswer(r) ==
    /\ r \in calls /\ r.reply = "none"
    /\ \/ /\ calls' = (calls \ {r}) \cup {[r EXCEPT !.reply = ReplyTo(r)]}
          /\ UNCHANGED failures
       \/ /\ failures < MaxFailures
          /\ failures' = failures + 1
          /\ calls' = (calls \ {r}) \cup {[r EXCEPT !.reply = "failed"]}
    /\ UNCHANGED <<view, signUps, account, broker, server>>

-----------------------------------------------------------------------------
(* Replies.                                                                *)

\* The poll waits no longer, and its next question is not asked.
StopPolling == waiting' = FALSE /\ timers' = timers \ {"poll"}

\* 'verified' is triggered: the confirm view goes on, the other one submits.
\* A submit that is under way makes it throw: nothing happens but the stop.
Verified(a, others) ==
    \/ /\ screen = "confirm"
       /\ account' = [account EXCEPT ![who] = a]
       /\ AfterSignUpConfirmationPoll(who, a, others)
    \/ /\ screen = "choose" /\ ~Submitting
       /\ Choose(a, others)
    \/ /\ screen = "choose" /\ Submitting
       /\ account' = [account EXCEPT ![who] = a]
       /\ calls' = others
       /\ StopPolling
       /\ UNCHANGED <<screen, who, gaveUp, broker>>

\* Mutant: an unexpected error ends the poll without a word.
StatusFailsSilently(r) ==
    /\ r.reply = "failed"
    /\ StopPolling
    /\ calls' = calls \ {r}
    /\ UNCHANGED <<screen, who, gaveUp>>

\* An error that is to be hidden starts the poll again after a while; another
\* is displayed.
StatusFailed(r) ==
    /\ r.reply = "failed"
    /\ waiting' = FALSE
    /\ \/ timers' = {"retry"} /\ UNCHANGED gaveUp
       \/ timers' = {} /\ gaveUp' = TRUE
    /\ calls' = calls \ {r}
    /\ UNCHANGED <<screen, who>>

\* _onStatusComplete and _onStatusError, with the handlers of the view.
StatusArrives(r) ==
    LET a == Updated(account[who], r.reply)
        others == calls \ {r}
    IN  /\ r.kind = "status" /\ Live(r) /\ waiting
        /\ \/ r.reply = "verified" /\ Verified(a, others)
           \/ /\ account' = [account EXCEPT ![who] = a]
              /\ \/ /\ r.reply = "unverified"
                    /\ timers' = timers \cup {"poll"}
                    /\ calls' = others
                    /\ UNCHANGED <<screen, who, waiting, gaveUp>>
                 \/ /\ r.reply = "invalid"
                    /\ calls' = others \cup {Asking(who, screen, "uid")}
                    /\ UNCHANGED view
                 \/ StatusFailed(r)
              /\ UNCHANGED broker

\* A poll without a view: only the account learns of the answer.
LateStatusArrives(r) ==
    /\ r.kind = "status" /\ ~(Live(r) /\ waiting)
    /\ account' = [account EXCEPT ![r.uid] = Updated(@, r.reply)]
    /\ calls' = calls \ {r}
    /\ UNCHANGED <<view, broker>>

\* checkUidExists: the account is gone, or it exists and its session ended.
\* Nobody handles a failure.
UidArrives(r) ==
    /\ r.kind = "uid"
    /\ calls' = calls \ {r}
    /\ \/ r.reply = "gone" /\ Live(r) /\ Leave(who, "signup")
       \/ /\ r.reply = "exists" /\ Live(r)
          /\ StopPolling /\ gaveUp' = TRUE
          /\ UNCHANGED <<screen, who>>
       \/ (r.reply = "failed" \/ ~Live(r)) /\ UNCHANGED view
    /\ UNCHANGED <<account, broker>>

\* The fetch of setAccount swallows its error; the submit goes on, whether or
\* not its view is still there.
FetchArrives(r) ==
    LET a == Updated(account[r.uid], r.reply) IN
    /\ r.kind = "fetch"
    /\ account' = [account EXCEPT ![r.uid] = a]
    /\ AfterSignUp(r.uid, a, calls \ {r})

ResendArrives(r) ==
    /\ r.kind = "resend"
    /\ IF r.reply = "invalid" THEN Leave(r.uid, "signup") ELSE UNCHANGED view
    /\ calls' = calls \ {r}
    /\ UNCHANGED <<account, broker>>

Arrive(r) ==
    /\ r \in calls /\ r.reply # "none"
    /\ \/ StatusArrives(r) \/ LateStatusArrives(r)
       \/ UidArrives(r) \/ FetchArrives(r) \/ ResendArrives(r)
    /\ UNCHANGED <<signUps, server, failures>>

\* _poll, after the interval
PollAgain ==
    /\ "poll" \in timers
    /\ timers' = timers \ {"poll"}
    /\ calls' = calls \cup {Status(who, screen, account[who])}
    /\ UNCHANGED <<screen, who, waiting, gaveUp, signUps, account, broker, server, failures>>

\* start, after an error that was hidden
StartAgain ==
    /\ "retry" \in timers
    /\ timers' = timers \ {"retry"}
    /\ waiting' = TRUE
    /\ calls' = IF waiting THEN calls
                ELSE calls \cup {Status(who, screen, account[who])}
    /\ UNCHANGED <<screen, who, gaveUp, signUps, account, broker, server, failures>>

SignUpNext ==
    \/ SignUp \/ Submit \/ Resend \/ Reload \/ OpenStored
    \/ ServerChange
    \/ \E r \in calls : ServerAnswer(r) \/ Arrive(r)
    \/ PollAgain \/ StartAgain

SignUpSpec == SignUpInit /\ [][SignUpNext]_signUpVars

\* Timers fire, the server answers what the view shown has asked, replies
\* arrive, and with MaxFailures the network recovers.
Served(kind) == \E r \in calls : r.kind = kind /\ Live(r) /\ (ServerAnswer(r) \/ Arrive(r))
SignUpFairSpec ==
    /\ SignUpSpec
    /\ WF_signUpVars(PollAgain) /\ WF_signUpVars(StartAgain)
    /\ WF_signUpVars(Served("status")) /\ WF_signUpVars(Served("uid")) /\ WF_signUpVars(Served("fetch"))

-----------------------------------------------------------------------------
SignUpTypeOK ==
    /\ screen \in Screen /\ who \in Uid \cup {0} /\ signUps \in 0..MaxSignUps
    /\ (who = 0 => screen = "signup") /\ who <= signUps
    /\ account \in [Uid -> Account]
    /\ waiting \in BOOLEAN /\ gaveUp \in BOOLEAN /\ timers \subseteq {"poll", "retry"}
    /\ (timers # {} => screen \in Polling)
    /\ calls \subseteq Call
    /\ loginUid \in Uid \cup {0} /\ logins \in Seq(Login)
    /\ registered \subseteq Uid /\ confirmed \subseteq Uid /\ sessions \subseteq Uid
    /\ failures \in 0..MaxFailures

\* "Only send one login notification per uid to avoid race conditions within
\* the browser" (fx-sync-channel.js:255), whichever screen the user confirms
\* at and however often the page is reloaded.
OneLoginPerAccount ==
    \A i, j \in DOMAIN logins : logins[i].uid = logins[j].uid => i = j

\* The browser is never told of a login before the user has chosen what to
\* sync: it would start with the engines it has.
LoginsCarryTheChoice == \A i \in DOMAIN logins : logins[i].chosen

\* "Without the login notice, the browser will never know the user signed up"
\* (fx-sync-channel.js:171-173): nobody is shown the last screen before it is
\* sent, if the window has what the browser needs.
BrowserIsTold ==
    screen = "next" /\ account[who].keys /\ account[who].token
        => \E i \in DOMAIN logins : logins[i].uid = who

\* Stale answers, submits that go on without their view and reloads show the
\* last screen only to a user whose email is confirmed.
OnlyTheConfirmedGoOn == screen = "next" => who \in confirmed

\* What the poll of the view shown has asked; it waits and nothing is to come.
PollTasks == {r \in calls : Live(r) /\ r.kind \in {"status", "uid"}}
FellSilent == waiting /\ "poll" \notin timers /\ PollTasks = {}

\* A poll has a timer set or one request under way and never two chains, one
\* that does not wait has nothing.
PollHasOneTask ==
    /\ \A r, q \in PollTasks : r = q
    /\ "poll" \in timers => waiting /\ PollTasks = {}
    /\ ~waiting => PollTasks = {}

\* It falls silent in one way only: the request that is to explain an error
\* fails itself, and the `error` that session-verification.js:11 speaks of is
\* not triggered (:98).
SilentByFailedCheck ==
    [][~FellSilent /\ FellSilent' =>
         \E r \in PollTasks : r.kind = "uid" /\ r.reply = "failed" /\ calls' = calls \ {r}]_signUpVars

\* A user who confirms while a poll runs is taken on, or told why not, unless
\* the poll has fallen silent.
ConfirmationIsNoticed ==
    screen \in Polling /\ who \in confirmed ~> screen \notin Polling \/ gaveUp \/ FellSilent

\* What the browser hears when the user goes on: that there was a login, and
\* what to sync (fx-sync-channel.js:171, choose_what_to_sync.js:62).
BrowserIsToldOfChoices == BrowserIsTold /\ LoginsCarryTheChoice

\* The poll never forks, falls silent only when the check of the uid fails, and
\* else notices the confirmation (session-verification.js:60-98).
PollIsFaithful == []PollHasOneTask /\ SilentByFailedCheck /\ ConfirmationIsNoticed

=============================================================================
