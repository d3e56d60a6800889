--------------------------- MODULE DuplexChannel ---------------------------
(***************************************************************************)
(* The channel over which a page talks to the browser                      *)
(* (lib/channels/duplex.js) with its outstanding requests, as a WebChannel *)
(* (lib/channels/web.js) or as the channel of the first version of desktop *)
(* Sync (lib/channels/fx-desktop-v1.js). Several channels may live in one  *)
(* window; each sees every event the browser sends to the window. The      *)
(* browser is external: it answers what it is asked, in any order, late or *)
(* never.                                                                  *)
(*                                                                         *)
(* A request is named by its place in the sequence of all requests.        *)
(***************************************************************************)
EXTENDS Naturals, Sequences

CONSTANTS
    Channel,        \* the channels of the window
    Command,        \* commands that expect a response
    Kind,           \* "web" or "fxDesktopV1"
    CanFail,        \* a message may fail to be dispatched
    MaxRequests,    \* how many requests are made
    MaxTime         \* how far the clock, in milliseconds, goes

ASSUME DuplexAssumption ==
    /\ Kind \in {"web", "fxDesktopV1"}
    /\ CanFail \in BOOLEAN
    /\ MaxRequests \in Nat /\ MaxTime \in Nat

VARIABLES
    clock,          \* Date.now()
    messageIdSuffix,\* of the module, shared by all its channels
    requests,       \* every request made, with what became of its promise
    outstanding,    \* by channel, the ids waited for and the request of each
    timeouts,       \* requests whose timeout is set
    sending,        \* requests whose message is not dispatched yet
    asked,          \* requests the browser has and has not answered
    replies,        \* events of the browser on their way to the window
    answered        \* requests whose reply the window has received

duplexVars == <<clock, messageIdSuffix, requests, outstanding, timeouts,
                sending, asked, replies, answered>>

Index == 1..MaxRequests
Id == (Nat \cup Command) \X Nat
NoOne == 0

\* A promise is pending, resolved with the answer to some request, or
\* rejected with the error that answers it or that concerns the channel.
Result == [is : {"pending", "resolved", "rejected", "unsupported"}, of : 0..MaxRequests]
Pending == [is |-> "pending", of |-> NoOne]

Request == [channel : Channel, command : Command, id : Id, result : Result]
Entry == [id : Id, request : Index]

\* A reply carries the id it answers; "no such channel" carries none.
Reply == [is : {"message", "error", "no such channel"}, id : Id, of : Index]

DuplexInit ==
    /\ clock = 0
    /\ messageIdSuffix = 0
    /\ requests = <<>>
    /\ outstanding = [c \in Channel |-> {}]
    /\ timeouts = {}
    /\ sending = {}
    /\ asked = {} /\ replies = {} /\ answered = {}

-----------------------------------------------------------------------------
\* OutstandingRequests.

Waiting(c, id) == {e \in outstanding[c] : e.id = id}
Requests(entries) == {e.request : e \in entries}

\* remove: the timeout is cleared with the entry.
Remove(entries) ==
    /\ outstanding' = [c \in Channel |-> outstanding[c] \ entries]
    /\ timeouts' = timeouts \ Requests(entries)

\* add: an older request with the same id is forgotten.
Add(c, id, r) ==
    /\ outstanding' = [outstanding EXCEPT
                        ![c] = (@ \ Waiting(c, id)) \cup {[id |-> id, request |-> r]}]
    /\ timeouts' = (timeouts \ Requests(Waiting(c, id))) \cup {r}

-----------------------------------------------------------------------------
\* The page.

\* Mutant: a suffix for each channel.
MessageIdPerChannel(c, command) ==
    <<clock, Len(SelectSeq(requests, LAMBDA q : q.channel = c)) + 1>>

\* createMessageId: the text of the clock has always the same length, so clock
\* and suffix can be told apart in the id. The old desktop channel has only
\* the command to go by.
MessageId(c, command) ==
    IF Kind = "web" THEN <<clock, messageIdSuffix + 1>> ELSE <<command, 0>>

\* request: the sender dispatches in a promise of its own.
MakeRequest(c, command) ==
    LET r == Len(requests) + 1
        id == MessageId(c, command)
    IN  /\ r <= MaxRequests
        /\ messageIdSuffix' = IF Kind = "web" THEN messageIdSuffix + 1 ELSE messageIdSuffix
        /\ requests' = Append(requests, [channel |-> c, command |-> command,
                                         id |-> id, result |-> Pending])
        /\ Add(c, id, r)
        /\ sending' = sending \cup {r}
        /\ UNCHANGED <<clock, asked, replies, answered>>

Dispatch(r) ==
    /\ r \in sending
    /\ sending' = sending \ {r}
    /\ asked' = asked \cup {r}
    /\ UNCHANGED <<clock, messageIdSuffix, requests, outstanding, timeouts,
                   replies, answered>>

\* request does not wait for the sender's promise: nobody sees it reject.
DispatchFails(r) ==
    /\ CanFail
    /\ r \in sending
    /\ sending' = sending \ {r}
    /\ UNCHANGED <<clock, messageIdSuffix, requests, outstanding, timeouts,
                   asked, replies, answered>>

\* Mutant: the timeout ends the wait and leaves the promise.
TimeoutForgets(r) ==
    /\ r \in timeouts
    /\ timeouts' = timeouts \ {r}
    /\ outstanding' = [c \in Channel |-> {e \in outstanding[c] : e.request # r}]
    /\ UNCHANGED <<clock, messageIdSuffix, requests, sending, asked, replies, answered>>

\* The timeout is logged, nothing else.
TimeoutFires(r) ==
    /\ r \in timeouts
    /\ timeouts' = timeouts \ {r}
    /\ UNCHANGED <<clock, messageIdSuffix, requests, outstanding, sending,
                   asked, replies, answered>>

\* resolve and reject take effect on a promise that is still pending.
Settle(entries, result) ==
    requests' = [r \in DOMAIN requests |->
                    IF r \in Requests(entries) /\ requests[r].result = Pending
                    THEN [requests[r] EXCEPT !.result = result]
                    ELSE requests[r]]

Everyone == UNION {outstanding[c] : c \in Channel}

\* get: every channel looks for the id among its own requests.
AddressedTo(id) == UNION {Waiting(c, id) : c \in Channel}

\* onMessageReceived; an event that answers no request changes nothing here.
ReceiveMessage(reply) ==
    /\ reply.is = "message"
    /\ Remove(AddressedTo(reply.id))
    /\ Settle(AddressedTo(reply.id), [is |-> "resolved", of |-> reply.of])

\* onErrorReceived of a response
ReceiveError(reply) ==
    /\ reply.is = "error"
    /\ Remove(AddressedTo(reply.id))
    /\ Settle(AddressedTo(reply.id), [is |-> "rejected", of |-> reply.of])

\* Mutant: the requests are rejected and stay outstanding, as in clear(), which
\* looks for a request where an id is meant.
RejectAndKeep(reply) ==
    /\ reply.is = "no such channel"
    /\ Settle(Everyone, [is |-> "unsupported", of |-> NoOne])
    /\ UNCHANGED <<outstanding, timeouts>>

\* onErrorReceived of WebChannel: rejectAllOutstandingRequests
ReceiveUnsupported(reply) ==
    /\ reply.is = "no such channel"
    /\ Remove(Everyone)
    /\ Settle(Everyone, [is |-> "unsupported", of |-> NoOne])

ReceiveEvent(reply) ==
    /\ reply \in replies
    /\ replies' = replies \ {reply}
    /\ answered' = answered \cup {reply.of}
    /\ ReceiveMessage(reply) \/ ReceiveError(reply) \/ ReceiveUnsupported(reply)
    /\ UNCHANGED <<clock, messageIdSuffix, sending, asked>>

-----------------------------------------------------------------------------
\* The browser. The old one answers with the command and has no errors.

Answer(r, is) ==
    /\ r \in asked
    /\ Kind = "web" \/ is = "message"
    /\ asked' = asked \ {r}
    /\ replies' = replies \cup {[is |-> is, id |-> requests[r].id, of |-> r]}
    /\ UNCHANGED <<clock, messageIdSuffix, requests, outstanding, timeouts,
                   sending, answered>>

Tick ==
    /\ clock < MaxTime
    /\ clock' = clock + 1
    /\ UNCHANGED <<messageIdSuffix, requests, outstanding, timeouts,
                   sending, asked, replies, answered>>

DuplexNext ==
    \/ \E c \in Channel, command \in Command : MakeRequest(c, command)
    \/ \E r \in Index : Dispatch(r)
    \/ \E r \in Index : DispatchFails(r)
    \/ \E r \in Index : TimeoutFires(r)
    \/ \E r \in Index, is \in {"message", "error", "no such channel"} : Answer(r, is)
    \/ \E reply \in replies : ReceiveEvent(reply)
    \/ Tick

DuplexSpec == DuplexInit /\ [][DuplexNext]_duplexVars

-----------------------------------------------------------------------------
DuplexTypeOK ==
    /\ clock \in Nat /\ messageIdSuffix \in Nat
    /\ requests \in Seq(Request) /\ Len(requests) <= MaxRequests
    /\ outstanding \in [Channel -> SUBSET Entry]
    /\ timeouts \subseteq Index
    /\ sending \subseteq Index
    /\ asked \subseteq Index /\ answered \subseteq Index
    /\ replies \subseteq Reply

Made == DOMAIN requests
ResultOf(r) == requests[r].result

\* A promise is settled only with the browser's answer to its own request,
\* also when several channels send in the same millisecond (the comment on
\* messageIdSuffix).
AnswersMatch ==
    \A r \in Made : ResultOf(r).is \in {"resolved", "rejected"} => ResultOf(r).of = r

\* "Response not received" is only logged for a request that waits: settling
\* a request clears its timeout.
OnlyUnansweredTimeOut ==
    \A r \in timeouts : r \in Made /\ ResultOf(r) = Pending

\* A request is waited for exactly as long as its promise is pending.
OutstandingIsPending ==
    \A r \in Made :
        ResultOf(r) = Pending <=> r \in Requests(outstanding[requests[r].channel])

\* The dispatch of a request failed: it is neither on its way to the browser
\* nor with it, and was never answered.
Unsent(r) ==
    /\ r \notin sending \cup asked \cup answered
    /\ \A reply \in replies : reply.of # r

\* request returns before the sender has dispatched, so that its catch
\* (duplex.js:153), which says that such a request "is no longer considered
\* outstanding", is not reached: only the error that rejects all requests of
\* the channel ends one that was not sent.
UnsentIsNotNoticed ==
    \A r \in Made : Unsent(r) => ResultOf(r).is \in {"pending", "unsupported"}

\* A channel waits for a request exactly as long as its promise is pending;
\* one that could not be sent is waited for as well.
RequestsAreWaitedFor == OutstandingIsPending /\ UnsentIsNotNoticed

\* "Promise will resolve when the response is received."
\* (src/app/scripts/lib/channels/duplex.js:137), also when it comes after the
\* timeout, or after an error that rejected others.
ResponseSettlesRequest ==
    \A r \in answered : ResultOf(r) # Pending

=============================================================================
