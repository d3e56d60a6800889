-------------------------------- MODULE Metrics --------------------------------
(***************************************************************************)
(* The metrics of a page (lib/metrics, models/flow, the flow events of     *)
(* views) and what the server makes of a report (server/lib/flow-event and *)
(* server/lib/routes/post-metrics).                                        *)
(*                                                                         *)
(* Events are collected and sent together: when the window loses the       *)
(* focus, is left, after two minutes without an event, or before an        *)
(* external link is followed.  A report may be lost on its way or its      *)
(* answer may be; it is sent twice at most.  The clock of the page differs *)
(* from the server's and may be set while the page is open.                *)
(***************************************************************************)
EXTENDS Integers, SequencesExt, FiniteSets

CONSTANTS
    Scenarios,   \* the set-ups the run explores
    MaxEvents,   \* bound: the user does no more once so many events were collected
    Expiry,      \* how long a flow is valid (flow_id_expiry)
    MaxEventOffset \* how long after the start of its page an event is taken (max_event_offset)

ASSUME BoundsAssumption == MaxEvents \in Nat \ {0} /\ Expiry \in Nat \ {0} /\ MaxEventOffset \in Nat \ {0}

\* Times are whole; a page is opened after its flow began.
ASSUME ScenariosAssumption ==
    \A s \in Scenarios :
        s.begin \in Nat /\ s.age \in Nat /\ s.skew \in Int /\ s.jump \in Int /\ s.load \in Int

VARIABLES
    setup,    \* what the run is about
    now,      \* the server's clock
    page,     \* the page: its clock, and what it measures of itself
    client,   \* Metrics, with its flow model
    wire,     \* the reports under way
    server,   \* the lines the server has logged
    lost      \* the events of each try to send them that failed or was not heard of

vars == <<setup, now, page, client, wire, server, lost>>

(***************************************************************************)
(* The flow of the page, from the resume token, the address or the page.   *)
(* A flow is valid when its begin is the one its identifier was signed     *)
(* with; the address gives a pair that only the server judges.             *)
(***************************************************************************)
NoFlow == [id |-> "none", begin |-> FALSE]

\* An attribute of the page is taken if it is of its type; otherwise an error is captured.
PopulateFromDataAttribute(value) == IF value = "mangled" THEN "none" ELSE value

FromAddress(src) == src.resume = NoFlow /\ src.url.id # "none" /\ src.url.begin

\* Half a flow in the resume token is an error, and the half is all there is.
FlowOf(src) ==
    IF src.resume # NoFlow THEN src.resume
    ELSE IF FromAddress(src) THEN src.url
    ELSE [id |-> PopulateFromDataAttribute(src.attribute.id), begin |-> src.attribute.begin]

MarkEventLogged(c, name) == [c EXCEPT !.memory = @ \cup {name}]

\* Flow.initialize: when the address has the flow, the server has logged its begin.
InitializeFlow(c) ==
    IF FromAddress(setup.source) THEN MarkEventLogged([c EXCEPT !.flow = FlowOf(setup.source)], "flow.begin")
    ELSE [c EXCEPT !.flow = FlowOf(setup.source)]

\* A flow without an identifier is not kept, and looked for again by the next view.
InitializeFlowModel(c) == IF c.flow # NoFlow \/ FlowOf(setup.source).id = "none" THEN c ELSE InitializeFlow(c)

(***************************************************************************)
(* Collecting.                                                             *)
(***************************************************************************)
Clock == now + setup.skew + page.jump

ClearInactivityFlushTimeout(c) == [c EXCEPT !.timer = FALSE]

ResetInactivityFlushTimeout(c) == [c EXCEPT !.timer = TRUE]

LogEvent(c, name) ==
    [ResetInactivityFlushTimeout(c) EXCEPT
        !.count = @ + 1,
        !.events = Append(@, [n |-> c.count + 1, type |-> name, offset |-> Clock - page.start, at |-> now])]

LogEventOnce(c, name) == IF name \in c.memory THEN c ELSE MarkEventLogged(LogEvent(c, name), name)

\* The name of a flow's event has the view's, without the prefix of OAuth screens.
FlowTypes ==
    [begin |-> "flow.begin", engage |-> "flow.engage", submit |-> "flow.submit", link |-> "flow.link",
     experiment |-> "flow.experiment"]

MarshallFlowEvent(name, once) == [type |-> FlowTypes[name], once |-> once]

LogFlowEvent(c, event) ==
    IF c.flow = NoFlow THEN c
    ELSE IF event.once THEN LogEventOnce(c, event.type) ELSE LogEvent(c, event.type)

SetInitialView(c, view) == LogEventOnce([c EXCEPT !.initialView = view], "loaded")

\* The event of an experiment once, and the experiment in every report.
LogExperiment(c, choice, group) ==
    [LogFlowEvent(c, MarshallFlowEvent("experiment", TRUE)) EXCEPT !.experiments = @ \cup {<<choice, group>>}]

LogMarketingImpression(c, campaign, url) ==
    [c EXCEPT !.marketing = {m \in @ : <<m[1], m[2]>> # <<campaign, url>>} \cup {<<campaign, url, "not clicked">>}]

LogMarketingClick(c, campaign, url) ==
    IF <<campaign, url, "not clicked">> \in c.marketing
      THEN [c EXCEPT !.marketing = (@ \ {<<campaign, url, "not clicked">>}) \cup {<<campaign, url, "clicked">>}]
      ELSE c

SetUid(c, uid) == IF uid # "none" THEN [c EXCEPT !.uid = uid] ELSE c

ClearUid(c) == [c EXCEPT !.uid = "none"]

\* Only domains that many use are told apart.
MarshallEmailDomain(domain) == IF domain \in {"none", "popular.com"} THEN domain ELSE "other"

SetEmailDomain(c, domain) ==
    IF MarshallEmailDomain(domain) # "none" THEN [c EXCEPT !.domain = MarshallEmailDomain(domain)] ELSE c

(***************************************************************************)
(* A report.                                                               *)
(***************************************************************************)
AllowedFields ==
    {"broker", "context", "deviceId", "duration", "emailDomain", "entrypoint", "events", "experiments",
     "flowBeginTime", "flowId", "flushTime", "initialView", "isSampledUser", "lang", "marketing", "migration",
     "navigationTiming", "numStoredAccounts", "referrer", "screen", "service", "startTime", "timers", "uid",
     "uniqueUserId", "utm_campaign", "utm_content", "utm_medium", "utm_source", "utm_term"}

NeverFlushed == [uid |-> "none", domain |-> "none", experiments |-> {}, marketing |-> {}, flow |-> NoFlow,
                 initialView |-> "never", stored |-> ""]

\* What was not measured: the fields that are undefined, or the empty string.
Undefined(c) ==
    (IF c.flow = NoFlow THEN {"flowBeginTime", "flowId"} ELSE {})
    \cup (IF c.initialView = "none" THEN {"initialView"} ELSE {})
    \cup (IF c.stored = "" THEN {"numStoredAccounts"} ELSE {})

\* The times of the navigation are in the first report only.
FilteredFields(c) ==
    (AllowedFields \ Undefined(c)) \ (IF c.last # NeverFlushed THEN {"navigationTiming"} ELSE {})

\* What two reports are compared by: not the times, and not the events, which differ when there are any.
Compared(c) ==
    [uid |-> c.uid, domain |-> c.domain, experiments |-> c.experiments, marketing |-> c.marketing,
     flow |-> c.flow, initialView |-> c.initialView, stored |-> c.stored]

GetFilteredData(c) ==
    [fields |-> FilteredFields(c), events |-> c.events, flow |-> c.flow, flush |-> Clock, start |-> page.start,
     initialView |-> c.initialView]

\* A number of accounts that is no longer reported is no change.
IsFlushRequired(c) ==
    \/ c.last = NeverFlushed
    \/ Len(c.events) > 0
    \/ [c.last EXCEPT !.stored = ""] # [Compared(c) EXCEPT !.stored = ""]
    \/ c.stored # "" /\ c.last.stored # c.stored

\* Mutant: the events stay for the next report.
KeepEvents(c) == [ClearInactivityFlushTimeout(c) EXCEPT !.last = Compared(c), !.sent = @ + 1, !.stored = ""]

AfterFlush(c) == [ClearInactivityFlushTimeout(c) EXCEPT !.last = Compared(c), !.sent = @ + 1, !.stored = "", !.events = <<>>]

\* flush: what was collected is cleared, and sent.
Flush(c, sync) ==
    IF IsFlushRequired(c)
      THEN /\ client' = AfterFlush(c)
           /\ wire' = wire \cup {[n |-> c.sent + 1, data |-> GetFilteredData(c), try |-> 1, sync |-> sync, state |-> "sending"]}
      ELSE /\ client' = ClearInactivityFlushTimeout(c)
           /\ wire' = wire

(***************************************************************************)
(* What the server makes of a report.                                      *)
(***************************************************************************)
RequiredFields ==
    {"broker", "context", "deviceId", "duration", "events", "experiments", "flushTime", "isSampledUser", "lang",
     "marketing", "migration", "referrer", "screen", "service", "startTime", "uid", "uniqueUserId",
     "utm_campaign", "utm_content", "utm_medium", "utm_source", "utm_term"}

\* BODY_SCHEMA: no time is negative, no event too long after the start, and a flow has both
\* of its parts.  What it does not know is taken off.
FitsSchema(data) ==
    /\ RequiredFields \subseteq data.fields
    /\ data.flush >= data.start
    /\ \A i \in DOMAIN data.events : data.events[i].offset \in 0..MaxEventOffset
    /\ data.flow.id # "mangled" /\ (data.flow = NoFlow \/ data.flow.begin)

FindInvalidEventOffsets(data) == {i \in DOMAIN data.events : data.events[i].offset > data.flush - data.start}

Accepted(data) == FitsSchema(data) /\ FindInvalidEventOffsets(data) = {}

\* Mutant: the clock of the page is taken for the server's.
TimeOfPage(data, event, received) == data.start + event.offset

EstimateTime(data, event, received) == data.start + event.offset + (received - data.flush)

IsValidTime(time, received) == received - time \in 0..Expiry

\* The server's own key and the begin give the signature of the identifier.
ValidateFlow(flow) == flow.id = "signed"

IsValidFlowData(data, received) ==
    /\ data.flow # NoFlow
    /\ IsValidTime(setup.begin, received)
    /\ setup.entrypoint # "a:b"
    /\ ValidateFlow(data.flow)

\* What of the report goes with each of its lines.
PickFlowData(data) ==
    data.fields \cap ({"context", "entrypoint", "migration", "service"}
                      \cup IF setup.dnt THEN {} ELSE {"utm_campaign", "utm_content", "utm_medium", "utm_source"})

FlowEventOf(data, type) ==
    CASE type = "screen" -> "flow.view"
      [] type = "loaded" -> "flow.performance"
      [] OTHER           -> type

IsFlowEvent(type) == type \in {"flow.begin", "flow.engage", "flow.submit", "flow.link", "flow.experiment", "flow.view", "flow.performance"}

Line(data, event, time, flowTime) ==
    [n |-> event.n, type |-> FlowEventOf(data, event.type), at |-> event.at, received |-> now, time |-> time,
     flowTime |-> flowTime, fields |-> PickFlowData(data)]

EventLines(data, event) ==
    IF event.type = "flow.begin" THEN {Line(data, event, setup.begin, 0)}
    ELSE {Line(data, event, t, t - setup.begin) :
             t \in {x \in {EstimateTime(data, event, now)} : IsValidTime(x, now) /\ IsFlowEvent(FlowEventOf(data, event.type))}}

\* How long the page took, told with its `loaded' if the times are in the same report.
PerformanceLines(data) ==
    IF /\ "navigationTiming" \in data.fields
       /\ \E i \in DOMAIN data.events : data.events[i].type = "loaded"
       /\ setup.load > 0 /\ IsValidTime(setup.begin + setup.load, now)
      THEN {Line(data, [n |-> 0, type |-> "flow.performance", at |-> 0], setup.begin + setup.load, setup.load)}
      ELSE {}

MetricsRequest(data) ==
    IF IsValidFlowData(data, now)
      THEN (UNION {EventLines(data, data.events[i]) : i \in DOMAIN data.events}) \cup PerformanceLines(data)
      ELSE {}

\* The events the usage statistics have a name for.
Transform(type) ==
    CASE type = "flow.submit" -> "submit"
      [] type = "flow.engage" -> "engage"
      [] type = "screen"      -> "view"
      [] OTHER                -> "none"

AmplitudeEvents(data) ==
    {<<data.events[i].n, Transform(data.events[i].type)>> : i \in
        {j \in DOMAIN data.events :
            /\ Transform(data.events[j].type) # "none" /\ IsValidFlowData(data, now)
            /\ IsValidTime(EstimateTime(data, data.events[j], now), now)}}

\* The collector's line of a sampled user has the events that are of no flow.
AddEvents(data) == {i \in DOMAIN data.events : ~IsFlowEvent(data.events[i].type)}

CollectorLine(data) == IF setup.sampled THEN {data.events[i].n : i \in AddEvents(data)} ELSE {}

Received(r, event) ==
    [n |-> event.n, type |-> event.type, at |-> event.at, received |-> now, flow |-> r.data.flow, try |-> r.try]

\* The answer is given before anything is logged.
Process(r) ==
    server' = [lines     |-> server.lines \cup MetricsRequest(r.data),
               collector |-> server.collector \cup CollectorLine(r.data),
               amplitude |-> server.amplitude \cup AmplitudeEvents(r.data),
               got       |-> server.got \cup {Received(r, r.data.events[i]) : i \in DOMAIN r.data.events}]

(***************************************************************************)
(* On the way.                                                             *)
(***************************************************************************)
NumbersOf(events) == {events[i].n : i \in DOMAIN events}

Got == {g.n : g \in server.got}

Without(r, rest) == wire' = (wire \ {r}) \cup rest

\* Mutant: the promise of a report that failed twice is left open.
NeverSettled(r) == {[r EXCEPT !.state = "failed"]}

\* The page that is to send a report again: it is open, or waits for a synchronous request.
IsThere(r) == page.open \/ r.sync

\* A report that fails is sent once more, if the page is there to do it.
Fails(r) == IF r.try = 1 /\ IsThere(r) THEN {[r EXCEPT !.try = 2, !.state = "sending"]} ELSE {}

FailedTry(r) ==
    {[n |-> n, try |-> r.try, state |-> r.state, there |-> IsThere(r)] : n \in NumbersOf(r.data.events)}

GiveUp(r, rest) == Without(r, rest) /\ lost' = lost \cup FailedTry(r)

\* sendBeacon takes the report, and tells no more of it, or has no room for it.
BeaconQueued(r) ==
    /\ setup.sender = "beacon" /\ r.state = "sending"
    /\ Without(r, {[r EXCEPT !.state = "queued"]})
    /\ UNCHANGED <<page, client, server, lost>>

BeaconRefused(r) ==
    /\ setup.sender = "beacon" /\ r.state = "sending" /\ setup.full
    /\ GiveUp(r, Fails(r))
    /\ UNCHANGED <<page, client, server>>

BeaconEnds(r) ==
    /\ r.state = "queued"
    /\ \E arrives \in BOOLEAN :
          IF arrives /\ Accepted(r.data) THEN Process(r) /\ lost' = lost
          ELSE lost' = lost \cup FailedTry(r) /\ server' = server
    /\ Without(r, {})
    /\ UNCHANGED <<page, client>>

\* A request is answered, refused, or lost; so may the answer be.
RequestArrives(r) ==
    /\ setup.sender = "xhr" /\ r.state = "sending" /\ Accepted(r.data)
    /\ Process(r)
    /\ Without(r, {[r EXCEPT !.state = "answered"]})
    /\ UNCHANGED <<page, client, lost>>

RequestFails(r) ==
    /\ setup.sender = "xhr" /\ r.state = "sending"
    /\ GiveUp(r, Fails(r))
    /\ UNCHANGED <<page, client, server>>

AnswerArrives(r) ==
    /\ r.state = "answered"
    /\ Without(r, {})
    /\ UNCHANGED <<page, client, server, lost>>

AnswerLost(r) ==
    /\ r.state = "answered"
    /\ GiveUp(r, Fails(r))
    /\ UNCHANGED <<page, client, server>>

\* Automated browsers keep their reports in the storage.
Store(r) ==
    /\ setup.sender = "storage" /\ r.state = "sending"
    /\ page' = [page EXCEPT !.kept = @ \cup NumbersOf(r.data.events)]
    /\ Without(r, {})
    /\ UNCHANGED <<client, server, lost>>

(***************************************************************************)
(* The page.                                                               *)
(***************************************************************************)
\* A synchronous request holds the page until it is answered.
Runs == page.open /\ \A r \in wire : ~(setup.sender = "xhr" /\ r.sync)

Collecting == Runs /\ client.count < MaxEvents

ByPage(c) == client' = c /\ UNCHANGED <<page, wire, server, lost>>

\* A view is shown: its screen event, the flow, its begin, and the first view's `loaded'.
ViewShown(view) ==
    /\ Collecting
    /\ \E c \in {InitializeFlowModel(client)} : \E d \in {LogFlowEvent(c, MarshallFlowEvent("begin", TRUE))} :
          \E e \in {LogEvent(d, "screen")} :
             ByPage(IF e.initialView = "none" THEN SetInitialView(e, view) ELSE e)

EngageFlowEventsForm == Collecting /\ "form" \in setup.shows /\ ByPage(LogFlowEvent(client, MarshallFlowEvent("engage", TRUE)))

\* A form that may be submitted.
SubmitFlowEventsForm == Collecting /\ "form" \in setup.shows /\ ByPage(LogFlowEvent(client, MarshallFlowEvent("submit", FALSE)))

ClickFlowEventsLink == Collecting /\ "link" \in setup.shows /\ ByPage(LogFlowEvent(client, MarshallFlowEvent("link", FALSE)))

ExperimentChosen ==
    /\ Collecting /\ "experiment" \in setup.shows
    /\ ByPage(LogExperiment(client, "choice", "treatment"))

SnippetShown ==
    /\ Collecting /\ "snippet" \in setup.shows
    /\ ByPage(LogMarketingImpression(LogEvent(client, "marketing"), "campaign", "url"))

SnippetClicked ==
    /\ Collecting /\ "snippet" \in setup.shows
    /\ ByPage(LogMarketingClick(LogEvent(client, "marketing"), "campaign", "url"))

SignedIn ==
    /\ Runs /\ "account" \in setup.shows /\ client.sent + client.count < MaxEvents
    /\ \E domain \in {"popular.com", "example.com", "none"} :
          ByPage(SetEmailDomain(SetUid(client, "uid"), domain))

SignedOut == Runs /\ "account" \in setup.shows /\ client.sent + client.count < MaxEvents /\ ByPage(ClearUid(client))

LogNumStoredAccounts == Runs /\ "account" \in setup.shows /\ client.count = 0 /\ ByPage([client EXCEPT !.stored = "1"])

(***************************************************************************)
(* Flushes.                                                                *)
(***************************************************************************)
InactivityFlush ==
    /\ Runs /\ client.timer
    /\ Flush(LogEvent(client, "inactivity.flush"), FALSE)
    /\ UNCHANGED <<page, server, lost>>

\* An error is an event like any other; a fatal one is sent at once.
LogError(c) == LogEvent(c, "error")

CaptureAndFlushError ==
    /\ Collecting /\ "error" \in setup.shows
    /\ Flush(LogError(client), FALSE)
    /\ UNCHANGED <<page, server, lost>>

Blur == Runs /\ Flush(client, TRUE) /\ UNCHANGED <<page, server, lost>>

Unload == Runs /\ Flush(client, TRUE) /\ page' = [page EXCEPT !.open = FALSE] /\ UNCHANGED <<server, lost>>

\* Clicks with a key, of another handler, or for another tab are the browser's.
ShouldIgnoreClick(modified, target) == modified \/ target

OnExternalLinkClick ==
    /\ Runs /\ "link" \in setup.shows /\ page.leaving = 0
    /\ \E modified, target \in BOOLEAN :
          /\ ~ShouldIgnoreClick(modified, target)
          /\ \E required \in {IsFlushRequired(client)} :
                page' = [page EXCEPT !.leaving = IF required THEN client.sent + 1 ELSE -1]
          /\ Flush(client, FALSE)
    /\ UNCHANGED <<server, lost>>

\* The flush of a link is settled: the report was taken, answered, or given up.
FlushMetricsThenRedirect ==
    /\ Runs /\ page.leaving # 0
    /\ \A r \in wire : r.n = page.leaving => r.state = "queued"
    /\ page' = [page EXCEPT !.open = FALSE]
    /\ Flush(client, TRUE)
    /\ UNCHANGED <<server, lost>>

(***************************************************************************)
(* Time.                                                                   *)
(***************************************************************************)
Tick == now < setup.until /\ now' = now + 1 /\ UNCHANGED <<setup, page, client, wire, server, lost>>

\* The user, or the network's time, sets the clock.
ClockSet ==
    /\ Runs /\ page.jump = 0 /\ setup.jump # 0 /\ client.count > 0
    /\ page' = [page EXCEPT !.jump = setup.jump]
    /\ UNCHANGED <<client, wire, server, lost>>

(***************************************************************************)
(* The server gave a flow to the site that has the link (GET /metrics-flow) *)
(* and logged its begin.                                                   *)
(***************************************************************************)
ServerBegin(s) ==
    IF FromAddress(s.source) /\ s.source.url.id = "signed"
      THEN {[n |-> 0, type |-> "flow.begin", at |-> s.begin, received |-> s.begin, time |-> s.begin,
             flowTime |-> s.begin, fields |-> {}]}
      ELSE {}

NewMetrics ==
    [count |-> 0, events |-> <<>>, memory |-> {}, timer |-> TRUE, flow |-> NoFlow, initialView |-> "none",
     experiments |-> {}, marketing |-> {}, uid |-> "none", domain |-> "none", stored |-> "",
     last |-> NeverFlushed, sent |-> 0]

Init ==
    /\ setup \in Scenarios
    /\ now = setup.begin + setup.age
    /\ page = [open |-> TRUE, start |-> setup.begin + setup.age + setup.skew, jump |-> 0, leaving |-> 0, kept |-> {}]
    /\ client = NewMetrics
    /\ wire = {}
    /\ server = [lines |-> ServerBegin(setup), collector |-> {}, amplitude |-> {}, got |-> {}]
    /\ lost = {}

ReportStep(r) ==
    \/ BeaconQueued(r) \/ BeaconRefused(r) \/ BeaconEnds(r)
    \/ RequestArrives(r) \/ RequestFails(r) \/ AnswerArrives(r) \/ AnswerLost(r)
    \/ Store(r)

PageStep ==
    \/ \E view \in setup.views : ViewShown(view)
    \/ EngageFlowEventsForm \/ SubmitFlowEventsForm \/ ClickFlowEventsLink
    \/ ExperimentChosen \/ SnippetShown \/ SnippetClicked
    \/ SignedIn \/ SignedOut \/ LogNumStoredAccounts
    \/ CaptureAndFlushError \/ Blur \/ Unload \/ OnExternalLinkClick \/ ClockSet

\* What comes by itself: the timer, the requests and what waits for them.
Settles == InactivityFlush \/ FlushMetricsThenRedirect \/ \E r \in wire : ReportStep(r)

Next ==
    \/ (PageStep \/ Settles) /\ UNCHANGED <<setup, now>>
    \/ Tick

Spec == Init /\ [][Next]_vars /\ WF_vars(Settles /\ UNCHANGED <<setup, now>>)

(***************************************************************************)
(* Properties.                                                             *)
(***************************************************************************)
Pending == NumbersOf(client.events)

UnderWay == UNION {NumbersOf(r.data.events) : r \in wire}

\* What nobody will send again: a beacon the browser took came to nothing, two tries
\* failed, or one did and the page was gone.
IsLastTry(l) ==
    \/ l.state = "queued"
    \/ ~l.there
    \/ l.try = 2 /\ \E k \in lost : k.n = l.n /\ k.try = 1

GivenUp == {l.n : l \in {k \in lost : IsLastTry(k)}}

\* The server had the first try, and the page did not hear of it.
AnswerWasLost(n) == \E l \in lost : l.n = n /\ l.try = 1 /\ l.state = "answered"

\* The state is of its type (lib/metrics.js, server/lib/flow-event.js).
TypeOK ==
    /\ now \in Nat
    /\ page.open \in BOOLEAN /\ page.kept \subseteq 1..client.count /\ page.leaving \in -1..client.sent
    /\ client.timer \in BOOLEAN /\ client.flow \in {NoFlow, FlowOf(setup.source)}
    /\ Pending \subseteq 1..client.count
    /\ \A r \in wire : r.try \in 1..2 /\ r.n \in 1..client.sent /\ r.data.fields \subseteq AllowedFields
    /\ GivenUp \subseteq 1..client.count /\ Got \subseteq 1..client.count
    /\ \A g \in server.got : g.try \in 1..2
    /\ \A l \in server.lines : IsFlowEvent(l.type) /\ l.time \in Int /\ l.flowTime \in Int

\* An event is on the page, on its way, with the server, in the storage, or given up
\* for one of three reasons: a beacon that came to nothing, two failed tries, or one and
\* no page; once it is sent, no other report has it (flush clears what it sends).
EventsAccounted ==
    /\ Pending \cup UnderWay \cup Got \cup page.kept \cup GivenUp = 1..client.count
    /\ Pending \cap (UnderWay \cup Got \cup page.kept \cup GivenUp) = {}
    /\ UnderWay \cap page.kept = {}
    /\ \A r, q \in wire : r.n # q.n => NumbersOf(r.data.events) \cap NumbersOf(q.data.events) = {}

\* The server counts an event once, or once for each of two tries when the answer to the
\* first was lost: nothing in a report tells a second try from a new report.
CountedTwiceOnlyUnheard ==
    \A g, h \in server.got : g.n = h.n => g = h \/ (g.try # h.try /\ AnswerWasLost(g.n))

\* While events wait on a page, the timer that sends them runs (logEvent, flush).
EventsAreScheduled == page.open /\ Pending # {} => client.timer

\* An event that is to be logged once has one number, on whatever way it is, and the
\* begin of a flow that the server has logged has none (logEventOnce, Flow.initialize).
OnceIsOnce ==
    LET known == Range(client.events) \cup (UNION {Range(r.data.events) : r \in wire}) \cup server.got
    IN  /\ \A e, f \in known : e.type = f.type /\ e.type \in {"loaded", "flow.begin", "flow.engage", "flow.experiment"} => e.n = f.n
        /\ \A e \in known : e.type = "flow.begin" => ~FromAddress(setup.source)

\* A flow's event is never sent without the flow it is of (_logFlowEvent).
FlowEventsHaveFlow ==
    \A r \in wire : \A e \in Range(r.data.events) : IsFlowEvent(e.type) => r.data.flow # NoFlow

\* The server accepts each report of a page whose clock was not set back, whose flow is
\* none or whole and whose events are not too long after the start of the page; one event
\* that is has the whole report refused, both times it is sent (getFilteredData,
\* BODY_SCHEMA, findInvalidEventOffsets).
ReportsAreAccepted ==
    \A r \in wire :
        /\ page.jump >= 0
        /\ r.data.flow = NoFlow \/ (r.data.flow.begin /\ r.data.flow.id # "mangled")
        => (Accepted(r.data) <=> \A e \in Range(r.data.events) : e.offset <= MaxEventOffset)

\* Unless the page's clock was set, the time of an event that is logged lies between the
\* event and its arrival, whatever the page's clock says (estimateTime).
FlowTimesAreReal ==
    page.jump = 0 => \A l \in server.lines :
                        l.n > 0 /\ l.type # "flow.begin" => l.time \in l.at..l.received /\ l.flowTime >= 0

\* What arrives of a signed flow is logged unless it is too old (metricsRequest).
FlowEventsAreLogged ==
    page.jump = 0 /\ setup.entrypoint # "a:b" => \A g \in server.got :
        /\ IsFlowEvent(g.type) /\ g.flow.id = "signed" /\ g.received - setup.begin <= Expiry
        => \E l \in server.lines : l.n = g.n

\* An event leaves the page, and its way ends (the inactivity timer, _send).
EventsLeave == \A n \in 1..2 : n \in Pending ~> n \in (Got \cup page.kept \cup GivenUp) \ UnderWay

\* A link whose click was held back for a flush is followed, however the flush ends.
LinkIsFollowed == page.leaving # 0 ~> ~page.open

\* No event is forgotten: it is given up only when a beacon came to nothing, after two
\* failed tries or without a page to try again; and none is counted twice but for a
\* second try after a lost answer (metrics.js:276-300).
EventsAreKept ==
    TypeOK /\ EventsAccounted /\ CountedTwiceOnlyUnheard /\ EventsAreScheduled /\ OnceIsOnce

\* What the server logs of a flow is of that flow and of its time, and what it refuses
\* of a page with a good clock and flow is what has an event after the last offset it
\* takes (post-metrics.js:59, :176, flow-event.js:204).
FlowDataIsSound ==
    /\ FlowEventsHaveFlow
    /\ ReportsAreAccepted
    /\ FlowTimesAreReal
    /\ FlowEventsAreLogged

\* A flush ends, for the events and for the user who waits on it.
FlushEnds == EventsLeave /\ LinkIsFollowed

=============================================================================
