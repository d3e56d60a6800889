--------------------------- MODULE Metrics_proofs ---------------------------
(***************************************************************************)
(* Theorems about Metrics, for any number of events and reports, any skew  *)
(* of the page's clock and any time it is set to.                          *)
(*                                                                         *)
(* An event has a number, and what matters of the ways it may go is which  *)
(* numbers are on each of them (Parted), and for a report under way which  *)
(* of its tries the server has seen and which were lost (Tried): no two    *)
(* reports have the same events, so that what the server got twice it got  *)
(* from the two tries of one report, and from the second only after the    *)
(* answer to the first was lost.  The offsets of the events and of the     *)
(* flush are the clock's at the time, so that what the server makes of     *)
(* them lies between the event and its arrival; a clock that is set takes  *)
(* the equations with it, and leaves the bounds only if it is set forward. *)
(***************************************************************************)
EXTENDS Metrics, TLAPS

-----------------------------------------------------------------------------
(***************************************************************************)
(* Events and reports.                                                     *)
(***************************************************************************)
FlowEvents == {"flow.begin", "flow.engage", "flow.submit", "flow.link", "flow.experiment"}

Types == FlowEvents \cup {"screen", "loaded", "error", "marketing", "inactivity.flush"}

Once == {"loaded", "flow.begin", "flow.engage", "flow.experiment"}

Event == [n : Nat \ {0}, type : Types, offset : Int, at : Nat]

Flows == {NoFlow, FlowOf(setup.source)}

ClientShape(c) ==
    /\ DOMAIN c = {"count", "events", "memory", "timer", "flow", "initialView", "experiments", "marketing",
                   "uid", "domain", "stored", "last", "sent"}
    /\ c.count \in Nat /\ c.sent \in Nat /\ c.timer \in BOOLEAN /\ c.flow \in Flows
    /\ c.events \in Seq(Event)

\* A flow's events are of a flow, and what waits has a timer.
ClientOK(c) ==
    /\ ClientShape(c)
    /\ c.events # <<>> => c.timer
    /\ \A i \in DOMAIN c.events : c.events[i].type \in FlowEvents => c.flow # NoFlow
    /\ FromAddress(setup.source) /\ c.flow # NoFlow => "flow.begin" \in c.memory

ReportShape(r) ==
    /\ DOMAIN r = {"n", "data", "try", "sync", "state"}
    /\ r.try \in {1, 2} /\ r.state \in {"sending", "queued", "answered"}
    /\ DOMAIN r.data = {"fields", "events", "flow", "flush", "start", "initialView"}
    /\ RequiredFields \subseteq r.data.fields /\ r.data.fields \subseteq AllowedFields
    /\ r.data.events \in Seq(Event) /\ r.data.flow \in Flows /\ r.data.flush \in Int
    /\ r.data.start = page.start

\* The times of events that are sent, or would be, when the page's clock says flush.
TimesOK(events, flush) ==
    \A i \in DOMAIN events :
        /\ setup.begin <= events[i].at
        /\ page.jump >= 0 => events[i].offset >= 0 /\ events[i].offset <= flush - page.start
        /\ page.jump = 0 => events[i].at + setup.skew <= flush /\ events[i].offset = events[i].at + setup.skew - page.start

\* What has one number is one event.
Distinct(events) == \A i, j \in DOMAIN events : events[i].n = events[j].n => events[i] = events[j]

ReportOK(r) ==
    /\ ReportShape(r) /\ Distinct(r.data.events)
    /\ \A i \in DOMAIN r.data.events : r.data.events[i].type \in FlowEvents => r.data.flow # NoFlow
    /\ TimesOK(r.data.events, r.data.flush)
    /\ page.jump >= 0 => r.data.flush >= page.start
    /\ page.jump = 0 => r.data.flush <= now + setup.skew

Numbers(r) == NumbersOf(r.data.events)

WireOK ==
    /\ \A r \in wire : ReportOK(r) /\ r.n \in 1..client.sent
    /\ \A r, q \in wire : r # q => r.n # q.n /\ Numbers(r) \cap Numbers(q) = {}
    /\ \A r \in wire : r.state = "answered" => Numbers(r) \subseteq Got

-----------------------------------------------------------------------------
(***************************************************************************)
(* The page, the server, and where the events are.                         *)
(***************************************************************************)
ClockOK ==
    /\ now \in Nat /\ now >= setup.begin + setup.age
    /\ DOMAIN page = {"open", "start", "jump", "leaving", "kept"}
    /\ page.start = setup.begin + setup.age + setup.skew
    /\ page.jump \in {0, setup.jump} /\ page.open \in BOOLEAN /\ page.leaving \in -1..client.sent

LineOK(l) ==
    /\ IsFlowEvent(l.type) /\ l.time \in Int /\ l.flowTime \in Int
    /\ page.jump = 0 /\ l.n > 0 /\ l.type # "flow.begin" => l.time \in l.at..l.received /\ l.flowTime >= 0

IsLogged(g) ==
    page.jump = 0 /\ setup.entrypoint # "a:b" /\ g.type \in FlowEvents /\ g.flow.id = "signed"
    /\ g.received - setup.begin <= Expiry
       => \E l \in server.lines : l.n = g.n

ServerOK ==
    /\ \A l \in server.lines : LineOK(l)
    /\ \A g \in server.got : g.type \in Types /\ IsLogged(g)

\* The numbers on the page, under way, with the server, in the storage and given up.
Parted(p, u, g, k, l, count) ==
    /\ p \cup u \cup g \cup k \cup l = 1..count
    /\ p \cap (u \cup g \cup k \cup l) = {}
    /\ u \cap k = {}

\* A second try follows a first that was lost; and the server has of a report what
\* is to be answered, or what its first try brought when the answer was lost.
Tried(r) ==
    /\ r.try = 2 => \A n \in Numbers(r) : \E l \in lost : l.n = n /\ l.try = 1
    /\ \A g \in server.got : g.n \in Numbers(r) =>
          \/ r.state = "answered" /\ g.try = r.try
          \/ r.try = 2 /\ g.try = 1 /\ AnswerWasLost(g.n)

TriesOK ==
    /\ \A r \in wire : Tried(r)
    /\ \A g \in server.got : g.try \in {1, 2}
    /\ CountedTwiceOnlyUnheard

Tag(e) == <<e.type, e.n>>

Tags(events) == {Tag(events[i]) : i \in DOMAIN events}

\* The types and numbers of the events that have left the page.
Sent == (UNION {Tags(r.data.events) : r \in wire}) \cup {Tag(g) : g \in server.got}

OnceOK(known, memory) ==
    \A x \in known : x[1] \in Once =>
        /\ x[1] \in memory
        /\ \A y \in known : y[1] = x[1] => y[2] = x[2]
        /\ x[1] = "flow.begin" => ~FromAddress(setup.source)

\* What the metrics of the page have collected goes with what left it.
Good(c) ==
    /\ ClientOK(c) /\ TimesOK(c.events, Clock) /\ Distinct(c.events)
    /\ Parted(NumbersOf(c.events), UnderWay, Got, page.kept, GivenUp, c.count)
    /\ OnceOK(Tags(c.events) \cup Sent, c.memory)

IInv == setup \in Scenarios /\ ClockOK /\ Good(client) /\ WireOK /\ ServerOK

-----------------------------------------------------------------------------
(***************************************************************************)
(* The numbers of the events: what happens to one of them.                 *)
(***************************************************************************)
LEMMA NumbersAppend ==
    ASSUME NEW s \in Seq(Event), NEW e \in Event
    PROVE  /\ Append(s, e) \in Seq(Event) /\ Append(s, e) # <<>>
           /\ \A i \in DOMAIN Append(s, e) : (i \in DOMAIN s /\ Append(s, e)[i] = s[i]) \/ Append(s, e)[i] = e
           /\ NumbersOf(Append(s, e)) = NumbersOf(s) \cup {e.n}
           /\ Tags(Append(s, e)) = Tags(s) \cup {Tag(e)}
<1>1. Append(s, e) \in Seq(Event) /\ Append(s, e) # <<>> OBVIOUS
<1> DEFINE a == Append(s, e)
<1>2. \A i \in DOMAIN a : (i \in DOMAIN s /\ a[i] = s[i]) \/ a[i] = e OBVIOUS
<1>3. /\ \A i \in DOMAIN s : i \in DOMAIN a /\ a[i] = s[i]
      /\ \E i \in DOMAIN a : a[i] = e
  <2>1. Len(s) + 1 \in DOMAIN a /\ a[Len(s) + 1] = e OBVIOUS
  <2>2. \A i \in DOMAIN s : i \in DOMAIN a /\ a[i] = s[i] OBVIOUS
  <2> QED BY <2>1, <2>2
<1> HIDE DEF a
<1>4. NumbersOf(a) = NumbersOf(s) \cup {e.n} BY <1>2, <1>3 DEF NumbersOf
<1>5. Tags(a) = Tags(s) \cup {Tag(e)}
  <2>1. \A i \in DOMAIN a : (i \in DOMAIN s /\ Tag(a[i]) = Tag(s[i])) \/ Tag(a[i]) = Tag(e) BY <1>2
  <2>2. \A i \in DOMAIN s : i \in DOMAIN a /\ Tag(a[i]) = Tag(s[i]) BY <1>3
  <2>3. \E i \in DOMAIN a : Tag(a[i]) = Tag(e) BY <1>3
  <2> HIDE DEF Tag
  <2> QED BY <2>1, <2>2, <2>3 DEF Tags
<1> QED BY <1>1, <1>2, <1>4, <1>5 DEF a

\* One more is collected.
LEMMA PartCollects ==
    ASSUME NEW p, NEW u, NEW g, NEW k, NEW l, NEW count \in Nat, Parted(p, u, g, k, l, count)
    PROVE  Parted(p \cup {count + 1}, u, g, k, l, count + 1)
<1>1. 1..(count + 1) = 1..count \cup {count + 1} /\ count + 1 \notin 1..count OBVIOUS
<1> HIDE DEF Parted
<1>2. p \cup u \cup g \cup k \cup l = 1..count BY DEF Parted
<1>3. count + 1 \notin p \cup u \cup g \cup k \cup l BY <1>1, <1>2
<1> DEFINE m == count + 1
           S == 1..count
           T == 1..(count + 1)
<1>4. T = S \cup {m} BY <1>1
<1> HIDE DEF m, S, T
<1>5. Parted(p \cup {m}, u, g, k, l, count + 1)
  <2>1. p \cup u \cup g \cup k \cup l = S BY <1>2 DEF S
  <2>2. (p \cup {m}) \cup u \cup g \cup k \cup l = T BY <2>1, <1>4
  <2>3. m \notin u \cup g \cup k \cup l BY <1>3 DEF m
  <2> QED BY <2>2, <2>3 DEF Parted, T
<1> QED BY <1>5 DEF m

\* What is on the page is sent.
LEMMA PartFlushes ==
    ASSUME NEW p, NEW u, NEW g, NEW k, NEW l, NEW count, Parted(p, u, g, k, l, count)
    PROVE  Parted({}, u \cup p, g, k, l, count)
  BY DEF Parted

\* A report n that is under way is read by the server.
LEMMA PartArrives ==
    ASSUME NEW p, NEW u, NEW g, NEW k, NEW l, NEW count, Parted(p, u, g, k, l, count), NEW n, n \subseteq u
    PROVE  Parted(p, u, g \cup n, k, l, count) /\ Parted(p, u \ n, g \cup n, k, l, count)
  BY DEF Parted

\* Its answer is.
LEMMA PartAnswered ==
    ASSUME NEW p, NEW u, NEW g, NEW k, NEW l, NEW count, Parted(p, u, g, k, l, count), NEW n, n \subseteq g
    PROVE  Parted(p, u \ n, g, k, l, count)
  BY DEF Parted

\* It is given up, in part or as a whole, or kept.
LEMMA PartLost ==
    ASSUME NEW p, NEW u, NEW g, NEW k, NEW l, NEW count, Parted(p, u, g, k, l, count), NEW n, n \subseteq u,
           NEW m, l \subseteq m, m \subseteq l \cup n
    PROVE  Parted(p, u, g, k, m, count) /\ (n \subseteq m => Parted(p, u \ n, g, k, m, count))
  BY DEF Parted

LEMMA PartStored ==
    ASSUME NEW p, NEW u, NEW g, NEW k, NEW l, NEW count, Parted(p, u, g, k, l, count), NEW n, n \subseteq u
    PROVE  Parted(p, u \ n, g, k \cup n, l, count)
  BY DEF Parted

\* What is given up depends on the failed tries alone, and more of them are no fewer.
LEMMA SameGivenUp == ASSUME UNCHANGED lost PROVE GivenUp' = GivenUp
  BY DEF GivenUp, IsLastTry

LEMMA TryFails ==
    ASSUME NEW r, lost' = lost \cup FailedTry(r)
    PROVE  /\ GivenUp \subseteq GivenUp' /\ GivenUp' \subseteq GivenUp \cup Numbers(r)
           /\ \A n \in Numbers(r) : \E l \in lost' : l.n = n /\ l.try = r.try /\ l.state = r.state
           /\ r.state = "queued" \/ ~IsThere(r)
              \/ (r.try = 2 /\ \A n \in Numbers(r) : \E l \in lost : l.n = n /\ l.try = 1)
                 => Numbers(r) \subseteq GivenUp'
<1> DEFINE Try(n) == [n |-> n, try |-> r.try, state |-> r.state, there |-> IsThere(r)]
<1>1. \A l \in FailedTry(r) : l.n \in Numbers(r) BY DEF FailedTry, Numbers
<1>2. \A n \in Numbers(r) :
         Try(n) \in lost' /\ Try(n).n = n /\ Try(n).try = r.try /\ Try(n).state = r.state /\ Try(n).there = IsThere(r)
  BY DEF FailedTry, Numbers
<1> HIDE DEF Try
<1>3. GivenUp \subseteq GivenUp'
  <2>1. \A l \in lost : l \in lost' /\ (IsLastTry(l) => IsLastTry(l)') BY DEF IsLastTry
  <2> QED BY <2>1 DEF GivenUp
<1>4. ASSUME NEW l \in lost', IsLastTry(l)' PROVE l.n \in GivenUp \cup Numbers(r)
  <2>1. CASE l \in FailedTry(r) BY <1>1, <2>1
  <2>2. CASE l \in lost /\ (l.state = "queued" \/ ~l.there) BY <2>2 DEF GivenUp, IsLastTry
  <2>3. CASE l \in lost /\ l.try = 2 /\ \E k \in lost' : k.n = l.n /\ k.try = 1
    <3>1. PICK k \in lost' : k.n = l.n /\ k.try = 1 BY <2>3
    <3>2. CASE k \in FailedTry(r) BY <1>1, <3>1, <3>2
    <3>3. CASE k \in lost BY <2>3, <3>1, <3>3 DEF GivenUp, IsLastTry
    <3> QED BY <3>2, <3>3
  <2> QED BY <1>4, <2>1, <2>2, <2>3 DEF IsLastTry
<1>5. GivenUp' \subseteq GivenUp \cup Numbers(r) BY <1>4 DEF GivenUp
<1>6. ASSUME r.state = "queued" \/ ~IsThere(r)
             \/ (r.try = 2 /\ \A n \in Numbers(r) : \E l \in lost : l.n = n /\ l.try = 1)
      PROVE  Numbers(r) \subseteq GivenUp'
  <2> SUFFICES ASSUME NEW n \in Numbers(r) PROVE n \in GivenUp' OBVIOUS
  <2>1. PICK l \in lost' : l.n = n /\ l.try = r.try /\ l.state = r.state /\ l.there = IsThere(r) BY <1>2
  <2>2. r.try = 2 /\ (\A m \in Numbers(r) : \E k \in lost : k.n = m /\ k.try = 1)
           => \E k \in lost' : k.n = l.n /\ k.try = 1
    BY <2>1
  <2>3. IsLastTry(l)' BY <1>6, <2>1, <2>2 DEF IsLastTry
  <2> QED BY <2>1, <2>3 DEF GivenUp
<1> QED BY <1>2, <1>3, <1>5, <1>6

\* Fewer events are known of the same types.
LEMMA OnceShrinks ==
    ASSUME NEW known, NEW memory, OnceOK(known, memory), NEW fewer, fewer \subseteq known
    PROVE  OnceOK(fewer, memory)
  BY DEF OnceOK

-----------------------------------------------------------------------------
(***************************************************************************)
(* Collecting.                                                             *)
(***************************************************************************)
\* The clock of the page does not fall behind its start unless it was set back.
LEMMA ClockFacts ==
    ASSUME setup \in Scenarios, ClockOK
    PROVE  /\ setup.begin \in Nat /\ setup.age \in Nat /\ setup.skew \in Int /\ setup.jump \in Int /\ setup.load \in Int
           /\ now \in Nat /\ page.start \in Int /\ page.jump \in Int /\ Clock \in Int
           /\ Clock = now + setup.skew + page.jump /\ setup.begin <= now
           /\ page.jump >= 0 => Clock >= page.start
  BY ScenariosAssumption DEF ClockOK, Clock

\* A client that has collected one event more, and marked it if it is logged once.
LEMMA Collected ==
    ASSUME setup \in Scenarios, ClockOK, NEW c, Good(c), NEW name \in Types,
           name \in FlowEvents => c.flow # NoFlow, name \in Once => name \notin c.memory,
           NEW x, ClientShape(c) => DOMAIN x = DOMAIN c, x.count = c.count + 1, x.timer = TRUE,
           x.flow = c.flow, x.sent = c.sent,
           x.events = Append(c.events, [n |-> c.count + 1, type |-> name, offset |-> Clock - page.start, at |-> now]),
           c.memory \subseteq x.memory, name \in Once => name \in x.memory
    PROVE  Good(x)
<1> DEFINE e == [n |-> c.count + 1, type |-> name, offset |-> Clock - page.start, at |-> now]
<1>1. ClientShape(c) /\ c.count \in Nat /\ c.events \in Seq(Event) BY DEF Good, ClientOK, ClientShape
<1>2. e \in Event
  <2>1. Clock \in Int /\ page.start \in Int /\ now \in Nat BY ClockFacts
  <2>2. Clock - page.start \in Int BY <2>1
  <2>3. c.count + 1 \in Nat \ {0} BY <1>1
  <2> QED BY <2>1, <2>2, <2>3 DEF Event
<1>3. e.n = c.count + 1 /\ e.type = name /\ e.offset = Clock - page.start /\ e.at = now OBVIOUS
<1> HIDE DEF e
<1>4. x.events = Append(c.events, e) BY DEF e
<1>5. /\ x.events \in Seq(Event) /\ x.events # <<>>
      /\ \A i \in DOMAIN x.events : (i \in DOMAIN c.events /\ x.events[i] = c.events[i]) \/ x.events[i] = e
      /\ NumbersOf(x.events) = NumbersOf(c.events) \cup {e.n}
      /\ Tags(x.events) = Tags(c.events) \cup {Tag(e)}
  BY <1>1, <1>2, <1>4, NumbersAppend
<1>6. ClientOK(x)
  <2>1. ClientShape(x)
    <3>1. x.timer \in BOOLEAN OBVIOUS
    <3>2. x.flow \in Flows /\ x.sent \in Nat /\ x.count \in Nat BY <1>1 DEF ClientShape
    <3> QED BY <1>1, <1>5, <3>1, <3>2 DEF ClientShape
  <2>2. ASSUME NEW i \in DOMAIN x.events, x.events[i].type \in FlowEvents PROVE x.flow # NoFlow
    <3>1. CASE i \in DOMAIN c.events /\ x.events[i] = c.events[i] BY <2>2, <3>1 DEF Good, ClientOK
    <3>2. CASE x.events[i] = e BY <1>3, <2>2, <3>2
    <3> QED BY <1>5, <3>1, <3>2
  <2>3. FromAddress(setup.source) /\ x.flow # NoFlow => "flow.begin" \in x.memory BY DEF Good, ClientOK
  <2> QED BY <2>1, <2>2, <2>3 DEF ClientOK
<1>7. TimesOK(x.events, Clock)
  <2>1. ASSUME NEW i \in DOMAIN x.events
        PROVE  /\ setup.begin <= x.events[i].at
               /\ page.jump >= 0 => x.events[i].offset >= 0 /\ x.events[i].offset <= Clock - page.start
               /\ page.jump = 0 => /\ x.events[i].at + setup.skew <= Clock
                                   /\ x.events[i].offset = x.events[i].at + setup.skew - page.start
    <3>1. CASE i \in DOMAIN c.events /\ x.events[i] = c.events[i] BY <3>1 DEF Good, TimesOK
    <3>2. CASE x.events[i] = e
      <4>1. x.events[i].at = now /\ x.events[i].offset = Clock - page.start BY <1>3, <3>2
      <4>2. setup.begin <= now /\ (page.jump >= 0 => Clock - page.start >= 0) BY ClockFacts
      <4>3. page.jump = 0 => Clock = now + setup.skew /\ now + setup.skew <= Clock BY ClockFacts
      <4>4. page.jump >= 0 => Clock - page.start <= Clock - page.start BY ClockFacts
      <4>5. setup.begin <= x.events[i].at BY <4>1, <4>2
      <4>6. page.jump >= 0 => x.events[i].offset >= 0 /\ x.events[i].offset <= Clock - page.start
        BY <4>1, <4>2, <4>4
      <4>7. page.jump = 0 => x.events[i].at + setup.skew <= Clock BY <4>1, <4>3
      <4>8. ASSUME page.jump = 0 PROVE x.events[i].offset = x.events[i].at + setup.skew - page.start
        <5>1. Clock = x.events[i].at + setup.skew BY <4>1, <4>3, <4>8
        <5>2. x.events[i].at \in Int /\ setup.skew \in Int /\ page.start \in Int BY <4>1, ClockFacts
        <5> HIDE DEF Clock
        <5> QED BY <4>1, <5>1, <5>2
      <4> QED BY <4>5, <4>6, <4>7, <4>8
    <3> QED BY <1>5, <3>1, <3>2
  <2> QED BY <2>1 DEF TimesOK
<1>8. Parted(NumbersOf(x.events), UnderWay, Got, page.kept, GivenUp, x.count)
  BY <1>1, <1>3, <1>5, PartCollects DEF Good
<1>9. OnceOK(Tags(x.events) \cup Sent, x.memory)
  <2> DEFINE K == Tags(c.events) \cup Sent
             t == Tag(e)
  <2>1. OnceOK(K, c.memory) BY DEF Good
  <2>2. t[1] = name BY <1>3 DEF Tag
  <2>3. Tags(x.events) \cup Sent = K \cup {t} BY <1>5
  <2> HIDE DEF K, t
  <2>4. name = "flow.begin" => ~FromAddress(setup.source)
    <3> SUFFICES ASSUME name = "flow.begin" PROVE ~FromAddress(setup.source) OBVIOUS
    <3>1. name \in FlowEvents /\ name \in Once BY DEF FlowEvents, Once
    <3> QED BY <3>1 DEF Good, ClientOK
  <2>5. ASSUME NEW y \in K \cup {t}, y[1] \in Once
        PROVE  /\ y[1] \in x.memory
               /\ \A z \in K \cup {t} : z[1] = y[1] => z[2] = y[2]
               /\ y[1] = "flow.begin" => ~FromAddress(setup.source)
    <3>1. CASE y \in K
      <4>1. y[1] \in c.memory BY <2>1, <2>5, <3>1 DEF OnceOK
      <4>2. t[1] # y[1] BY <2>2, <2>5, <4>1
      <4> QED BY <2>1, <2>5, <3>1, <4>1, <4>2 DEF OnceOK
    <3>2. CASE y = t
      <4>1. name \in Once /\ name \notin c.memory BY <2>2, <2>5, <3>2
      <4>2. \A z \in K : z[1] # name BY <2>1, <4>1 DEF OnceOK
      <4> QED BY <2>2, <2>4, <3>2, <4>1, <4>2
    <3> QED BY <2>5, <3>1, <3>2
  <2>6. OnceOK(K \cup {t}, x.memory) BY <2>5 DEF OnceOK
  <2> QED BY <2>3, <2>6
<1>10. Distinct(x.events)
  <2>1. c.count + 1 \notin NumbersOf(c.events)
    <3>1. NumbersOf(c.events) \subseteq 1..c.count BY DEF Good, Parted
    <3> QED BY <1>1, <3>1
  <2>2. \A i \in DOMAIN c.events : c.events[i].n # e.n BY <1>3, <2>1 DEF NumbersOf
  <2>3. Distinct(c.events) BY DEF Good
  <2> QED BY <1>5, <2>2, <2>3 DEF Distinct
<1> QED BY <1>6, <1>7, <1>8, <1>9, <1>10 DEF Good

\* A client that has collected the same.
LEMMA Unrelated ==
    ASSUME NEW c, Good(c), NEW x, ClientShape(c) => DOMAIN x = DOMAIN c,
           x.events = c.events, x.count = c.count, x.sent = c.sent, x.timer = c.timer, x.memory = c.memory,
           x.flow = c.flow
    PROVE  Good(x)
  BY DEF Good, ClientOK, ClientShape

LEMMA LogEventOK ==
    ASSUME setup \in Scenarios, ClockOK, NEW c, Good(c), NEW name \in Types \ Once,
           name \in FlowEvents => c.flow # NoFlow
    PROVE  LET x == LogEvent(c, name)
           IN  /\ Good(x) /\ x.sent = c.sent /\ x.flow = c.flow
               /\ x.initialView = c.initialView
<1> DEFINE x == LogEvent(c, name)
<1>1. /\ DOMAIN x = DOMAIN c /\ x.count = c.count + 1 /\ x.timer = TRUE /\ x.flow = c.flow /\ x.sent = c.sent
      /\ x.memory = c.memory /\ x.initialView = c.initialView
      /\ x.events = Append(c.events, [n |-> c.count + 1, type |-> name, offset |-> Clock - page.start, at |-> now])
  BY DEF Good, ClientOK, ClientShape, LogEvent, ResetInactivityFlushTimeout
<1> HIDE DEF x
<1>2. Good(x) BY <1>1, Collected
<1> QED BY <1>1, <1>2 DEF x

LEMMA LogEventOnceOK ==
    ASSUME setup \in Scenarios, ClockOK, NEW c, Good(c), NEW name \in Once,
           name \in FlowEvents => c.flow # NoFlow
    PROVE  LET x == LogEventOnce(c, name)
           IN  /\ Good(x) /\ x.sent = c.sent /\ x.flow = c.flow
               /\ x.initialView = c.initialView
<1> DEFINE x == LogEventOnce(c, name)
<1>1. CASE name \notin c.memory
  <2>1. /\ DOMAIN x = DOMAIN c /\ x.count = c.count + 1 /\ x.timer = TRUE /\ x.flow = c.flow /\ x.sent = c.sent
        /\ x.memory = c.memory \cup {name} /\ x.initialView = c.initialView
        /\ x.events = Append(c.events, [n |-> c.count + 1, type |-> name, offset |-> Clock - page.start, at |-> now])
    BY <1>1 DEF Good, ClientOK, ClientShape, LogEventOnce, MarkEventLogged, LogEvent, ResetInactivityFlushTimeout
  <2> HIDE DEF x
  <2>2. name \in Types BY DEF Once, Types, FlowEvents
  <2>3. Good(x) BY <1>1, <2>1, <2>2, Collected
  <2> QED BY <2>1, <2>3 DEF x
<1>2. CASE name \in c.memory BY <1>2 DEF LogEventOnce
<1> QED BY <1>1, <1>2

\* A flow's event is logged if there is a flow.
LEMMA LogFlowEventOK ==
    ASSUME setup \in Scenarios, ClockOK, NEW c, Good(c), NEW name \in {"begin", "engage", "submit", "link", "experiment"},
           NEW once \in BOOLEAN, FlowTypes[name] \in Once <=> once
    PROVE  LET x == LogFlowEvent(c, MarshallFlowEvent(name, once))
           IN  /\ Good(x) /\ x.sent = c.sent /\ x.flow = c.flow
               /\ x.initialView = c.initialView
<1> DEFINE event == MarshallFlowEvent(name, once)
<1>1. event.type = FlowTypes[name] /\ event.once = once BY DEF MarshallFlowEvent
<1>2. FlowTypes[name] \in FlowEvents /\ FlowTypes[name] \in Types BY DEF FlowTypes, FlowEvents, Types
<1> HIDE DEF event
<1>3. CASE c.flow = NoFlow BY <1>3 DEF LogFlowEvent, event
<1>4. CASE c.flow # NoFlow /\ once
  <2>1. LogFlowEvent(c, event) = LogEventOnce(c, FlowTypes[name]) BY <1>1, <1>4 DEF LogFlowEvent
  <2> QED BY <1>2, <1>4, <2>1, LogEventOnceOK DEF event
<1>5. CASE c.flow # NoFlow /\ ~once
  <2>1. LogFlowEvent(c, event) = LogEvent(c, FlowTypes[name]) BY <1>1, <1>5 DEF LogFlowEvent
  <2> QED BY <1>2, <1>5, <2>1, LogEventOK DEF event
<1> QED BY <1>3, <1>4, <1>5

\* The flow of the address comes with its begin.
LEMMA FlowModelOK ==
    ASSUME setup \in Scenarios, NEW c, Good(c)
    PROVE  LET x == InitializeFlowModel(c)
           IN  Good(x) /\ x.sent = c.sent /\ x.initialView = c.initialView
<1> DEFINE x == InitializeFlowModel(c)
<1>1. CASE x = c BY <1>1
<1>2. CASE c.flow = NoFlow /\ x = InitializeFlow(c)
  <2>1. /\ DOMAIN x = DOMAIN c /\ x.count = c.count /\ x.events = c.events /\ x.timer = c.timer /\ x.sent = c.sent
        /\ x.initialView = c.initialView /\ x.flow = FlowOf(setup.source)
        /\ x.memory = IF FromAddress(setup.source) THEN c.memory \cup {"flow.begin"} ELSE c.memory
    BY <1>2 DEF Good, ClientOK, ClientShape, InitializeFlow, MarkEventLogged
  <2> HIDE DEF x
  <2>2. x.flow \in Flows BY <2>1 DEF Flows
  <2>3. ClientShape(x) BY <2>1, <2>2 DEF Good, ClientOK, ClientShape
  <2>4. ClientOK(x)
    <3>1. \A i \in DOMAIN x.events : x.events[i].type \notin FlowEvents BY <1>2, <2>1 DEF Good, ClientOK
    <3>2. x.events # <<>> => x.timer BY <2>1 DEF Good, ClientOK
    <3>3. FromAddress(setup.source) => "flow.begin" \in x.memory BY <2>1
    <3> QED BY <2>3, <3>1, <3>2, <3>3 DEF ClientOK
  <2>5. OnceOK(Tags(x.events) \cup Sent, x.memory)
    <3>1. c.memory \subseteq x.memory BY <2>1
    <3>2. OnceOK(Tags(x.events) \cup Sent, c.memory) BY <2>1 DEF Good
    <3> QED BY <3>1, <3>2 DEF OnceOK
  <2>6. Good(x) BY <2>1, <2>4, <2>5 DEF Good
  <2> QED BY <2>1, <2>6 DEF x
<1> QED BY <1>1, <1>2 DEF InitializeFlowModel

-----------------------------------------------------------------------------
(***************************************************************************)
(* The page.                                                               *)
(***************************************************************************)
\* What does not depend on what the page has collected.
LEMMA OthersStay ==
    ASSUME IInv, UNCHANGED <<setup, now, page, wire, server>>, client'.sent = client.sent
    PROVE  (setup \in Scenarios)' /\ ClockOK' /\ WireOK' /\ ServerOK'
<1>1. ClockOK' BY DEF IInv, ClockOK
<1>2. WireOK'
  <2>1. ASSUME NEW r \in wire PROVE ReportOK(r)'
    <3>1. ReportOK(r) BY DEF IInv, WireOK
    <3> QED BY <3>1 DEF ReportOK, ReportShape, Distinct, TimesOK, Flows
  <2> QED BY <2>1 DEF IInv, WireOK, Numbers, Got
<1>3. ServerOK' BY DEF IInv, ServerOK, LineOK, IsLogged
<1> QED BY <1>1, <1>2, <1>3 DEF IInv

LEMMA ByPageOK ==
    ASSUME IInv, UNCHANGED <<setup, now>>, NEW c, Good(c), c.sent = client.sent, ByPage(c)
    PROVE  IInv'
<1>1. client' = c /\ UNCHANGED <<page, wire, server, lost>> BY DEF ByPage
<1>2. Good(client)'
  <2>1. ClientOK(client)' BY <1>1 DEF Good, ClientOK, ClientShape, Flows
  <2>2. TimesOK(client.events, Clock)' BY <1>1 DEF Good, TimesOK, Clock
  <2>3. UnderWay' = UnderWay /\ Got' = Got /\ Sent' = Sent BY <1>1 DEF UnderWay, Got, Sent
  <2>4. NumbersOf(client.events)' = NumbersOf(c.events) /\ Tags(client.events)' = Tags(c.events)
    BY <1>1
  <2>5. Parted(NumbersOf(client.events), UnderWay, Got, page.kept, GivenUp, client.count)'
    BY <1>1, <2>3, <2>4, SameGivenUp DEF Good, Parted
  <2>6. OnceOK(Tags(client.events) \cup Sent, client.memory)'
    BY <1>1, <2>3, <2>4 DEF Good, OnceOK
  <2>7. Distinct(client.events)' BY <1>1 DEF Good, Distinct
  <2> QED BY <2>1, <2>2, <2>5, <2>6, <2>7 DEF Good
<1> QED BY <1>1, <1>2, OthersStay DEF IInv

LEMMA ViewShownOK == ASSUME IInv, UNCHANGED <<setup, now>>, NEW view, ViewShown(view) PROVE IInv'
<1> DEFINE c == InitializeFlowModel(client)
           d == LogFlowEvent(c, MarshallFlowEvent("begin", TRUE))
           e == LogEvent(d, "screen")
           f == [e EXCEPT !.initialView = view]
<1>1. setup \in Scenarios /\ ClockOK /\ Good(client) BY DEF IInv
<1>2. ByPage(IF e.initialView = "none" THEN SetInitialView(e, view) ELSE e) BY DEF ViewShown
<1>3. Good(c) /\ c.sent = client.sent BY <1>1, FlowModelOK
<1> HIDE DEF c
<1>4. FlowTypes["begin"] \in Once BY DEF FlowTypes, Once
<1>5. Good(d) /\ d.sent = client.sent BY <1>1, <1>3, <1>4, LogFlowEventOK
<1> HIDE DEF d
<1>6. "screen" \in Types \ Once /\ "screen" \notin FlowEvents BY DEF Types, Once, FlowEvents
<1>7. Good(e) /\ e.sent = client.sent BY <1>1, <1>5, <1>6, LogEventOK
<1> HIDE DEF e
<1>8. Good(f) /\ f.sent = client.sent
  <2>1. /\ DOMAIN f = DOMAIN e /\ f.events = e.events /\ f.count = e.count /\ f.sent = e.sent /\ f.timer = e.timer
        /\ f.memory = e.memory /\ f.flow = e.flow
    BY <1>7 DEF Good, ClientOK, ClientShape
  <2> HIDE DEF f
  <2> QED BY <1>7, <2>1, Unrelated
<1> HIDE DEF f
<1>9. "loaded" \in Once /\ "loaded" \notin FlowEvents BY DEF Once, FlowEvents
<1>10. Good(LogEventOnce(f, "loaded")) /\ LogEventOnce(f, "loaded").sent = client.sent
  BY <1>1, <1>8, <1>9, LogEventOnceOK
<1>11. SetInitialView(e, view) = LogEventOnce(f, "loaded") BY DEF SetInitialView, f
<1> QED BY <1>2, <1>7, <1>10, <1>11, ByPageOK

\* The events of forms and links.
LEMMA FlowStepOK ==
    ASSUME IInv, UNCHANGED <<setup, now>>, EngageFlowEventsForm \/ SubmitFlowEventsForm \/ ClickFlowEventsLink
    PROVE  IInv'
<1>1. setup \in Scenarios /\ ClockOK /\ Good(client) BY DEF IInv
<1>2. CASE EngageFlowEventsForm
  <2>1. FlowTypes["engage"] \in Once BY DEF FlowTypes, Once
  <2> DEFINE c == LogFlowEvent(client, MarshallFlowEvent("engage", TRUE))
  <2>2. Good(c) /\ c.sent = client.sent BY <1>1, <2>1, LogFlowEventOK
  <2> QED BY <1>2, <2>2, ByPageOK DEF EngageFlowEventsForm
<1>3. CASE SubmitFlowEventsForm
  <2>1. FlowTypes["submit"] \notin Once BY DEF FlowTypes, Once
  <2> DEFINE c == LogFlowEvent(client, MarshallFlowEvent("submit", FALSE))
  <2>2. Good(c) /\ c.sent = client.sent BY <1>1, <2>1, LogFlowEventOK
  <2> QED BY <1>3, <2>2, ByPageOK DEF SubmitFlowEventsForm
<1>4. CASE ClickFlowEventsLink
  <2>1. FlowTypes["link"] \notin Once BY DEF FlowTypes, Once
  <2> DEFINE c == LogFlowEvent(client, MarshallFlowEvent("link", FALSE))
  <2>2. Good(c) /\ c.sent = client.sent BY <1>1, <2>1, LogFlowEventOK
  <2> QED BY <1>4, <2>2, ByPageOK DEF ClickFlowEventsLink
<1> QED BY <1>2, <1>3, <1>4

\* What only says something of the page or of the account.
LEMMA SameEvents ==
    ASSUME NEW c, Good(c), NEW x, DOMAIN x = DOMAIN c,
           \A f \in DOMAIN c : x[f] = c[f] \/ f \in {"experiments", "marketing", "uid", "domain", "stored"}
    PROVE  Good(x) /\ x.sent = c.sent
<1>1. ClientShape(c) BY DEF Good, ClientOK
<1>2. /\ x.events = c.events /\ x.count = c.count /\ x.sent = c.sent /\ x.timer = c.timer /\ x.memory = c.memory
      /\ x.flow = c.flow
  BY <1>1 DEF ClientShape
<1> QED BY <1>2, Unrelated

LEMMA ExperimentOK == ASSUME IInv, UNCHANGED <<setup, now>>, ExperimentChosen PROVE IInv'
<1> DEFINE c == LogFlowEvent(client, MarshallFlowEvent("experiment", TRUE))
           x == [c EXCEPT !.experiments = @ \cup {<<"choice", "treatment">>}]
<1>1. setup \in Scenarios /\ ClockOK /\ Good(client) BY DEF IInv
<1>2. FlowTypes["experiment"] \in Once BY DEF FlowTypes, Once
<1>3. Good(c) /\ c.sent = client.sent BY <1>1, <1>2, LogFlowEventOK
<1>4. ByPage(x) BY DEF ExperimentChosen, LogExperiment
<1> HIDE DEF c
<1>5. DOMAIN x = DOMAIN c /\ \A f \in (DOMAIN c) \ {"experiments"} : x[f] = c[f]
  BY <1>3 DEF Good, ClientOK, ClientShape
<1> HIDE DEF x
<1>6. Good(x) /\ x.sent = client.sent BY <1>3, <1>5, SameEvents
<1> QED BY <1>4, <1>6, ByPageOK

LEMMA SnippetOK == ASSUME IInv, UNCHANGED <<setup, now>>, SnippetShown \/ SnippetClicked PROVE IInv'
<1> DEFINE c == LogEvent(client, "marketing")
<1>1. setup \in Scenarios /\ ClockOK /\ Good(client) BY DEF IInv
<1>2. "marketing" \in Types \ Once /\ "marketing" \notin FlowEvents BY DEF Types, Once, FlowEvents
<1>3. Good(c) /\ c.sent = client.sent BY <1>1, <1>2, LogEventOK
<1> HIDE DEF c
<1>4. ASSUME NEW marketing, ByPage([c EXCEPT !.marketing = marketing]) PROVE IInv'
  <2> DEFINE x == [c EXCEPT !.marketing = marketing]
  <2>1. DOMAIN x = DOMAIN c /\ \A f \in (DOMAIN c) \ {"marketing"} : x[f] = c[f]
    BY <1>3 DEF Good, ClientOK, ClientShape
  <2>2. ByPage(x) BY <1>4
  <2> HIDE DEF x
  <2>3. Good(x) /\ x.sent = client.sent BY <1>3, <2>1, SameEvents
  <2> QED BY <2>2, <2>3, ByPageOK
<1>5. ASSUME ByPage(c) PROVE IInv' BY <1>3, <1>5, ByPageOK
<1> QED BY <1>4, <1>5 DEF SnippetShown, SnippetClicked, LogMarketingImpression, LogMarketingClick, c

LEMMA AccountOK == ASSUME IInv, UNCHANGED <<setup, now>>, SignedIn \/ SignedOut \/ LogNumStoredAccounts PROVE IInv'
<1>1. Good(client) /\ ClientShape(client) BY DEF IInv, Good, ClientOK
<1>2. ASSUME NEW x, DOMAIN x = DOMAIN client,
             \A f \in DOMAIN client : x[f] = client[f] \/ f \in {"uid", "domain", "stored"}, ByPage(x)
      PROVE  IInv'
  <2>1. Good(x) /\ x.sent = client.sent BY <1>1, <1>2, SameEvents
  <2> QED BY <1>2, <2>1, ByPageOK
<1>3. CASE SignedIn
  <2>1. PICK domain \in {"popular.com", "example.com", "none"} : ByPage(SetEmailDomain(SetUid(client, "uid"), domain))
    BY <1>3 DEF SignedIn
  <2> DEFINE x == SetEmailDomain(SetUid(client, "uid"), domain)
  <2>2. DOMAIN x = DOMAIN client /\ \A f \in DOMAIN client : x[f] = client[f] \/ f \in {"uid", "domain", "stored"}
    BY <1>1 DEF ClientShape, SetEmailDomain, SetUid
  <2> HIDE DEF x
  <2> QED BY <1>2, <2>1, <2>2 DEF x
<1>4. CASE SignedOut
  <2> DEFINE x == ClearUid(client)
  <2>1. DOMAIN x = DOMAIN client /\ \A f \in DOMAIN client : x[f] = client[f] \/ f \in {"uid", "domain", "stored"}
    BY <1>1 DEF ClientShape, ClearUid
  <2>2. ByPage(x) BY <1>4 DEF SignedOut
  <2> HIDE DEF x
  <2> QED BY <1>2, <2>1, <2>2
<1>5. CASE LogNumStoredAccounts
  <2> DEFINE x == [client EXCEPT !.stored = "1"]
  <2>1. DOMAIN x = DOMAIN client /\ \A f \in DOMAIN client : x[f] = client[f] \/ f \in {"uid", "domain", "stored"}
    BY <1>1 DEF ClientShape
  <2>2. ByPage(x) BY <1>5 DEF LogNumStoredAccounts
  <2> HIDE DEF x
  <2> QED BY <1>2, <2>1, <2>2
<1> QED BY <1>3, <1>4, <1>5

-----------------------------------------------------------------------------
(***************************************************************************)
(* Flushes.                                                                *)
(***************************************************************************)
\* What was not measured may be missing from a report.
LEMMA FieldsOK == ASSUME NEW c PROVE RequiredFields \subseteq FilteredFields(c) /\ FilteredFields(c) \subseteq AllowedFields
<1> DEFINE Optional == {"flowBeginTime", "flowId", "initialView", "numStoredAccounts", "navigationTiming"}
<1>1. AllowedFields \ Optional \subseteq FilteredFields(c) /\ FilteredFields(c) \subseteq AllowedFields
  <2> HIDE DEF AllowedFields
  <2> QED BY DEF FilteredFields, Undefined
<1>2. RequiredFields \subseteq AllowedFields \ Optional BY DEF RequiredFields, AllowedFields
<1> HIDE DEF Optional
<1> QED BY <1>1, <1>2

\* The page changes only in whether it is open and waits for a flush.
PageStays == DOMAIN page' = DOMAIN page /\ page'.start = page.start /\ page'.jump = page.jump

\* A flush sends everything, if there is anything to send.
LEMMA FlushOK ==
    ASSUME IInv, UNCHANGED <<setup, now, server, lost, page.kept>>, PageStays,
           NEW c, Good(c), c.sent = client.sent, NEW sync, Flush(c, sync)
    PROVE  /\ Good(client)' /\ WireOK' /\ ServerOK'
           /\ client'.sent = IF IsFlushRequired(c) THEN client.sent + 1 ELSE client.sent
<1>0. setup \in Scenarios /\ ClockOK /\ ClockOK' = ClockOK' /\ ClientShape(c) /\ c.events \in Seq(Event) /\ c.sent \in Nat
  BY DEF IInv, Good, ClientOK, ClientShape
<1>1. Clock' = Clock /\ Got' = Got BY DEF Clock, Got, PageStays
<1>2. ServerOK' BY DEF IInv, ServerOK, LineOK, IsLogged, PageStays
<1>3. \A r \in wire : ReportOK(r)' BY DEF IInv, WireOK, ReportOK, ReportShape, Distinct, TimesOK, Flows, PageStays
<1>4. ASSUME NEW x, client' = x, DOMAIN x = DOMAIN c, x.count = c.count, x.sent \in Nat, x.flow = c.flow,
             x.memory = c.memory, x.timer \in BOOLEAN, x.events = <<>>,
             Parted({}, UnderWay', Got, page.kept, GivenUp, c.count), Sent' \subseteq Tags(c.events) \cup Sent
      PROVE  Good(client)'
  <2>1. <<>> \in Seq(Event) /\ DOMAIN <<>> = {} OBVIOUS
  <2>2. ClientShape(client)' BY <1>0, <1>4, <2>1 DEF ClientShape, Flows
  <2>3. FromAddress(setup.source) /\ c.flow # NoFlow => "flow.begin" \in c.memory BY DEF Good, ClientOK
  <2>4. ClientOK(client)' BY <1>4, <2>1, <2>2, <2>3 DEF ClientOK
  <2>5. TimesOK(client.events, Clock)' BY <1>4, <2>1 DEF TimesOK
  <2>6. NumbersOf(client.events)' = {} /\ Tags(client.events)' = {} BY <1>4, <2>1 DEF NumbersOf, Tags
  <2>7. Parted(NumbersOf(client.events), UnderWay, Got, page.kept, GivenUp, client.count)'
    BY <1>1, <1>4, <2>6, SameGivenUp DEF Parted, PageStays
  <2>8. OnceOK(Tags(c.events) \cup Sent, c.memory) BY DEF Good
  <2>9. OnceOK(Sent', c.memory) BY <1>4, <2>8, OnceShrinks
  <2>10. OnceOK(Tags(client.events) \cup Sent, client.memory)' BY <1>4, <2>6, <2>9 DEF OnceOK
  <2>11. Distinct(client.events)' BY <1>4, <2>1 DEF Distinct
  <2> QED BY <2>4, <2>5, <2>7, <2>10, <2>11 DEF Good
<1>5. CASE IsFlushRequired(c)
  <2> DEFINE x == AfterFlush(c)
  <2>1. PICK r : /\ client' = x /\ wire' = wire \cup {r}
                 /\ r = [n |-> c.sent + 1, data |-> GetFilteredData(c), try |-> 1, sync |-> sync, state |-> "sending"]
    BY <1>5 DEF Flush
  <2>2. /\ DOMAIN x = DOMAIN c /\ x.count = c.count /\ x.sent = c.sent + 1 /\ x.flow = c.flow /\ x.memory = c.memory
        /\ x.timer = FALSE /\ x.events = <<>>
    BY <1>0 DEF ClientShape, AfterFlush, ClearInactivityFlushTimeout
  <2>3. /\ DOMAIN r = {"n", "data", "try", "sync", "state"} /\ r.n = c.sent + 1 /\ r.try = 1 /\ r.state = "sending"
        /\ DOMAIN r.data = {"fields", "events", "flow", "flush", "start", "initialView"}
        /\ r.data.fields = FilteredFields(c) /\ r.data.events = c.events /\ r.data.flow = c.flow
        /\ r.data.flush = Clock /\ r.data.start = page.start
    BY <2>1 DEF GetFilteredData
  <2> HIDE DEF x
  <2>4. ReportOK(r)'
    <3>1. ReportShape(r)'
      <4>1. RequiredFields \subseteq r.data.fields /\ r.data.fields \subseteq AllowedFields BY <2>3, FieldsOK
      <4>2. Clock \in Int BY <1>0, ClockFacts
      <4>3. c.flow \in Flows BY <1>0 DEF ClientShape
      <4> QED BY <1>0, <2>3, <4>1, <4>2, <4>3 DEF ReportShape, PageStays, Flows
    <3>2. \A i \in DOMAIN r.data.events : r.data.events[i].type \in FlowEvents => r.data.flow # NoFlow
      BY <2>3 DEF Good, ClientOK
    <3>3. TimesOK(r.data.events, r.data.flush)' BY <2>3 DEF Good, TimesOK, PageStays
    <3>4. /\ page.jump >= 0 => r.data.flush >= page.start
          /\ page.jump = 0 => r.data.flush <= now + setup.skew
      BY <1>0, <2>3, ClockFacts
    <3>5. Distinct(r.data.events) BY <2>3 DEF Good
    <3> QED BY <3>1, <3>2, <3>3, <3>4, <3>5 DEF ReportOK, PageStays, Distinct
  <2>5. Numbers(r) = NumbersOf(c.events) BY <2>3 DEF Numbers
  <2>6. UnderWay' = UnderWay \cup NumbersOf(c.events) /\ Sent' = Sent \cup Tags(c.events)
    BY <2>1, <2>3 DEF UnderWay, Sent
  <2>7. Parted({}, UnderWay', Got, page.kept, GivenUp, c.count) BY <2>6, PartFlushes DEF Good
  <2>8. Good(client)'
    <3>0. c.sent + 1 \in Nat /\ FALSE \in BOOLEAN BY <1>0
    <3>1. x.sent \in Nat /\ x.timer \in BOOLEAN BY <2>2, <3>0
    <3>2. Sent' \subseteq Tags(c.events) \cup Sent BY <2>6
    <3> QED BY <1>4, <2>1, <2>2, <2>7, <3>1, <3>2
  <2>9. WireOK'
    <3>1. \A q \in wire : ReportOK(q)' /\ q.n \in 1..client.sent BY <1>3 DEF IInv, WireOK
    <3>2. client.sent \in Nat BY <1>0
    <3>3. client'.sent = client.sent + 1 /\ r.n = client.sent + 1 BY <2>1, <2>2, <2>3
    <3>4. \A q \in wire : q.n \in 1..client'.sent /\ q.n # r.n BY <3>1, <3>2, <3>3
    <3>5. \A q \in wire : Numbers(q) \cap Numbers(r) = {}
      <4>1. NumbersOf(c.events) \cap UnderWay = {} BY DEF Good, Parted
      <4>2. \A q \in wire : Numbers(q) \subseteq UnderWay BY DEF UnderWay, Numbers
      <4> QED BY <2>5, <4>1, <4>2
    <3>6. \A q \in wire' : ReportOK(q)' /\ q.n \in 1..client'.sent
      <4>1. r.n \in 1..client'.sent BY <3>2, <3>3
      <4> QED BY <2>1, <2>4, <3>1, <3>4, <4>1
    <3>7. \A q, s \in wire' : q # s => q.n # s.n /\ Numbers(q) \cap Numbers(s) = {}
      <4>1. \A q, s \in wire : q # s => q.n # s.n /\ Numbers(q) \cap Numbers(s) = {} BY DEF IInv, WireOK
      <4> QED BY <2>1, <3>4, <3>5, <4>1
    <3>8. \A q \in wire' : q.state = "answered" => Numbers(q) \subseteq Got' BY <1>1, <2>1, <2>3 DEF IInv, WireOK
    <3> QED BY <3>6, <3>7, <3>8 DEF WireOK, Numbers
  <2>10. client'.sent = client.sent + 1 BY <2>1, <2>2
  <2> QED BY <1>2, <1>5, <2>8, <2>9, <2>10
<1>6. CASE ~IsFlushRequired(c)
  <2> DEFINE x == ClearInactivityFlushTimeout(c)
  <2>1. client' = x /\ wire' = wire BY <1>6 DEF Flush
  <2>2. c.events = <<>>
    <3>1. ~(Len(c.events) > 0) BY <1>6 DEF IsFlushRequired
    <3>2. Len(c.events) \in Nat BY <1>0
    <3>3. Len(c.events) = 0 BY <3>1, <3>2
    <3> QED BY <1>0, <3>3
  <2>3. /\ DOMAIN x = DOMAIN c /\ x.count = c.count /\ x.sent = c.sent /\ x.flow = c.flow /\ x.memory = c.memory
        /\ x.timer = FALSE /\ x.events = <<>>
    BY <1>0, <2>2 DEF ClientShape, ClearInactivityFlushTimeout
  <2> HIDE DEF x
  <2>4. UnderWay' = UnderWay /\ Sent' = Sent BY <2>1 DEF UnderWay, Sent
  <2>5. NumbersOf(c.events) = {} BY <2>2 DEF NumbersOf
  <2>6. Parted({}, UnderWay', Got, page.kept, GivenUp, c.count) BY <2>4, <2>5 DEF Good
  <2>7. Good(client)' BY <1>0, <1>4, <2>1, <2>3, <2>4, <2>6
  <2>8. WireOK' BY <1>1, <1>3, <2>1, <2>3 DEF IInv, WireOK, Numbers
  <2> QED BY <1>2, <1>6, <2>1, <2>3, <2>7, <2>8
<1> QED BY <1>5, <1>6

\* A flush that leaves the page where it is.
LEMMA FlushHereOK ==
    ASSUME IInv, UNCHANGED <<setup, now, page, server, lost>>, NEW c, Good(c), c.sent = client.sent,
           NEW sync, Flush(c, sync)
    PROVE  IInv'
<1>1. PageStays BY DEF PageStays
<1>2. /\ Good(client)' /\ WireOK' /\ ServerOK'
      /\ client'.sent = IF IsFlushRequired(c) THEN client.sent + 1 ELSE client.sent
  BY <1>1, FlushOK
<1>3. client.sent \in Nat BY DEF IInv, Good, ClientOK, ClientShape
<1>4. ClockOK'
  <2>1. page.leaving \in -1..client.sent BY DEF IInv, ClockOK
  <2>2. page'.leaving \in -1..client'.sent BY <1>2, <1>3, <2>1
  <2> QED BY <2>2 DEF IInv, ClockOK
<1> QED BY <1>2, <1>4 DEF IInv

LEMMA InactivityFlushOK == ASSUME IInv, UNCHANGED <<setup, now>>, InactivityFlush PROVE IInv'
<1> DEFINE c == LogEvent(client, "inactivity.flush")
<1>1. "inactivity.flush" \in Types \ Once /\ "inactivity.flush" \notin FlowEvents BY DEF Types, Once, FlowEvents
<1>2. Good(c) /\ c.sent = client.sent BY <1>1, LogEventOK DEF IInv
<1> HIDE DEF c
<1> QED BY <1>2, FlushHereOK DEF InactivityFlush, c

LEMMA ErrorOK == ASSUME IInv, UNCHANGED <<setup, now>>, CaptureAndFlushError PROVE IInv'
<1> DEFINE c == LogEvent(client, "error")
<1>1. "error" \in Types \ Once /\ "error" \notin FlowEvents BY DEF Types, Once, FlowEvents
<1>2. Good(c) /\ c.sent = client.sent BY <1>1, LogEventOK DEF IInv
<1> HIDE DEF c
<1> QED BY <1>2, FlushHereOK DEF CaptureAndFlushError, LogError, c

LEMMA LeavingOK ==
    ASSUME IInv, UNCHANGED <<setup, now>>, Blur \/ Unload \/ OnExternalLinkClick \/ FlushMetricsThenRedirect
    PROVE  IInv'
<1>0. ClockOK /\ Good(client) /\ client.sent \in Nat BY DEF IInv, Good, ClientOK, ClientShape
<1>1. CASE Blur BY <1>0, <1>1, FlushHereOK DEF Blur
<1>2. CASE OnExternalLinkClick
  <2>1. /\ page' = [page EXCEPT !.leaving = IF IsFlushRequired(client) THEN client.sent + 1 ELSE -1]
        /\ Flush(client, FALSE) /\ UNCHANGED <<server, lost>>
    BY <1>2 DEF OnExternalLinkClick
  <2>2. PageStays /\ page'.kept = page.kept /\ page'.open = page.open BY <1>0, <2>1 DEF ClockOK, PageStays
  <2>3. /\ Good(client)' /\ WireOK' /\ ServerOK'
        /\ client'.sent = IF IsFlushRequired(client) THEN client.sent + 1 ELSE client.sent
    BY <1>0, <2>1, <2>2, FlushOK
  <2>4. page'.leaving = IF IsFlushRequired(client) THEN client.sent + 1 ELSE -1 BY <1>0, <2>1 DEF ClockOK
  <2>5. page'.leaving \in -1..client'.sent BY <1>0, <2>3, <2>4
  <2>6. ClockOK' BY <1>0, <2>2, <2>5 DEF ClockOK, PageStays
  <2> QED BY <2>3, <2>6 DEF IInv
<1>3. CASE Unload \/ FlushMetricsThenRedirect
  <2>1. page' = [page EXCEPT !.open = FALSE] /\ Flush(client, TRUE) /\ UNCHANGED <<server, lost>>
    BY <1>3 DEF Unload, FlushMetricsThenRedirect
  <2>2. PageStays /\ page'.kept = page.kept /\ page'.open = FALSE /\ page'.leaving = page.leaving
    BY <1>0, <2>1 DEF ClockOK, PageStays
  <2>3. /\ Good(client)' /\ WireOK' /\ ServerOK'
        /\ client'.sent = IF IsFlushRequired(client) THEN client.sent + 1 ELSE client.sent
    BY <1>0, <2>1, <2>2, FlushOK
  <2>4. page.leaving \in -1..client.sent BY <1>0 DEF ClockOK
  <2>5. page'.leaving \in -1..client'.sent BY <1>0, <2>2, <2>3, <2>4
  <2>6. ClockOK' BY <1>0, <2>2, <2>5 DEF ClockOK, PageStays
  <2> QED BY <2>3, <2>6 DEF IInv
<1> QED BY <1>1, <1>2, <1>3

-----------------------------------------------------------------------------
(***************************************************************************)
(* Time.                                                                   *)
(***************************************************************************)
\* The page's clock goes on, or is set once; nothing else changes.
LEMMA TimeOK == ASSUME IInv, Tick \/ (ClockSet /\ UNCHANGED <<setup, now>>) PROVE IInv'
<1>1. UNCHANGED <<setup, client, wire, server, lost>> BY DEF Tick, ClockSet
<1>2. /\ setup \in Scenarios /\ ClockOK /\ Good(client) /\ WireOK /\ ServerOK
      /\ client.events \in Seq(Event)
  BY DEF IInv, Good, ClientOK, ClientShape
<1>3. /\ DOMAIN page' = DOMAIN page /\ page'.start = page.start /\ page'.kept = page.kept /\ page'.open = page.open
      /\ page'.leaving = page.leaving /\ now' \in Nat /\ now <= now'
      /\ page'.jump \in {0, setup.jump}
      /\ page'.jump = 0 => page.jump = 0
      /\ page'.jump >= 0 => page.jump >= 0 /\ Clock <= Clock'
      /\ page'.jump = 0 => Clock <= Clock'
  <2>1. CASE Tick
    <3>1. now' = now + 1 /\ page' = page BY <2>1 DEF Tick
    <3> QED BY <1>1, <1>2, <3>1, ClockFacts DEF Clock, ClockOK
  <2>2. CASE ClockSet /\ UNCHANGED now
    <3>1. page' = [page EXCEPT !.jump = setup.jump] /\ page.jump = 0 /\ setup.jump # 0 BY <2>2 DEF ClockSet
    <3>2. /\ DOMAIN page' = DOMAIN page /\ page'.start = page.start /\ page'.kept = page.kept /\ page'.open = page.open
          /\ page'.leaving = page.leaving /\ page'.jump = setup.jump
      BY <1>2, <3>1 DEF ClockOK
    <3>3. Clock' = now + setup.skew + setup.jump BY <1>1, <2>2, <3>2 DEF Clock
    <3> QED BY <1>2, <2>2, <3>1, <3>2, <3>3, ClockFacts
  <2> QED BY <2>1, <2>2
<1>4. ClockOK'
  <2>1. setup.begin + setup.age \in Nat BY <1>2, ClockFacts
  <2>2. now' >= setup.begin + setup.age BY <1>2, <1>3, <2>1 DEF ClockOK
  <2> QED BY <1>1, <1>2, <1>3, <2>2 DEF ClockOK
<1>5. WireOK'
  <2>1. ASSUME NEW r \in wire PROVE ReportOK(r)'
    <3>1. ReportOK(r) BY <1>2 DEF WireOK
    <3>2. ReportShape(r)' BY <1>1, <1>3, <3>1 DEF ReportOK, ReportShape, Flows
    <3>3. TimesOK(r.data.events, r.data.flush)' BY <1>1, <1>3, <3>1 DEF ReportOK, TimesOK
    <3>4. page'.jump = 0 => r.data.flush <= now' + setup.skew
      <4>1. r.data.flush \in Int /\ setup.skew \in Int /\ now \in Int /\ now' \in Int
        BY <1>2, <1>3, <3>1, ClockFacts DEF ReportOK, ReportShape
      <4>2. page'.jump = 0 => r.data.flush <= now + setup.skew BY <1>3, <3>1 DEF ReportOK
      <4> QED BY <1>3, <4>1, <4>2
    <3>5. Distinct(r.data.events)' BY <3>1 DEF ReportOK, Distinct
    <3> QED BY <1>1, <1>3, <3>1, <3>2, <3>3, <3>4, <3>5 DEF ReportOK
  <2> QED BY <1>1, <1>2, <2>1 DEF WireOK, Numbers, Got
<1>6. ServerOK' BY <1>1, <1>2, <1>3 DEF ServerOK, LineOK, IsLogged
<1>7. Good(client)'
  <2>1. ClientOK(client)' BY <1>1, <1>2 DEF Good, ClientOK, ClientShape, Flows
  <2>2. TimesOK(client.events, Clock)'
    <3>1. Clock \in Int /\ Clock' \in Int /\ page.start \in Int
      <4>1. Clock \in Int /\ page.start \in Int /\ setup.skew \in Int BY <1>2, ClockFacts
      <4>2. setup' = setup /\ now' \in Int /\ page'.jump \in Int BY <1>1, <1>2, <1>3, ClockFacts
      <4> QED BY <4>1, <4>2 DEF Clock
    <3>2. ASSUME NEW i \in DOMAIN client.events
          PROVE  client.events[i].offset \in Int /\ client.events[i].at \in Int
      <4>1. client.events[i] \in Event BY <1>2
      <4> QED BY <4>1 DEF Event
    <3>3. setup.skew \in Int BY <1>2, ClockFacts
    <3>4. ASSUME NEW i \in DOMAIN client.events
          PROVE  /\ setup.begin <= client.events[i].at
                 /\ page'.jump >= 0 => client.events[i].offset >= 0 /\ client.events[i].offset <= Clock' - page.start
                 /\ page'.jump = 0 => /\ client.events[i].at + setup.skew <= Clock'
                                      /\ client.events[i].offset = client.events[i].at + setup.skew - page.start
      <4> DEFINE e == client.events[i]
      <4>1. /\ setup.begin <= e.at
            /\ page.jump >= 0 => e.offset >= 0 /\ e.offset <= Clock - page.start
            /\ page.jump = 0 => e.at + setup.skew <= Clock /\ e.offset = e.at + setup.skew - page.start
        BY <1>2 DEF Good, TimesOK
      <4>2. e.offset \in Int /\ e.at \in Int BY <3>2
      <4> HIDE DEF e
      <4>3. page'.jump >= 0 => e.offset >= 0 /\ e.offset <= Clock' - page.start BY <1>3, <3>1, <4>1, <4>2
      <4>4. page'.jump = 0 => e.at + setup.skew <= Clock' BY <1>3, <3>1, <3>3, <4>1, <4>2
      <4> QED BY <1>3, <4>1, <4>3, <4>4 DEF e
    <3> QED BY <1>1, <1>3, <3>4 DEF TimesOK
  <2>3. UnderWay' = UnderWay /\ Got' = Got /\ Sent' = Sent /\ Tags(client.events)' = Tags(client.events)
        /\ NumbersOf(client.events)' = NumbersOf(client.events)
    BY <1>1 DEF UnderWay, Got, Sent
  <2>4. Parted(NumbersOf(client.events), UnderWay, Got, page.kept, GivenUp, client.count)'
    BY <1>1, <1>2, <1>3, <2>3, SameGivenUp DEF Good, Parted
  <2>5. OnceOK(Tags(client.events) \cup Sent, client.memory)' BY <1>1, <1>2, <2>3 DEF Good, OnceOK
  <2>6. Distinct(client.events)' BY <1>1, <1>2 DEF Good, Distinct
  <2> QED BY <2>1, <2>2, <2>4, <2>5, <2>6 DEF Good
<1> QED BY <1>1, <1>2, <1>4, <1>5, <1>6, <1>7 DEF IInv

-----------------------------------------------------------------------------
(***************************************************************************)
(* On the way.                                                             *)
(***************************************************************************)
\* The events of one report are under way until it is gone.
LEMMA OneReport ==
    ASSUME IInv, NEW r \in wire
    PROVE  /\ Numbers(r) \subseteq UnderWay
           /\ UNION {Numbers(q) : q \in wire \ {r}} = UnderWay \ Numbers(r)
<1>1. UnderWay = UNION {Numbers(q) : q \in wire} BY DEF UnderWay, Numbers
<1>2. \A q \in wire \ {r} : Numbers(q) \cap Numbers(r) = {} BY DEF IInv, WireOK
<1> HIDE DEF Numbers
<1> QED BY <1>1, <1>2

\* Of the page, only what the storage keeps may have changed.
KeptOnly == DOMAIN page' = DOMAIN page /\ \A f \in (DOMAIN page) \ {"kept"} : page'[f] = page[f]

\* The same report, in another state.
Replaces(s, r) ==
    /\ wire' = (wire \ {r}) \cup {s}
    /\ DOMAIN s = DOMAIN r /\ s.n = r.n /\ s.data = r.data
    /\ s.try \in {1, 2} /\ s.state \in {"sending", "queued", "answered"}
    /\ s.state = "answered" => Numbers(r) \subseteq Got'

\* A report is gone, and its numbers are accounted for; or it is sent again, queued
\* or answered.
LEMMA WireStep ==
    ASSUME IInv, UNCHANGED <<setup, now, client>>, KeptOnly, NEW r \in wire, Got \subseteq Got'
    PROVE  /\ wire' = wire \ {r} => WireOK' /\ UnderWay' = UnderWay \ Numbers(r)
           /\ \A s : Replaces(s, r) => WireOK' /\ UnderWay' = UnderWay
<1>0. PageStays BY DEF IInv, ClockOK, KeptOnly, PageStays
<1>1. \A q \in wire : ReportOK(q)' /\ q.n \in 1..client'.sent
  BY <1>0 DEF IInv, WireOK, ReportOK, ReportShape, Distinct, TimesOK, Flows, PageStays
<1>2. /\ \A q, s \in wire : q # s => q.n # s.n /\ Numbers(q) \cap Numbers(s) = {}
      /\ \A q \in wire : q.state = "answered" => Numbers(q) \subseteq Got'
  BY DEF IInv, WireOK
<1>3. ASSUME wire' = wire \ {r} PROVE WireOK' /\ UnderWay' = UnderWay \ Numbers(r)
  <2>1. WireOK' BY <1>1, <1>2, <1>3 DEF WireOK, Numbers
  <2>2. UnderWay' = UNION {Numbers(q) : q \in wire \ {r}} BY <1>3 DEF UnderWay, Numbers
  <2> QED BY <2>1, <2>2, OneReport
<1>4. ASSUME NEW s, Replaces(s, r)
      PROVE  WireOK' /\ UnderWay' = UnderWay
  <2>0. /\ wire' = (wire \ {r}) \cup {s}
        /\ DOMAIN s = DOMAIN r /\ s.n = r.n /\ s.data = r.data
        /\ s.try \in {1, 2} /\ s.state \in {"sending", "queued", "answered"}
        /\ s.state = "answered" => Numbers(r) \subseteq Got'
    BY <1>4 DEF Replaces
  <2>1. Numbers(s) = Numbers(r) BY <2>0 DEF Numbers
  <2>2. ReportOK(s)' /\ s.n \in 1..client'.sent
    <3>1. ReportShape(s)' BY <1>1, <2>0 DEF ReportOK, ReportShape
    <3> QED BY <1>1, <2>0, <3>1 DEF ReportOK, Distinct
  <2>3. \A q \in wire' : ReportOK(q)' /\ q.n \in 1..client'.sent BY <1>1, <2>0, <2>2
  <2>4. \A q, p \in wire' : q # p => q.n # p.n /\ Numbers(q) \cap Numbers(p) = {}
    <3>1. \A q \in wire \ {r} : q.n # s.n /\ Numbers(q) \cap Numbers(s) = {} BY <1>2, <2>0, <2>1
    <3> HIDE DEF Numbers
    <3> QED BY <1>2, <2>0, <3>1
  <2>5. \A q \in wire' : q.state = "answered" => Numbers(q) \subseteq Got' BY <1>2, <2>0, <2>1
  <2>6. WireOK' BY <2>3, <2>4, <2>5 DEF WireOK, Numbers
  <2>7. UnderWay' = UNION {Numbers(q) : q \in wire'} /\ UnderWay = UNION {Numbers(q) : q \in wire}
    BY DEF UnderWay, Numbers
  <2> HIDE DEF Numbers
  <2>8. UnderWay' = UnderWay BY <2>0, <2>1, <2>7
  <2> QED BY <2>6, <2>8
<1> QED BY <1>3, <1>4

\* What leaves the page has left it, however it goes on.
LEMMA ClientStays ==
    ASSUME IInv, UNCHANGED <<setup, now, client>>, KeptOnly,
           Parted(Pending, UnderWay', Got', page'.kept, GivenUp', client.count), Sent' \subseteq Sent
    PROVE  Good(client)' /\ ClockOK' /\ (setup \in Scenarios)'
<1>0. PageStays /\ page'.open = page.open /\ page'.leaving = page.leaving BY DEF IInv, ClockOK, KeptOnly, PageStays
<1>1. ClockOK' BY <1>0 DEF IInv, ClockOK, PageStays
<1>2. ClientOK(client)' BY DEF IInv, Good, ClientOK, ClientShape, Flows
<1>3. TimesOK(client.events, Clock)' BY <1>0 DEF IInv, Good, TimesOK, Clock, PageStays
<1>4. Pending = NumbersOf(client.events) BY DEF Pending
<1>5. Parted(NumbersOf(client.events), UnderWay, Got, page.kept, GivenUp, client.count)' BY <1>4 DEF Parted
<1>6. OnceOK(Tags(client.events) \cup Sent, client.memory)' BY DEF IInv, Good, OnceOK
<1>7. Distinct(client.events)' BY DEF IInv, Good, Distinct
<1> QED BY <1>1, <1>2, <1>3, <1>5, <1>6, <1>7 DEF Good, IInv

\* Nothing is known of a report that is gone but what the server got of it.
LEMMA SentShrinks ==
    ASSUME NEW r \in wire, UNCHANGED server,
           wire' = wire \ {r} \/ \E s : s.data = r.data /\ wire' = (wire \ {r}) \cup {s}
    PROVE  Sent' \subseteq Sent /\ Got' = Got
  BY DEF Sent, Got

LEMMA ServerStays ==
    ASSUME IInv, UNCHANGED <<setup, server>>, KeptOnly
    PROVE  ServerOK'
<1>1. page'.jump = page.jump BY DEF IInv, ClockOK, KeptOnly
<1> QED BY <1>1 DEF IInv, ServerOK, LineOK, IsLogged

\* A report is queued, or taken up once more.
LEMMA SameReportOK ==
    ASSUME IInv, UNCHANGED <<setup, now, page, client, server>>, NEW r \in wire, NEW s, Without(r, {s}),
           s = [r EXCEPT !.state = s.state, !.try = s.try], s.try \in {1, 2}, s.state \in {"sending", "queued"},
           GivenUp \subseteq GivenUp', GivenUp' \subseteq GivenUp \cup Numbers(r)
    PROVE  IInv'
<1>1. wire' = (wire \ {r}) \cup {s} BY DEF Without
<1>2. ReportOK(r) BY DEF IInv, WireOK
<1>3. DOMAIN s = DOMAIN r /\ s.n = r.n /\ s.data = r.data BY <1>2 DEF ReportOK, ReportShape
<1>4. KeptOnly BY DEF KeptOnly
<1>5. Sent' \subseteq Sent /\ Got' = Got BY <1>1, <1>3, SentShrinks
<1>6. WireOK' /\ UnderWay' = UnderWay BY <1>1, <1>3, <1>4, <1>5, WireStep DEF Replaces
<1>7. Parted(Pending, UnderWay', Got', page'.kept, GivenUp', client.count)
  <2> HIDE DEF Numbers
  <2>1. Numbers(r) \subseteq UnderWay BY OneReport
  <2>2. Parted(Pending, UnderWay, Got, page.kept, GivenUp, client.count) BY DEF IInv, Good, Pending
  <2>3. Parted(Pending, UnderWay, Got, page.kept, GivenUp', client.count) BY <2>1, <2>2, PartLost
  <2> QED BY <1>5, <1>6, <2>3
<1> QED BY <1>4, <1>5, <1>6, <1>7, ClientStays, ServerStays DEF IInv

\* A report is given up, unless it is sent once more.
LEMMA GiveUpOK ==
    ASSUME IInv, TriesOK, UNCHANGED <<setup, now, page, client, server>>, NEW r \in wire, GiveUp(r, Fails(r))
    PROVE  IInv'
<1>0. lost' = lost \cup FailedTry(r) /\ ReportOK(r) BY DEF GiveUp, IInv, WireOK
<1>1. CASE Fails(r) = {}
  <2>1. wire' = wire \ {r} BY <1>1 DEF GiveUp, Without
  <2>2. KeptOnly BY DEF KeptOnly
  <2>3. Sent' \subseteq Sent /\ Got' = Got BY <2>1, SentShrinks
  <2>4. WireOK' /\ UnderWay' = UnderWay \ Numbers(r) BY <2>1, <2>2, <2>3, WireStep
  <2>5. ~IsThere(r) \/ (r.try = 2 /\ \A n \in Numbers(r) : \E l \in lost : l.n = n /\ l.try = 1)
    <3>1. r.try = 2 \/ ~IsThere(r) BY <1>0, <1>1 DEF Fails, ReportOK, ReportShape
    <3>2. Tried(r) BY DEF TriesOK
    <3> QED BY <3>1, <3>2 DEF Tried
  <2>6. Parted(Pending, UnderWay', Got', page'.kept, GivenUp', client.count)
    <3>1. GivenUp \subseteq GivenUp' /\ GivenUp' \subseteq GivenUp \cup Numbers(r) /\ Numbers(r) \subseteq GivenUp'
      BY <1>0, <2>5, TryFails
    <3> HIDE DEF Numbers
    <3>2. Numbers(r) \subseteq UnderWay BY OneReport
    <3>3. Parted(Pending, UnderWay, Got, page.kept, GivenUp, client.count) BY DEF IInv, Good, Pending
    <3>4. Parted(Pending, UnderWay \ Numbers(r), Got, page.kept, GivenUp', client.count)
      BY <3>1, <3>2, <3>3, PartLost
    <3> QED BY <2>3, <2>4, <3>4
  <2> QED BY <2>2, <2>3, <2>4, <2>6, ClientStays, ServerStays DEF IInv
<1>2. CASE Fails(r) # {}
  <2> DEFINE s == [r EXCEPT !.try = 2, !.state = "sending"]
  <2>1. Fails(r) = {s} BY <1>2 DEF Fails
  <2>2. Without(r, {s}) BY <1>2, <2>1 DEF GiveUp
  <2>3. GivenUp \subseteq GivenUp' /\ GivenUp' \subseteq GivenUp \cup Numbers(r) BY <1>0, TryFails
  <2>4. s.try = 2 /\ s.state = "sending" BY <1>0 DEF ReportOK, ReportShape
  <2>5. s = [r EXCEPT !.state = s.state, !.try = s.try] BY <1>0, <2>4 DEF ReportOK, ReportShape
  <2> HIDE DEF s
  <2> QED BY <2>2, <2>3, <2>4, <2>5, SameReportOK
<1> QED BY <1>1, <1>2

-----------------------------------------------------------------------------
(***************************************************************************)
(* The server.                                                             *)
(***************************************************************************)
LEMMA NamesOfFlow ==
    ASSUME NEW type \in Types
    PROVE  /\ IsFlowEvent(type) <=> type \in FlowEvents
           /\ type \in FlowEvents => ~(type = "screen") /\ ~(type = "loaded")
  BY DEF Types, FlowEvents, IsFlowEvent

\* The server's estimate of the time of an event lies between the event and its
\* arrival, whatever the page's clock says.
LEMMA EstimateOK ==
    ASSUME IInv, NEW r \in wire, NEW i \in DOMAIN r.data.events
    PROVE  LET e == r.data.events[i]
               t == EstimateTime(r.data, e, now)
           IN  /\ t \in Int /\ e \in Event /\ setup.begin <= e.at
               /\ page.jump = 0 => t \in e.at..now
<1> DEFINE e == r.data.events[i]
<1>1. ReportOK(r) BY DEF IInv, WireOK
<1>2. e \in Event /\ r.data.start = page.start /\ r.data.flush \in Int BY <1>1 DEF ReportOK, ReportShape
<1>3. e.offset \in Int /\ e.at \in Nat BY <1>2 DEF Event
<1>4. /\ setup.begin <= e.at
      /\ page.jump = 0 => e.at + setup.skew <= r.data.flush /\ e.offset = e.at + setup.skew - page.start
      /\ page.jump = 0 => r.data.flush <= now + setup.skew
  BY <1>1 DEF ReportOK, TimesOK
<1>5. setup.skew \in Int /\ now \in Nat /\ page.start \in Int BY ClockFacts DEF IInv
<1> DEFINE offset == e.offset
           at == e.at
           flush == r.data.flush
           start == page.start
           skew == setup.skew
           t == start + offset + (now - flush)
<1>6. /\ offset \in Int /\ at \in Nat /\ flush \in Int /\ start \in Int /\ skew \in Int /\ now \in Nat
      /\ page.jump = 0 => at + skew <= flush /\ offset = at + skew - start /\ flush <= now + skew
  BY <1>2, <1>3, <1>4, <1>5
<1>7. EstimateTime(r.data, e, now) = t BY <1>2 DEF EstimateTime
<1> HIDE DEF offset, at, flush, start, skew
<1>8. t \in Int /\ (page.jump = 0 => t \in at..now) BY <1>6
<1> HIDE DEF t
<1> QED BY <1>2, <1>4, <1>7, <1>8 DEF at

\* The lines of a report are of flows and of their time.
LEMMA LinesOK ==
    ASSUME IInv, NEW r \in wire, NEW l \in MetricsRequest(r.data)
    PROVE  LineOK(l)
<1>0. /\ setup.begin \in Int /\ setup.load \in Int /\ setup.begin + setup.load \in Int /\ now \in Int
  BY ClockFacts DEF IInv
<1>1. CASE \E i \in DOMAIN r.data.events : l \in EventLines(r.data, r.data.events[i])
  <2>1. PICK i \in DOMAIN r.data.events : l \in EventLines(r.data, r.data.events[i]) BY <1>1
  <2> DEFINE e == r.data.events[i]
             t == EstimateTime(r.data, e, now)
  <2>2. /\ t \in Int /\ e \in Event /\ setup.begin <= e.at
        /\ page.jump = 0 => t \in e.at..now
    BY EstimateOK
  <2>3. CASE e.type = "flow.begin"
    <3>1. l = Line(r.data, e, setup.begin, 0) BY <2>1, <2>3 DEF EventLines
    <3>2. l.type = "flow.begin" /\ l.time = setup.begin /\ l.flowTime = 0 BY <2>3, <3>1 DEF Line, FlowEventOf
    <3> QED BY <1>0, <3>2 DEF LineOK, IsFlowEvent
  <2>4. CASE e.type # "flow.begin"
    <3>1. IsFlowEvent(FlowEventOf(r.data, e.type)) /\ l = Line(r.data, e, t, t - setup.begin)
      BY <2>1, <2>4 DEF EventLines
    <3>2. l.type = FlowEventOf(r.data, e.type) /\ l.time = t /\ l.flowTime = t - setup.begin
          /\ l.at = e.at /\ l.received = now
      BY <3>1 DEF Line
    <3>3. e.at \in Int BY <2>2 DEF Event
    <3> HIDE DEF e, t
    <3>4. t - setup.begin \in Int BY <1>0, <2>2
    <3>5. page.jump = 0 => t - setup.begin >= 0 BY <1>0, <2>2, <3>3
    <3>6. page.jump = 0 => l.time \in l.at..l.received /\ l.flowTime >= 0 BY <2>2, <3>2, <3>5
    <3>7. IsFlowEvent(l.type) /\ l.time \in Int /\ l.flowTime \in Int
      <4>1. IsFlowEvent(l.type) BY <3>1, <3>2
      <4>2. l.time \in Int BY <2>2, <3>2
      <4>3. l.flowTime \in Int BY <3>2, <3>4
      <4> QED BY <4>1, <4>2, <4>3
    <3> QED BY <3>6, <3>7 DEF LineOK
  <2> QED BY <2>3, <2>4
<1>2. CASE l \in PerformanceLines(r.data)
  <2>1. l = Line(r.data, [n |-> 0, type |-> "flow.performance", at |-> 0], setup.begin + setup.load, setup.load)
    BY <1>2 DEF PerformanceLines
  <2>2. l.n = 0 /\ l.type = "flow.performance" /\ l.time = setup.begin + setup.load /\ l.flowTime = setup.load
    BY <2>1 DEF Line, FlowEventOf
  <2>3. ~(l.n > 0) BY <2>2
  <2>4. IsFlowEvent(l.type) BY <2>2 DEF IsFlowEvent
  <2>5. l.time \in Int BY <1>0, <2>2
  <2>6. l.flowTime \in Int BY <1>0, <2>2
  <2> QED BY <2>3, <2>4, <2>5, <2>6 DEF LineOK
<1> QED BY <1>1, <1>2 DEF MetricsRequest

\* What arrives of a flow that is valid and not too old has a line.
LEMMA Logged ==
    ASSUME IInv, NEW r \in wire, NEW i \in DOMAIN r.data.events, page.jump = 0, setup.entrypoint # "a:b",
           r.data.events[i].type \in FlowEvents, r.data.flow.id = "signed", now - setup.begin <= Expiry
    PROVE  \E l \in MetricsRequest(r.data) : l.n = r.data.events[i].n
<1> DEFINE e == r.data.events[i]
           t == EstimateTime(r.data, e, now)
<1>1. setup.begin \in Nat /\ now \in Nat /\ setup.begin <= now /\ Expiry \in Nat
  BY ClockFacts, BoundsAssumption DEF IInv
<1>2. IsValidTime(setup.begin, now)
  <2>1. now - setup.begin >= 0 /\ now - setup.begin \in Int BY <1>1
  <2> QED BY <1>1, <2>1 DEF IsValidTime
<1>3. r.data.flow # NoFlow BY DEF IInv, WireOK, ReportOK
<1>4. IsValidFlowData(r.data, now) BY <1>2, <1>3 DEF IsValidFlowData, ValidateFlow
<1>5. EventLines(r.data, e) \subseteq MetricsRequest(r.data) BY <1>4 DEF MetricsRequest
<1>6. t \in Int /\ e \in Event /\ setup.begin <= e.at /\ t \in e.at..now BY EstimateOK
<1>7. e.type \in Types /\ e.at \in Nat BY <1>6 DEF Event
<1>8. CASE e.type = "flow.begin"
  <2>1. Line(r.data, e, setup.begin, 0) \in EventLines(r.data, e) BY <1>8 DEF EventLines
  <2>2. Line(r.data, e, setup.begin, 0).n = e.n BY DEF Line
  <2> QED BY <1>5, <2>1, <2>2
<1>9. CASE e.type # "flow.begin"
  <2>1. FlowEventOf(r.data, e.type) = e.type /\ IsFlowEvent(e.type) BY <1>7, NamesOfFlow DEF FlowEventOf
  <2>2. IsValidTime(t, now)
    <3> HIDE DEF t, e
    <3>1. now - t \in 0..Expiry BY <1>1, <1>6, <1>7
    <3> QED BY <3>1 DEF IsValidTime
  <2>3. Line(r.data, e, t, t - setup.begin) \in EventLines(r.data, e) BY <1>9, <2>1, <2>2 DEF EventLines
  <2>4. Line(r.data, e, t, t - setup.begin).n = e.n BY DEF Line
  <2> QED BY <1>5, <2>3, <2>4
<1> QED BY <1>8, <1>9

\* The server reads a report.
LEMMA ProcessOK ==
    ASSUME IInv, UNCHANGED <<setup, now, page>>, NEW r \in wire, Process(r)
    PROVE  /\ ServerOK'
           /\ Got' = Got \cup Numbers(r)
           /\ {Tag(g) : g \in server'.got} = {Tag(g) : g \in server.got} \cup Tags(r.data.events)
<1>1. /\ server'.lines = server.lines \cup MetricsRequest(r.data)
      /\ server'.got = server.got \cup {Received(r, r.data.events[i]) : i \in DOMAIN r.data.events}
  BY DEF Process
<1>2. ASSUME NEW i \in DOMAIN r.data.events
      PROVE  LET g == Received(r, r.data.events[i])
             IN  /\ g.n = r.data.events[i].n /\ g.type = r.data.events[i].type /\ g.received = now
                 /\ g.flow = r.data.flow
  BY DEF Received
<1> DEFINE New == {Received(r, r.data.events[i]) : i \in DOMAIN r.data.events}
<1>3. Got' = Got \cup Numbers(r)
  <2>1. {g.n : g \in New} = Numbers(r) BY <1>2 DEF Numbers, NumbersOf
  <2> HIDE DEF New, Numbers
  <2> QED BY <1>1, <2>1 DEF Got, New
<1>4. {Tag(g) : g \in server'.got} = {Tag(g) : g \in server.got} \cup Tags(r.data.events)
  <2>1. \A i \in DOMAIN r.data.events : Tag(Received(r, r.data.events[i])) = Tag(r.data.events[i])
    BY <1>2 DEF Tag
  <2>2. {Tag(g) : g \in New} = Tags(r.data.events)
    <3> HIDE DEF Tag
    <3> QED BY <2>1 DEF Tags
  <2> HIDE DEF New, Tag
  <2> QED BY <1>1, <2>2 DEF New
<1>5. \A l \in server'.lines : LineOK(l)'
  <2>1. \A l \in server'.lines : LineOK(l) BY <1>1, LinesOK DEF IInv, ServerOK
  <2> QED BY <2>1 DEF LineOK
<1>6. ASSUME NEW g \in server'.got PROVE g.type \in Types /\ IsLogged(g)'
  <2>1. CASE g \in server.got BY <1>1, <2>1 DEF IInv, ServerOK, IsLogged
  <2>2. CASE g \in New
    <3>1. PICK i \in DOMAIN r.data.events : g = Received(r, r.data.events[i]) BY <2>2
    <3>2. g.n = r.data.events[i].n /\ g.type = r.data.events[i].type /\ g.received = now /\ g.flow = r.data.flow
      BY <1>2, <3>1
    <3>3. r.data.events[i] \in Event BY EstimateOK
    <3>4. g.type \in Types BY <3>2, <3>3 DEF Event
    <3>5. ASSUME page.jump = 0, setup.entrypoint # "a:b", g.type \in FlowEvents, g.flow.id = "signed",
                 g.received - setup.begin <= Expiry
          PROVE  \E l \in server'.lines : l.n = g.n
      BY <1>1, <3>2, <3>5, Logged
    <3> QED BY <3>4, <3>5 DEF IsLogged
  <2> QED BY <1>1, <2>1, <2>2
<1>7. ServerOK' BY <1>5, <1>6 DEF ServerOK
<1> QED BY <1>3, <1>4, <1>7

-----------------------------------------------------------------------------
(***************************************************************************)
(* What becomes of a report.                                               *)
(***************************************************************************)
\* What the server gets of a report was known.
LEMMA SentArrives ==
    ASSUME NEW r \in wire, wire' = wire \ {r} \/ \E s : s.data = r.data /\ wire' = (wire \ {r}) \cup {s},
           {Tag(g) : g \in server'.got} = {Tag(g) : g \in server.got} \cup Tags(r.data.events)
    PROVE  Sent' \subseteq Sent
<1>1. Tags(r.data.events) \subseteq Sent BY DEF Sent
<1>2. \A q \in wire : Tags(q.data.events) \subseteq Sent BY DEF Sent
<1>3. {Tag(g) : g \in server'.got} \subseteq Sent BY <1>1 DEF Sent
<1>4. ASSUME NEW q \in wire' PROVE Tags(q.data.events) \subseteq Sent
  <2>1. q \in wire \/ q.data = r.data OBVIOUS
  <2> QED BY <1>1, <1>2, <2>1
<1>5. UNION {Tags(q.data.events) : q \in wire'} \subseteq Sent
  <2> SUFFICES ASSUME NEW q \in wire', NEW x \in Tags(q.data.events) PROVE x \in Sent OBVIOUS
  <2> QED BY <1>4
<1>6. Sent' = (UNION {Tags(q.data.events) : q \in wire'}) \cup {Tag(g) : g \in server'.got} BY DEF Sent
<1> QED BY <1>3, <1>5, <1>6

\* A request is answered once the server has read it.
LEMMA ArrivesOK == ASSUME IInv, UNCHANGED <<setup, now>>, NEW r \in wire, RequestArrives(r) PROVE IInv'
<1> DEFINE s == [r EXCEPT !.state = "answered"]
<1>1. Process(r) /\ wire' = (wire \ {r}) \cup {s} /\ UNCHANGED <<page, client, lost>>
  BY DEF RequestArrives, Without
<1>2. ReportOK(r) BY DEF IInv, WireOK
<1>3. DOMAIN s = DOMAIN r /\ s.n = r.n /\ s.data = r.data /\ s.try \in {1, 2} /\ s.state = "answered"
  BY <1>2 DEF ReportOK, ReportShape
<1> HIDE DEF s
<1>4. /\ ServerOK' /\ Got' = Got \cup Numbers(r)
      /\ {Tag(g) : g \in server'.got} = {Tag(g) : g \in server.got} \cup Tags(r.data.events)
  BY <1>1, ProcessOK
<1>5. KeptOnly BY <1>1 DEF KeptOnly
<1>6. Replaces(s, r)
  <2>1. Numbers(r) \subseteq Got' BY <1>4
  <2> QED BY <1>1, <1>3, <2>1 DEF Replaces
<1>7. WireOK' /\ UnderWay' = UnderWay BY <1>1, <1>4, <1>5, <1>6, WireStep
<1>8. Sent' \subseteq Sent BY <1>1, <1>3, <1>4, SentArrives
<1>9. Parted(Pending, UnderWay', Got', page'.kept, GivenUp', client.count)
  <2> HIDE DEF Numbers
  <2>1. Numbers(r) \subseteq UnderWay BY OneReport
  <2>2. Parted(Pending, UnderWay, Got, page.kept, GivenUp, client.count) BY DEF IInv, Good, Pending
  <2>3. Parted(Pending, UnderWay, Got \cup Numbers(r), page.kept, GivenUp, client.count) BY <2>1, <2>2, PartArrives
  <2> QED BY <1>1, <1>4, <1>7, <2>3, SameGivenUp
<1> QED BY <1>1, <1>4, <1>5, <1>7, <1>8, <1>9, ClientStays DEF IInv

\* A beacon arrives, or it is not known what became of it.
LEMMA BeaconOK == ASSUME IInv, UNCHANGED <<setup, now>>, NEW r \in wire, BeaconEnds(r) PROVE IInv'
<1>1. wire' = wire \ {r} /\ UNCHANGED <<page, client>> BY DEF BeaconEnds, Without
<1>2. KeptOnly BY <1>1 DEF KeptOnly
<1>3. Numbers(r) \subseteq UnderWay BY OneReport
<1>4. Parted(Pending, UnderWay, Got, page.kept, GivenUp, client.count) BY DEF IInv, Good, Pending
<1>5. CASE Process(r) /\ lost' = lost
  <2>1. /\ ServerOK' /\ Got' = Got \cup Numbers(r)
        /\ {Tag(g) : g \in server'.got} = {Tag(g) : g \in server.got} \cup Tags(r.data.events)
    BY <1>1, <1>5, ProcessOK
  <2>2. WireOK' /\ UnderWay' = UnderWay \ Numbers(r) BY <1>1, <1>2, <2>1, WireStep
  <2>3. Sent' \subseteq Sent BY <1>1, <2>1, SentArrives
  <2>4. Parted(Pending, UnderWay', Got', page'.kept, GivenUp', client.count)
    <3> HIDE DEF Numbers
    <3>1. Parted(Pending, UnderWay \ Numbers(r), Got \cup Numbers(r), page.kept, GivenUp, client.count)
      BY <1>3, <1>4, PartArrives
    <3> QED BY <1>1, <1>5, <2>1, <2>2, <3>1, SameGivenUp
  <2> QED BY <1>1, <1>2, <2>1, <2>2, <2>3, <2>4, ClientStays DEF IInv
<1>6. CASE lost' = lost \cup FailedTry(r) /\ server' = server
  <2>1. Sent' \subseteq Sent /\ Got' = Got BY <1>1, <1>6, SentShrinks
  <2>2. WireOK' /\ UnderWay' = UnderWay \ Numbers(r) BY <1>1, <1>2, <2>1, WireStep
  <2>3. Parted(Pending, UnderWay', Got', page'.kept, GivenUp', client.count)
    <3>1. GivenUp \subseteq GivenUp' /\ GivenUp' \subseteq GivenUp \cup Numbers(r) /\ Numbers(r) \subseteq GivenUp'
      BY <1>6, TryFails DEF BeaconEnds
    <3> HIDE DEF Numbers
    <3>2. Parted(Pending, UnderWay \ Numbers(r), Got, page.kept, GivenUp', client.count)
      BY <1>3, <1>4, <3>1, PartLost
    <3> QED BY <1>1, <2>1, <2>2, <3>2
  <2> QED BY <1>1, <1>2, <1>6, <2>1, <2>2, <2>3, ClientStays, ServerStays DEF IInv
<1> QED BY <1>5, <1>6 DEF BeaconEnds

\* An answer arrives for what the server has.
LEMMA AnswerOK == ASSUME IInv, UNCHANGED <<setup, now>>, NEW r \in wire, AnswerArrives(r) PROVE IInv'
<1>1. wire' = wire \ {r} /\ UNCHANGED <<page, client, server, lost>> BY DEF AnswerArrives, Without
<1>2. KeptOnly BY <1>1 DEF KeptOnly
<1>3. Sent' \subseteq Sent /\ Got' = Got BY <1>1, SentShrinks
<1>4. WireOK' /\ UnderWay' = UnderWay \ Numbers(r) BY <1>1, <1>2, <1>3, WireStep
<1>5. Numbers(r) \subseteq Got BY DEF AnswerArrives, IInv, WireOK
<1>6. Parted(Pending, UnderWay', Got', page'.kept, GivenUp', client.count)
  <2> HIDE DEF Numbers
  <2>1. Parted(Pending, UnderWay, Got, page.kept, GivenUp, client.count) BY DEF IInv, Good, Pending
  <2>2. Parted(Pending, UnderWay \ Numbers(r), Got, page.kept, GivenUp, client.count) BY <1>5, <2>1, PartAnswered
  <2> QED BY <1>1, <1>3, <1>4, <2>2, SameGivenUp
<1> QED BY <1>1, <1>2, <1>3, <1>4, <1>6, ClientStays, ServerStays DEF IInv

LEMMA StoreOK == ASSUME IInv, UNCHANGED <<setup, now>>, NEW r \in wire, Store(r) PROVE IInv'
<1>1. /\ wire' = wire \ {r} /\ UNCHANGED <<client, server, lost>>
      /\ page' = [page EXCEPT !.kept = @ \cup Numbers(r)]
  BY DEF Store, Without, Numbers
<1>2. KeptOnly /\ page'.kept = page.kept \cup Numbers(r) BY <1>1 DEF KeptOnly, IInv, ClockOK
<1>3. Sent' \subseteq Sent /\ Got' = Got BY <1>1, SentShrinks
<1>4. WireOK' /\ UnderWay' = UnderWay \ Numbers(r) BY <1>1, <1>2, <1>3, WireStep
<1>5. Numbers(r) \subseteq UnderWay BY OneReport
<1>6. Parted(Pending, UnderWay', Got', page'.kept, GivenUp', client.count)
  <2> HIDE DEF Numbers
  <2>1. Parted(Pending, UnderWay, Got, page.kept, GivenUp, client.count) BY DEF IInv, Good, Pending
  <2>2. Parted(Pending, UnderWay \ Numbers(r), Got, page.kept \cup Numbers(r), GivenUp, client.count)
    BY <1>5, <2>1, PartStored
  <2> QED BY <1>1, <1>2, <1>3, <1>4, <2>2, SameGivenUp
<1> QED BY <1>1, <1>2, <1>3, <1>4, <1>6, ClientStays, ServerStays DEF IInv

LEMMA ReportStepOK == ASSUME IInv, TriesOK, UNCHANGED <<setup, now>>, NEW r \in wire, ReportStep(r) PROVE IInv'
<1>1. CASE BeaconQueued(r)
  <2> DEFINE s == [r EXCEPT !.state = "queued"]
  <2>1. Without(r, {s}) /\ UNCHANGED <<page, client, server, lost>> BY <1>1 DEF BeaconQueued
  <2>2. ReportOK(r) BY DEF IInv, WireOK
  <2>3. s.state = "queued" /\ s.try \in {1, 2} /\ s = [r EXCEPT !.state = s.state, !.try = s.try]
    BY <2>2 DEF ReportOK, ReportShape
  <2>4. GivenUp' = GivenUp BY <2>1, SameGivenUp
  <2> HIDE DEF s
  <2> QED BY <2>1, <2>3, <2>4, SameReportOK
<1>2. CASE BeaconRefused(r) \/ RequestFails(r) \/ AnswerLost(r)
  <2>1. GiveUp(r, Fails(r)) /\ UNCHANGED <<page, client, server>>
    BY <1>2 DEF BeaconRefused, RequestFails, AnswerLost
  <2> QED BY <2>1, GiveUpOK
<1>3. CASE BeaconEnds(r) BY <1>3, BeaconOK
<1>4. CASE RequestArrives(r) BY <1>4, ArrivesOK
<1>5. CASE AnswerArrives(r) BY <1>5, AnswerOK
<1>6. CASE Store(r) BY <1>6, StoreOK
<1> QED BY <1>1, <1>2, <1>3, <1>4, <1>5, <1>6 DEF ReportStep

-----------------------------------------------------------------------------
(***************************************************************************)
(* The invariant.                                                          *)
(***************************************************************************)
LEMMA InitOK == Init => IInv
<1> SUFFICES ASSUME Init PROVE IInv OBVIOUS
<1>1. /\ setup \in Scenarios /\ now = setup.begin + setup.age /\ client = NewMetrics /\ wire = {} /\ lost = {}
      /\ page = [open |-> TRUE, start |-> setup.begin + setup.age + setup.skew, jump |-> 0, leaving |-> 0, kept |-> {}]
      /\ server.lines = ServerBegin(setup) /\ server.got = {}
  BY DEF Init
<1>2. setup.begin \in Nat /\ setup.age \in Nat /\ setup.skew \in Int BY <1>1, ScenariosAssumption
<1>3. client.events = <<>> /\ client.count = 0 /\ client.memory = {} /\ client.flow = NoFlow /\ client.sent = 0
  BY <1>1 DEF NewMetrics
<1>4. <<>> \in Seq(Event) /\ DOMAIN <<>> = {} OBVIOUS
<1>5. ClockOK
  <2>1. now \in Nat /\ now >= setup.begin + setup.age BY <1>1, <1>2
  <2>2. 0 \in -1..client.sent BY <1>3
  <2> QED BY <1>1, <2>1, <2>2 DEF ClockOK
<1>6. ClientOK(client) /\ TimesOK(client.events, Clock)
  <2>1. ClientShape(client) BY <1>1, <1>4 DEF NewMetrics, ClientShape, Flows
  <2> QED BY <1>3, <1>4, <2>1 DEF ClientOK, TimesOK
<1>7. WireOK BY <1>1 DEF WireOK
<1>8. ServerOK
  <2>1. ASSUME NEW l \in ServerBegin(setup) PROVE LineOK(l)
    <3>1. l.n = 0 /\ l.type = "flow.begin" /\ l.time = setup.begin /\ l.flowTime = setup.begin
      BY <2>1 DEF ServerBegin
    <3> QED BY <1>2, <3>1 DEF LineOK, IsFlowEvent
  <2> QED BY <1>1, <2>1 DEF ServerOK
<1>9. Parted(NumbersOf(client.events), UnderWay, Got, page.kept, GivenUp, client.count)
  <2>1. NumbersOf(client.events) = {} BY <1>3, <1>4 DEF NumbersOf
  <2>2. UnderWay = {} /\ Got = {} /\ page.kept = {} /\ GivenUp = {} BY <1>1 DEF UnderWay, Got, GivenUp
  <2>3. 1..client.count = {} BY <1>3
  <2> QED BY <2>1, <2>2, <2>3 DEF Parted
<1>10. OnceOK(Tags(client.events) \cup Sent, client.memory)
  <2>1. Tags(client.events) = {} BY <1>3, <1>4 DEF Tags
  <2>2. Sent = {} BY <1>1 DEF Sent
  <2> QED BY <2>1, <2>2 DEF OnceOK
<1>11. Distinct(client.events) BY <1>3, <1>4 DEF Distinct
<1> QED BY <1>1, <1>5, <1>6, <1>7, <1>8, <1>9, <1>10, <1>11 DEF IInv, Good

LEMMA NextOK == IInv /\ TriesOK /\ [Next]_vars => IInv'
<1> SUFFICES ASSUME IInv, TriesOK, [Next]_vars PROVE IInv' OBVIOUS
<1>1. CASE UNCHANGED vars
  <2>1. UNCHANGED <<setup, now>> /\ ByPage(client) BY <1>1 DEF vars, ByPage
  <2> QED BY <2>1, ByPageOK DEF IInv
<1>2. CASE Tick BY <1>2, TimeOK
<1>3. CASE PageStep /\ UNCHANGED <<setup, now>>
  <2>1. ASSUME NEW view \in setup.views, ViewShown(view) PROVE IInv' BY <1>3, <2>1, ViewShownOK
  <2>2. CASE EngageFlowEventsForm \/ SubmitFlowEventsForm \/ ClickFlowEventsLink BY <1>3, <2>2, FlowStepOK
  <2>3. CASE ExperimentChosen BY <1>3, <2>3, ExperimentOK
  <2>4. CASE SnippetShown \/ SnippetClicked BY <1>3, <2>4, SnippetOK
  <2>5. CASE SignedIn \/ SignedOut \/ LogNumStoredAccounts BY <1>3, <2>5, AccountOK
  <2>6. CASE CaptureAndFlushError BY <1>3, <2>6, ErrorOK
  <2>7. CASE Blur \/ Unload \/ OnExternalLinkClick BY <1>3, <2>7, LeavingOK
  <2>8. CASE ClockSet BY <1>3, <2>8, TimeOK
  <2> QED BY <1>3, <2>1, <2>2, <2>3, <2>4, <2>5, <2>6, <2>7, <2>8 DEF PageStep
<1>4. CASE Settles /\ UNCHANGED <<setup, now>>
  <2>1. ASSUME NEW r \in wire, ReportStep(r) PROVE IInv' BY <1>4, <2>1, ReportStepOK
  <2>2. CASE InactivityFlush BY <1>4, <2>2, InactivityFlushOK
  <2>3. CASE FlushMetricsThenRedirect BY <1>4, <2>3, LeavingOK
  <2> QED BY <1>4, <2>1, <2>2, <2>3 DEF Settles
<1> QED BY <1>1, <1>2, <1>3, <1>4 DEF Next

-----------------------------------------------------------------------------
(***************************************************************************)
(* The tries.                                                              *)
(***************************************************************************)
\* More lost tries, and the same with the server.
LEMMA TriedStays ==
    ASSUME NEW r, Tried(r), lost \subseteq lost', server' = server
    PROVE  Tried(r)'
<1>1. \A n : AnswerWasLost(n) => AnswerWasLost(n)' BY DEF AnswerWasLost
<1> HIDE DEF AnswerWasLost
<1> QED BY <1>1 DEF Tried, Numbers

LEMMA CountStays ==
    ASSUME TriesOK, lost \subseteq lost', server' = server
    PROVE  /\ \A g \in server'.got : g.try \in {1, 2}
           /\ CountedTwiceOnlyUnheard'
<1>1. \A n : AnswerWasLost(n) => AnswerWasLost(n)' BY DEF AnswerWasLost
<1> HIDE DEF AnswerWasLost
<1> QED BY <1>1 DEF TriesOK, CountedTwiceOnlyUnheard

\* A report is gone, or goes on as s.
LEMMA TriesGoOn ==
    ASSUME TriesOK, lost \subseteq lost', server' = server, NEW r \in wire,
           wire' \subseteq wire \/ \E s : wire' = (wire \ {r}) \cup {s} /\ Tried(s)'
    PROVE  TriesOK'
<1>1. \A q \in wire : Tried(q)' BY TriedStays DEF TriesOK
<1>2. \A q \in wire' : Tried(q)' BY <1>1
<1> QED BY <1>2, CountStays DEF TriesOK

\* What is sent for the first time the server does not have.
LEMMA TriesFlush ==
    ASSUME IInv, TriesOK, UNCHANGED <<server, lost>>, NEW c, Good(c), NEW sync, Flush(c, sync)
    PROVE  TriesOK'
<1>1. \A q \in wire : Tried(q)' BY TriedStays DEF TriesOK
<1>2. CASE wire' = wire BY <1>1, <1>2, CountStays DEF TriesOK
<1>3. ASSUME NEW r, wire' = wire \cup {r}, r.try = 1, r.data.events = c.events PROVE TriesOK'
  <2>1. Numbers(r) \cap Got = {} BY <1>3 DEF Good, Parted, Numbers
  <2>2. \A g \in server.got : g.n \notin Numbers(r) BY <2>1 DEF Got
  <2>3. Tried(r)' BY <1>3, <2>2 DEF Tried, Numbers
  <2> QED BY <1>1, <1>3, <2>3, CountStays DEF TriesOK
<1>4. CASE IsFlushRequired(c)
  <2>1. PICK r : /\ wire' = wire \cup {r}
                 /\ r = [n |-> c.sent + 1, data |-> GetFilteredData(c), try |-> 1, sync |-> sync, state |-> "sending"]
    BY <1>4 DEF Flush
  <2>2. r.try = 1 /\ r.data.events = c.events BY <2>1 DEF GetFilteredData
  <2> QED BY <1>3, <2>1, <2>2
<1> QED BY <1>2, <1>4 DEF Flush

\* The server has a try of r, whose events it did not have or had from a try that was
\* not heard of.
LEMMA TriesProcess ==
    ASSUME IInv, TriesOK, NEW r \in wire, Process(r), lost' = lost, r.state \in {"sending", "queued"},
           wire' = wire \ {r} \/ \E s : /\ wire' = (wire \ {r}) \cup {s}
                                        /\ s.data = r.data /\ s.try = r.try /\ s.state = "answered"
    PROVE  TriesOK'
<1> DEFINE New == {Received(r, r.data.events[i]) : i \in DOMAIN r.data.events}
<1>1. server'.got = server.got \cup New BY DEF Process
<1>2. ASSUME NEW g \in New
      PROVE  g.n \in Numbers(r) /\ g.try = r.try /\ \A h \in New : g.n = h.n => g = h
  <2>1. PICK i \in DOMAIN r.data.events : g = Received(r, r.data.events[i]) BY <1>2
  <2>2. g.n = r.data.events[i].n /\ g.try = r.try BY <2>1 DEF Received
  <2>3. ASSUME NEW h \in New, g.n = h.n PROVE g = h
    <3>1. PICK j \in DOMAIN r.data.events : h = Received(r, r.data.events[j]) BY <2>3
    <3>2. h.n = r.data.events[j].n BY <3>1 DEF Received
    <3>3. Distinct(r.data.events) BY DEF IInv, WireOK, ReportOK
    <3>4. r.data.events[i] = r.data.events[j] BY <2>2, <2>3, <3>2, <3>3 DEF Distinct
    <3> QED BY <2>1, <3>1, <3>4
  <2> QED BY <2>2, <2>3 DEF Numbers, NumbersOf
<1> HIDE DEF New
<1>3. \A n : AnswerWasLost(n)' <=> AnswerWasLost(n) BY DEF AnswerWasLost
<1>4. r.try \in {1, 2} BY DEF IInv, WireOK, ReportOK, ReportShape
<1>5. \A h \in server.got : h.n \in Numbers(r) => r.try = 2 /\ h.try = 1 /\ AnswerWasLost(h.n)
  BY DEF TriesOK, Tried
<1>6. \A g \in server'.got : g.try \in {1, 2} BY <1>1, <1>2, <1>4 DEF TriesOK
<1>7. CountedTwiceOnlyUnheard'
  <2> HIDE DEF AnswerWasLost
  <2>1. ASSUME NEW g \in server'.got, NEW h \in server'.got, g.n = h.n
        PROVE  g = h \/ (g.try # h.try /\ AnswerWasLost(g.n))
    <3>1. CASE g \in New /\ h \in New BY <1>2, <2>1, <3>1
    <3>2. CASE g \in New /\ h \in server.got BY <1>2, <1>5, <2>1, <3>2
    <3>3. CASE g \in server.got /\ h \in New BY <1>2, <1>5, <2>1, <3>3
    <3>4. CASE g \in server.got /\ h \in server.got BY <2>1, <3>4 DEF TriesOK, CountedTwiceOnlyUnheard
    <3> QED BY <1>1, <3>1, <3>2, <3>3, <3>4
  <2> QED BY <1>3, <2>1 DEF CountedTwiceOnlyUnheard
<1>8. ASSUME NEW q \in wire \ {r} PROVE Tried(q)'
  <2>1. Tried(q) BY DEF TriesOK
  <2>2. Numbers(q) \cap Numbers(r) = {} BY DEF IInv, WireOK
  <2>3. \A g \in server'.got : g.n \in Numbers(q) => g \in server.got
    <3> HIDE DEF Numbers
    <3> QED BY <1>1, <1>2, <2>2
  <2>4. Numbers(q)' = Numbers(q) BY DEF Numbers
  <2> HIDE DEF Numbers, AnswerWasLost
  <2> QED BY <1>3, <2>1, <2>3, <2>4 DEF Tried
<1>9. ASSUME NEW s, s.data = r.data, s.try = r.try, s.state = "answered" PROVE Tried(s)'
  <2>1. Numbers(s)' = Numbers(r) BY <1>9 DEF Numbers
  <2>2. Tried(r) BY DEF TriesOK
  <2> HIDE DEF Numbers, AnswerWasLost
  <2>3. \A g \in server'.got : g.n \in Numbers(r) => g.try = r.try \/ (r.try = 2 /\ g.try = 1 /\ AnswerWasLost(g.n))
    BY <1>1, <1>2, <1>5
  <2>4. r.try = 2 => \A n \in Numbers(r) : \E l \in lost : l.n = n /\ l.try = 1 BY <2>2 DEF Tried
  <2> QED BY <1>3, <1>9, <2>1, <2>3, <2>4 DEF Tried
<1>10. \A q \in wire' : Tried(q)' BY <1>8, <1>9
<1> QED BY <1>6, <1>7, <1>10 DEF TriesOK

\* A report that is sent once more was not heard of.
LEMMA TriesFail ==
    ASSUME IInv, TriesOK, UNCHANGED server, NEW r \in wire, GiveUp(r, Fails(r))
    PROVE  TriesOK'
<1>1. lost' = lost \cup FailedTry(r) /\ ReportOK(r) /\ Tried(r) BY DEF GiveUp, IInv, WireOK, TriesOK
<1>2. CASE Fails(r) = {} BY <1>1, <1>2, TriesGoOn DEF GiveUp, Without
<1>3. CASE Fails(r) # {}
  <2> DEFINE s == [r EXCEPT !.try = 2, !.state = "sending"]
  <2>1. Fails(r) = {s} /\ r.try = 1 BY <1>3 DEF Fails
  <2>2. wire' = (wire \ {r}) \cup {s} BY <2>1 DEF GiveUp, Without
  <2>3. s.data = r.data /\ s.try = 2 BY <1>1 DEF ReportOK, ReportShape
  <2> HIDE DEF s
  <2>4. Numbers(s)' = Numbers(r) BY <2>3 DEF Numbers
  <2>5. \A n \in Numbers(r) : \E l \in lost' : l.n = n /\ l.try = r.try /\ l.state = r.state BY <1>1, TryFails
  <2>6. ASSUME NEW g \in server.got, g.n \in Numbers(r) PROVE g.try = 1 /\ AnswerWasLost(g.n)'
    <3>1. r.state = "answered" /\ g.try = 1 BY <1>1, <2>1, <2>6 DEF Tried
    <3> QED BY <2>1, <2>5, <2>6, <3>1 DEF AnswerWasLost
  <2>7. Tried(s)'
    <3> HIDE DEF Numbers, AnswerWasLost
    <3> QED BY <2>1, <2>3, <2>4, <2>5, <2>6 DEF Tried
  <2> QED BY <1>1, <2>2, <2>7, TriesGoOn
<1> QED BY <1>2, <1>3

LEMMA TriesStep ==
    ASSUME IInv, TriesOK, UNCHANGED <<setup, now>>, NEW r \in wire, ReportStep(r)
    PROVE  TriesOK'
<1>0. ReportOK(r) /\ Tried(r) BY DEF IInv, WireOK, TriesOK
<1>1. CASE BeaconQueued(r)
  <2> DEFINE s == [r EXCEPT !.state = "queued"]
  <2>1. wire' = (wire \ {r}) \cup {s} /\ UNCHANGED <<server, lost>> /\ r.state = "sending"
    BY <1>1 DEF BeaconQueued, Without
  <2>2. s.data = r.data /\ s.try = r.try BY <1>0 DEF ReportOK, ReportShape
  <2> HIDE DEF s
  <2>3. Tried(s)
    <3>1. Numbers(s) = Numbers(r) BY <2>2 DEF Numbers
    <3> HIDE DEF Numbers, AnswerWasLost
    <3> QED BY <1>0, <2>1, <2>2, <3>1 DEF Tried
  <2>4. Tried(s)' BY <2>1, <2>3, TriedStays
  <2> QED BY <2>1, <2>4, TriesGoOn
<1>2. CASE BeaconRefused(r) \/ RequestFails(r) \/ AnswerLost(r)
  <2>1. GiveUp(r, Fails(r)) /\ UNCHANGED server BY <1>2 DEF BeaconRefused, RequestFails, AnswerLost
  <2> QED BY <2>1, TriesFail
<1>3. CASE BeaconEnds(r)
  <2>1. wire' = wire \ {r} /\ r.state = "queued" BY <1>3 DEF BeaconEnds, Without
  <2>2. CASE Process(r) /\ lost' = lost BY <2>1, <2>2, TriesProcess
  <2>3. CASE lost' = lost \cup FailedTry(r) /\ server' = server BY <2>1, <2>3, TriesGoOn
  <2> QED BY <1>3, <2>2, <2>3 DEF BeaconEnds
<1>4. CASE RequestArrives(r)
  <2> DEFINE s == [r EXCEPT !.state = "answered"]
  <2>1. Process(r) /\ wire' = (wire \ {r}) \cup {s} /\ lost' = lost /\ r.state = "sending"
    BY <1>4 DEF RequestArrives, Without
  <2>2. s.data = r.data /\ s.try = r.try /\ s.state = "answered" BY <1>0 DEF ReportOK, ReportShape
  <2> HIDE DEF s
  <2> QED BY <2>1, <2>2, TriesProcess
<1>5. CASE AnswerArrives(r) \/ Store(r)
  <2>1. wire' = wire \ {r} /\ UNCHANGED <<server, lost>> BY <1>5 DEF AnswerArrives, Store, Without
  <2> QED BY <2>1, TriesGoOn
<1> QED BY <1>1, <1>2, <1>3, <1>4, <1>5 DEF ReportStep

LEMMA TriesNext == IInv /\ TriesOK /\ [Next]_vars => TriesOK'
<1> SUFFICES ASSUME IInv, TriesOK, [Next]_vars PROVE TriesOK' OBVIOUS
<1>0. setup \in Scenarios /\ ClockOK /\ Good(client) BY DEF IInv
<1>1. ASSUME UNCHANGED <<wire, server, lost>> PROVE TriesOK'
  <2>1. \A q \in wire : Tried(q)' BY <1>1, TriedStays DEF TriesOK
  <2> QED BY <1>1, <2>1, CountStays DEF TriesOK
<1>2. ASSUME NEW name \in {"inactivity.flush", "error"}, Flush(LogEvent(client, name), FALSE), UNCHANGED <<server, lost>>
      PROVE  TriesOK'
  <2>1. name \in Types \ Once /\ name \notin FlowEvents BY DEF Types, Once, FlowEvents
  <2>2. Good(LogEvent(client, name)) BY <1>0, <2>1, LogEventOK
  <2> QED BY <1>2, <2>2, TriesFlush
<1>3. CASE UNCHANGED vars BY <1>1, <1>3 DEF vars
<1>4. CASE Tick BY <1>1, <1>4 DEF Tick
<1>5. CASE PageStep
  <2>1. CASE CaptureAndFlushError BY <1>2, <2>1 DEF CaptureAndFlushError, LogError
  <2>2. CASE Blur \/ Unload \/ OnExternalLinkClick
    <3>1. UNCHANGED <<server, lost>> /\ \E sync \in BOOLEAN : Flush(client, sync)
      BY <2>2 DEF Blur, Unload, OnExternalLinkClick
    <3> QED BY <1>0, <3>1, TriesFlush
  <2>3. CASE ~CaptureAndFlushError /\ ~Blur /\ ~Unload /\ ~OnExternalLinkClick
    <3>1. UNCHANGED <<wire, server, lost>>
      BY <1>5, <2>3 DEF PageStep, ViewShown, EngageFlowEventsForm, SubmitFlowEventsForm, ClickFlowEventsLink,
         ExperimentChosen, SnippetShown, SnippetClicked, SignedIn, SignedOut, LogNumStoredAccounts, ClockSet, ByPage
    <3> QED BY <1>1, <3>1
  <2> QED BY <2>1, <2>2, <2>3
<1>6. CASE Settles /\ UNCHANGED <<setup, now>>
  <2>1. ASSUME NEW r \in wire, ReportStep(r) PROVE TriesOK' BY <1>6, <2>1, TriesStep
  <2>2. CASE InactivityFlush BY <1>2, <2>2 DEF InactivityFlush
  <2>3. CASE FlushMetricsThenRedirect
    <3>1. UNCHANGED <<server, lost>> /\ Flush(client, TRUE) BY <2>3 DEF FlushMetricsThenRedirect
    <3> QED BY <1>0, <3>1, TriesFlush
  <2> QED BY <1>6, <2>1, <2>2, <2>3 DEF Settles
<1> QED BY <1>3, <1>4, <1>5, <1>6 DEF Next

\* Every event is on one way, in time, and logged as often as it is to be.
THEOREM Invariant == Spec => [](IInv /\ TriesOK)
<1>1. Init => TriesOK BY DEF Init, TriesOK, CountedTwiceOnlyUnheard
<1> QED BY <1>1, InitOK, NextOK, TriesNext, PTL DEF Spec

-----------------------------------------------------------------------------
(***************************************************************************)
(* What the invariant says.                                                *)
(***************************************************************************)
LEMMA Typed == ASSUME IInv, TriesOK PROVE TypeOK
<1>1. /\ ClockOK /\ ClientShape(client) /\ WireOK /\ ServerOK /\ client.count \in Nat
      /\ Parted(Pending, UnderWay, Got, page.kept, GivenUp, client.count)
  BY DEF IInv, Good, ClientOK, ClientShape, Pending
<1>2. /\ page.kept \subseteq 1..client.count /\ Pending \subseteq 1..client.count
      /\ GivenUp \subseteq 1..client.count /\ Got \subseteq 1..client.count
  BY <1>1 DEF Parted
<1>3. now \in Nat /\ page.open \in BOOLEAN /\ page.leaving \in -1..client.sent BY <1>1 DEF ClockOK
<1>4. client.timer \in BOOLEAN /\ client.flow \in {NoFlow, FlowOf(setup.source)} BY <1>1 DEF ClientShape, Flows
<1>5. \A r \in wire : r.try \in 1..2 /\ r.n \in 1..client.sent /\ r.data.fields \subseteq AllowedFields
  <2>1. 1 \in 1..2 /\ 2 \in 1..2 OBVIOUS
  <2> QED BY <1>1, <2>1 DEF WireOK, ReportOK, ReportShape
<1>6. \A l \in server.lines : IsFlowEvent(l.type) /\ l.time \in Int /\ l.flowTime \in Int
  BY <1>1 DEF ServerOK, LineOK
<1>7. \A g \in server.got : g.try \in 1..2 BY DEF TriesOK
<1> QED BY <1>2, <1>3, <1>4, <1>5, <1>6, <1>7 DEF TypeOK

LEMMA Accounted == ASSUME IInv PROVE EventsAccounted /\ EventsAreScheduled
<1>1. Parted(Pending, UnderWay, Got, page.kept, GivenUp, client.count) BY DEF IInv, Good, Pending
<1>2. \A r, q \in wire : r.n # q.n => NumbersOf(r.data.events) \cap NumbersOf(q.data.events) = {}
  BY DEF IInv, WireOK, Numbers
<1>3. EventsAccounted BY <1>1, <1>2 DEF Parted, EventsAccounted
<1>4. Pending # {} => client.events # <<>>
  <2>1. DOMAIN <<>> = {} OBVIOUS
  <2> QED BY <2>1 DEF Pending, NumbersOf
<1>5. EventsAreScheduled BY <1>4 DEF EventsAreScheduled, IInv, Good, ClientOK
<1> QED BY <1>3, <1>5

\* The events that are known, wherever they are.
LEMMA LoggedOnce == ASSUME IInv PROVE OnceIsOnce
<1> DEFINE known == Range(client.events) \cup (UNION {Range(r.data.events) : r \in wire}) \cup server.got
           tags == Tags(client.events) \cup Sent
<1>1. ASSUME NEW e \in known PROVE Tag(e) \in tags
  <2> HIDE DEF Tag
  <2>1. CASE e \in Range(client.events)
    <3>1. PICK i \in DOMAIN client.events : e = client.events[i] BY <2>1 DEF Range
    <3>2. Tag(e) \in Tags(client.events) BY <3>1 DEF Tags
    <3> QED BY <3>2
  <2>2. CASE e \in server.got BY <2>2 DEF Sent
  <2>3. CASE e \in UNION {Range(r.data.events) : r \in wire}
    <3>1. PICK r \in wire : e \in Range(r.data.events) BY <2>3
    <3>2. Tag(e) \in Tags(r.data.events) BY <3>1 DEF Range, Tags
    <3> QED BY <3>2 DEF Sent
  <2>4. e \in Range(client.events) \/ e \in UNION {Range(r.data.events) : r \in wire} \/ e \in server.got
    BY <1>1
  <2> HIDE DEF known, tags
  <2> QED BY <2>1, <2>2, <2>3, <2>4
<1>2. OnceOK(tags, client.memory) BY DEF IInv, Good
<1>3. \A e : Tag(e)[1] = e.type /\ Tag(e)[2] = e.n BY DEF Tag
<1> HIDE DEF known, tags
<1>4. ASSUME NEW e \in known, NEW f \in known, e.type = f.type, e.type \in Once PROVE e.n = f.n
  <2>1. Tag(e) \in tags /\ Tag(f) \in tags BY <1>1
  <2> QED BY <1>2, <1>3, <1>4, <2>1 DEF OnceOK
<1>5. ASSUME NEW e \in known, e.type = "flow.begin" PROVE ~FromAddress(setup.source)
  <2>1. Tag(e) \in tags /\ Tag(e)[1] = "flow.begin" /\ "flow.begin" \in Once BY <1>1, <1>3, <1>5 DEF Once
  <2> QED BY <1>2, <2>1 DEF OnceOK
<1> QED BY <1>4, <1>5 DEF OnceIsOnce, known, Once

\* A report of a flow that is none or whole, by a clock that was not set back, whose
\* events are soon enough.
LEMMA AcceptedOK ==
    ASSUME IInv, NEW r \in wire, page.jump >= 0,
           r.data.flow = NoFlow \/ (r.data.flow.begin /\ r.data.flow.id # "mangled"),
           \A i \in DOMAIN r.data.events : r.data.events[i].offset <= MaxEventOffset
    PROVE  Accepted(r.data)
<1>1. ReportOK(r) BY DEF IInv, WireOK
<1>2. /\ RequiredFields \subseteq r.data.fields /\ r.data.start = page.start /\ r.data.flush >= page.start
      /\ r.data.flush \in Int
  BY <1>1 DEF ReportOK, ReportShape
<1>3. page.start \in Int BY ClockFacts DEF IInv
<1>4. ASSUME NEW i \in DOMAIN r.data.events
      PROVE  /\ r.data.events[i].offset \in Int /\ r.data.events[i].offset >= 0
             /\ r.data.events[i].offset <= r.data.flush - page.start
  <2>1. r.data.events[i] \in Event BY EstimateOK
  <2> QED BY <1>1, <2>1 DEF ReportOK, TimesOK, Event
<1>5. FindInvalidEventOffsets(r.data) = {}
  <2>1. \A i \in DOMAIN r.data.events : ~(r.data.events[i].offset > r.data.flush - r.data.start)
    BY <1>2, <1>3, <1>4
  <2> QED BY <2>1 DEF FindInvalidEventOffsets
<1>6. r.data.flow.id # "mangled" BY DEF NoFlow
<1>7. FitsSchema(r.data)
  <2>1. \A i \in DOMAIN r.data.events : r.data.events[i].offset \in 0..MaxEventOffset
    BY <1>4, BoundsAssumption
  <2> QED BY <1>2, <1>6, <2>1 DEF FitsSchema
<1> QED BY <1>5, <1>7 DEF Accepted

LEMMA Sound == ASSUME IInv PROVE FlowDataIsSound
<1>1. FlowEventsHaveFlow
  <2>1. ASSUME NEW r \in wire, NEW e \in Range(r.data.events), IsFlowEvent(e.type) PROVE r.data.flow # NoFlow
    <3>1. PICK i \in DOMAIN r.data.events : e = r.data.events[i] BY <2>1 DEF Range
    <3>2. e \in Event BY <3>1, EstimateOK
    <3>3. e.type \in FlowEvents BY <2>1, <3>2, NamesOfFlow DEF Event
    <3> QED BY <3>1, <3>3 DEF IInv, WireOK, ReportOK
  <2> QED BY <2>1 DEF FlowEventsHaveFlow
<1>2. ReportsAreAccepted
  <2>1. ASSUME NEW r \in wire, Accepted(r.data), NEW e \in Range(r.data.events) PROVE e.offset <= MaxEventOffset
    <3>1. PICK i \in DOMAIN r.data.events : e = r.data.events[i] BY DEF Range
    <3>2. e.offset \in 0..MaxEventOffset BY <2>1, <3>1 DEF Accepted, FitsSchema
    <3> QED BY <3>2, BoundsAssumption
  <2>2. ASSUME NEW r \in wire, \A e \in Range(r.data.events) : e.offset <= MaxEventOffset
        PROVE  \A i \in DOMAIN r.data.events : r.data.events[i].offset <= MaxEventOffset
    BY <2>2 DEF Range
  <2> QED BY <2>1, <2>2, AcceptedOK DEF ReportsAreAccepted
<1>3. FlowTimesAreReal BY DEF IInv, ServerOK, LineOK, FlowTimesAreReal
<1>4. FlowEventsAreLogged
  <2>1. ASSUME NEW g \in server.got, IsFlowEvent(g.type) PROVE g.type \in FlowEvents /\ IsLogged(g)
    BY <2>1, NamesOfFlow DEF IInv, ServerOK
  <2> QED BY <2>1 DEF FlowEventsAreLogged, IsLogged
<1> QED BY <1>1, <1>2, <1>3, <1>4 DEF FlowDataIsSound

\* However many reports fail and are sent again: an event is on the page, on its way,
\* with the server or in the storage, or it was given up after a beacon came to nothing,
\* after two failed tries, or after one with nobody there to try again; the server has it
\* twice only if it had the first try and the answer was lost; the timer runs while
\* events wait; and what is collected once is known under one number (metrics.js:276-300).
THEOREM EventsAreNeverForgotten == Spec => []EventsAreKept
<1>1. IInv /\ TriesOK => EventsAreKept BY Typed, Accounted, LoggedOnce DEF EventsAreKept, TriesOK
<1> QED BY <1>1, Invariant, PTL

\* Whatever the page's clock says: of a page whose clock was not set back and whose flow
\* is none or whole the server refuses exactly the reports with an event after the last
\* offset it takes; it puts each event between its time and its arrival, and logs every
\* event it took of a flow that it signed and that is not too old
\* (post-metrics.js:59, :176, flow-event.js:204).
THEOREM LinesAreSound == Spec => []FlowDataIsSound
<1>1. IInv => FlowDataIsSound BY Sound
<1> QED BY <1>1, Invariant, PTL
=============================================================================
