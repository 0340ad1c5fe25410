----------------------------- MODULE EventRing ------------------------------
(***************************************************************************)
(* proxy/metrics.go: the counters and the ring of recent events that every *)
(* request, connection and datagram of a new flow is recorded in, and the  *)
(* admin page that reads them (HandleAdminMetrics of api/metrics.go).      *)
(*                                                                         *)
(* RecordEvent takes two atomic additions and a locked write of the ring,  *)
(* with no lock around the three; a page reads one counter at a time.      *)
(* A counter that does not exist yet is a counter at zero, and the time of *)
(* an event is its place in the list.                                      *)
(***************************************************************************)
EXTENDS Integers, Sequences, FiniteSetsExt

CONSTANTS
    Writer,     \* goroutines that record events
    Route, Outcome,
    Served,     \* OutcomeServed
    Cap,        \* recentEventsCap
    NoEvent,    \* the zero value of a slot
    MaxEvents   \* bound on the calls of RecordEvent

ASSUME RingAssumption ==
    /\ Cap \in Nat \ {0} /\ MaxEvents \in Nat
    /\ Served \in Outcome

\* page.todo holds the keys of both maps.
ASSUME KeysAssumption ==
    /\ IsFiniteSet(Route) /\ IsFiniteSet(Outcome) /\ Route \cap Outcome = {}
    /\ IsFiniteSet(Writer)

Event == [route : Route, outcome : Outcome]

ASSUME NoEventAssumption == NoEvent \notin Event

VARIABLES
    routeCounters, eventCounters,
    eventRing, eventHead, eventCount,
    call,       \* writer -> where it is in RecordEvent, and with which event
    page,       \* the admin page being put together
    calls       \* counter for the bound

ring == <<eventRing, eventHead, eventCount>>
ringVars == <<routeCounters, eventCounters, ring, call, page, calls>>

Idle     == [at |-> "idle", event |-> NoEvent]
NoPage   == [at |-> "none", todo |-> {}, stats |-> [r \in Route |-> 0],
             eventStats |-> [o \in Outcome |-> 0], recent |-> << >>]

\* The types of the state; in particular the head stays within the ring and a
\* call under way has an event.
RingTypeOK ==
    /\ routeCounters \in [Route -> Nat]
    /\ eventCounters \in [Outcome -> Nat]
    /\ eventRing \in [0 .. Cap - 1 -> Event \cup {NoEvent}]
    /\ eventHead \in 0 .. Cap - 1
    /\ eventCount \in 0 .. Cap
    /\ call \in [Writer -> [at : {"idle", "outcome", "route", "ring"},
                            event : Event \cup {NoEvent}]]
    /\ \A w \in Writer : call[w].at = "idle" <=> call[w].event = NoEvent
    /\ page.at \in {"none", "reading", "answered"}
    /\ page.todo \subseteq Route \cup Outcome
    /\ page.stats \in [Route -> Nat] /\ page.eventStats \in [Outcome -> Nat]
    /\ calls \in 0 .. MaxEvents

RingInit ==
    /\ routeCounters = [r \in Route |-> 0]
    /\ eventCounters = [o \in Outcome |-> 0]
    /\ eventRing = [s \in 0 .. Cap - 1 |-> NoEvent]
    /\ eventHead = 0 /\ eventCount = 0
    /\ call = [w \in Writer |-> Idle]
    /\ page = NoPage
    /\ calls = 0

-----------------------------------------------------------------------------
\* RecordEvent(ip, route, outcome) is called.
RecordEvent(w, e) ==
    /\ call[w].at = "idle" /\ calls < MaxEvents
    /\ call' = [call EXCEPT ![w] = [at |-> "outcome", event |-> e]]
    /\ calls' = calls + 1
    /\ UNCHANGED <<routeCounters, eventCounters, ring, page>>

\* Fault: events are counted by route whatever their outcome.
CountOutcome_Fault(w) ==
    /\ call[w].at = "outcome"
    /\ eventCounters' = [eventCounters EXCEPT ![call[w].event.outcome] = @ + 1]
    /\ call' = [call EXCEPT ![w].at = "route"]
    /\ UNCHANGED <<routeCounters, ring, page, calls>>

\* Every event is counted by outcome, and only served ones also by route.
CountOutcome(w) ==
    /\ call[w].at = "outcome"
    /\ LET e == call[w].event
       IN  /\ eventCounters' = [eventCounters EXCEPT ![e.outcome] = @ + 1]
           /\ call' = [call EXCEPT ![w].at = IF e.outcome = Served THEN "route" ELSE "ring"]
    /\ UNCHANGED <<routeCounters, ring, page, calls>>

CountRoute(w) ==
    /\ call[w].at = "route"
    /\ routeCounters' = [routeCounters EXCEPT ![call[w].event.route] = @ + 1]
    /\ call' = [call EXCEPT ![w].at = "ring"]
    /\ UNCHANGED <<eventCounters, ring, page, calls>>

\* Fault: the head wraps around one slot late.
PushRing_Fault(w) ==
    /\ call[w].at = "ring"
    /\ eventRing' = [eventRing EXCEPT ![eventHead] = call[w].event]
    /\ eventHead' = IF eventHead + 1 > Cap THEN 0 ELSE eventHead + 1
    /\ eventCount' = IF eventCount < Cap THEN eventCount + 1 ELSE eventCount
    /\ call' = [call EXCEPT ![w] = Idle]
    /\ UNCHANGED <<routeCounters, eventCounters, page, calls>>

\* The slot at the head is overwritten and the head moves on, under eventsMu.
PushRing(w) ==
    /\ call[w].at = "ring"
    /\ eventRing' = [eventRing EXCEPT ![eventHead] = call[w].event]
    /\ eventHead' = (eventHead + 1) % Cap
    /\ eventCount' = IF eventCount < Cap THEN eventCount + 1 ELSE eventCount
    /\ call' = [call EXCEPT ![w] = Idle]
    /\ UNCHANGED <<routeCounters, eventCounters, page, calls>>

-----------------------------------------------------------------------------
\* Fault: the walk starts at the head, the slot that is written next.
GetRecentEvents_Fault ==
    [k \in 1 .. eventCount |-> eventRing[(eventHead - (k - 1) + Cap) % Cap]]

\* The ring, newest first: eventHead is the next slot to be written.
GetRecentEvents ==
    [k \in 1 .. eventCount |-> eventRing[(eventHead - 1 - (k - 1) + Cap) % Cap]]

\* HandleAdminMetrics begins. It reads route_stats, then event_stats, then the
\* recent events.
HandleAdminMetrics ==
    /\ page.at \in {"none", "answered"}
    /\ page' = [NoPage EXCEPT !.at = "reading", !.todo = Route \cup Outcome]
    /\ UNCHANGED <<routeCounters, eventCounters, ring, call, calls>>

\* GetRouteStats: Range visits the counters in some order, one load each.
GetRouteStats(r) ==
    /\ r \in page.todo
    /\ page' = [page EXCEPT !.stats[r] = routeCounters[r], !.todo = @ \ {r}]
    /\ UNCHANGED <<routeCounters, eventCounters, ring, call, calls>>

\* Fault: the two maps are read side by side.
GetEventStats_Fault(o) ==
    /\ o \in page.todo
    /\ page' = [page EXCEPT !.eventStats[o] = eventCounters[o], !.todo = @ \ {o}]
    /\ UNCHANGED <<routeCounters, eventCounters, ring, call, calls>>

GetEventStats(o) ==
    /\ o \in page.todo /\ page.todo \cap Route = {}
    /\ page' = [page EXCEPT !.eventStats[o] = eventCounters[o], !.todo = @ \ {o}]
    /\ UNCHANGED <<routeCounters, eventCounters, ring, call, calls>>

AnswerMetrics ==
    /\ page.at = "reading" /\ page.todo = {}
    /\ page' = [page EXCEPT !.at = "answered", !.recent = GetRecentEvents]
    /\ UNCHANGED <<routeCounters, eventCounters, ring, call, calls>>

RingNext ==
    \/ \E w \in Writer, e \in Event : RecordEvent(w, e)
    \/ \E w \in Writer : CountOutcome(w) \/ CountRoute(w) \/ PushRing(w)
    \/ HandleAdminMetrics
    \/ \E r \in Route : GetRouteStats(r)
    \/ \E o \in Outcome : GetEventStats(o)
    \/ AnswerMetrics

RingSpec == RingInit /\ [][RingNext]_ringVars

-----------------------------------------------------------------------------
List == INSTANCE RecentEvents WITH recent <- GetRecentEvents

\* What GetRecentEvents would return is at any time the last Cap events
\* recorded, newest first: the array with its two indices implements the
\* list of RecentEvents, wherever the head is and however often it wrapped.
ImplementsRecentEvents == List!Spec

Total(counters) == MapThenSumSet(LAMBDA k : counters[k], DOMAIN counters)
At(places) == {w \in Writer : call[w].at \in places}

\* Nothing is counted twice, lost by concurrent additions or recorded in one
\* place only: the counters, the calls under way and the fill of the ring
\* account for one another.
CountsAgree ==
    /\ eventCounters[Served] =
           Total(routeCounters) + Cardinality(At({"route"}))
    /\ LET pushed == Total(eventCounters) - Cardinality(At({"route", "ring"}))
       IN  /\ pushed + Cardinality(At({"route", "ring", "outcome"})) = calls
           /\ eventCount = IF pushed < Cap THEN pushed ELSE Cap

\* A page never shows more requests per route than it shows as served, though
\* it takes no lock: events are counted by outcome before route, and the page
\* reads routes before outcomes.
PageAddsUp ==
    page.at = "answered" =>
        Total(page.stats) <= page.eventStats[Served]
=============================================================================
