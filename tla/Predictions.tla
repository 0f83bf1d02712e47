----------------------------- MODULE Predictions -----------------------------
(***************************************************************************)
(* Predictions and what becomes of them: the processor propagates a broken *)
(* transfer and tracks the result (cmd/processor/main.go runPropagation,   *)
(* internal/evaluation/evaluator.go TrackPrediction), the sweeper files    *)
(* the outcomes (sweepOnce), later predictions learn from them, and the    *)
(* gRPC handlers ask for delays, predictions and statistics                *)
(* (internal/server/handlers.go).  All read Redis key by key (SCAN, GET in *)
(* internal/state/manager.go) while the delays change under them.          *)
(*                                                                         *)
(* One request is served at a time: they share nothing but Redis.  How     *)
(* pending predictions are stored and matched is PendingStore's subject.   *)
(***************************************************************************)
EXTENDS Cascade

CONSTANTS
  DelayKeys,   \* the delay keys in the order SCAN meets them: trip, stop, and
               \* the route the state was stored with
  Delays,      \* delays an event may store
  Active,      \* activeDelayThreshold
  Clock,       \* time of day at each moment
  ObservedMax, \* outcomes a sweep may find
  MaxTracked,  \* maxTracked
  MaxBaseline, \* maxBaselineRoutes
  Scenarios,   \* initial contents of Redis, requests, and bounds on what happens
  Everything, NoState, NoRequest, NoImpact

Moments == DOMAIN Clock
KeyIds  == DOMAIN DelayKeys
State   == [delay : Delays, at : Moments]

Routes   == {Graph.route[t] : t \in DOMAIN Graph.route}
Stations == {Station(Graph, s) : s \in DOMAIN Graph.parent}

-----------------------------------------------------------------------------
(* The messages that arrive.                                               *)

RouteDelaysRequest   == [kind : {"delays"}, route : Routes \cup {Everything}]
PredictImpactRequest == [kind : {"predict"}, key : KeyIds]
BlastRadiusRequest   == [kind : {"blast"}, station : Stations]
ReliabilityRequest   == [kind : {"reliability"}, station : Stations, hour : 0..(Day \div Hour - 1)]

\* What clients may call; the processor's own calls are the broken transfers.
Request == RouteDelaysRequest \cup PredictImpactRequest \cup BlastRadiusRequest
             \cup ReliabilityRequest

\* What the detector hands over, for a connection on another route; the time of
\* detection is filled in.
BrokenImpact ==
  {i \in [from : Routes \cup {NoRoute}, to : Routes, station : DOMAIN Graph.parent, delay : Int,
          wait : Nat, viable : DOMAIN Graph.dir \cup {NoTrip}, detected : 0..(Day - 1)] :
     i.from # i.to}

Call == Request \cup [kind : {"broken"}, impact : BrokenImpact]

ASSUME PredictionsAssumption ==
  /\ KeyIds = 1..Len(DelayKeys) /\ Len(DelayKeys) \in Nat
  /\ Cardinality(Moments) \in Nat \ {0}
  /\ Clock \in [0..(Cardinality(Moments) - 1) -> 0..(Day - 1)]
  /\ Delays \subseteq Int /\ ObservedMax \subseteq Nat
  /\ Active \in Nat /\ MaxTracked \in Nat \ {0} /\ MaxBaseline \in Nat
  /\ \A s \in Scenarios :
       /\ s.stored \in [KeyIds -> State \cup {NoState}]
       /\ s.budget \in [menu : SUBSET Call, requests : Nat, writes : Nat, faults : Nat]

VARIABLES
  budget,   \* requests that may come, and how many requests, writes and faults
  now, stored, pairs, stops,  \* Redis: delays and the two outcome stores
  stage, request,
  scan,     \* GetAllActiveDelays or GetRouteDelays under way
  routes, jobs,               \* routes left to scan; GetBlastRadius's delays left
  reply,    \* a listing's, or GetTransferReliability's
  impact, computed,           \* Propagate's argument and ComputedAt
  live, evidence,             \* snapshotLiveDelays, GetAverageImpact
  queue, visited, impacts,
  baseline,                   \* baselineDelays: the delays found
  primary, tracked,           \* indices of the impacts
  pending,  \* tracked predictions not yet judged
  log       \* history: the outcomes filed

redisVars == <<stored, pairs, stops>>
foundVars == <<live, evidence, queue, visited, impacts, baseline, primary, tracked>>
walkVars  == <<impact, computed, foundVars>>
askVars   == <<request, routes, jobs, reply>>
predictionVars == <<budget, now, redisVars, stage, askVars, scan, walkVars, pending, log>>

NoEvidence == [sum |-> 0, count |-> 0, read |-> FALSE]
ScanStages == {"listing", "snapshot", "blastScan", "baselineScan"}
NoScan == [want |-> Everything, next |-> 1, ok |-> TRUE, got |-> {}, steady |-> {}, held |-> {}]

PredictionsInit ==
  /\ \E s \in Scenarios :
       budget = s.budget /\ stored = s.stored
  /\ pairs = <<>> /\ stops = <<>>
  /\ now = 0 /\ stage = "idle" /\ request = NoRequest /\ scan = NoScan
  /\ routes = {} /\ jobs = {} /\ reply = {}
  /\ impact = NoImpact /\ computed = 0 /\ live = {} /\ evidence = NoEvidence
  /\ queue = {} /\ visited = {} /\ impacts = <<>> /\ baseline = {}
  /\ primary = 0 /\ tracked = {} /\ pending = {} /\ log = <<>>

-----------------------------------------------------------------------------
(* The world: time, delay events and expiring keys.                        *)

\* Time matters between requests, and while a propagation waits for its slot.
TimePasses ==
  /\ stage \in {"idle", "queued"} /\ now + 1 \in Moments
  /\ now' = now + 1
  /\ UNCHANGED <<budget, redisVars, stage, askVars, scan, walkVars, pending, log>>

Holding(i, value) == [key |-> i, value |-> value]

\* ProcessEvent stores or deletes a state, or its key expires.
DelayChanges ==
  /\ stage \in ScanStages /\ budget.writes > 0
  /\ budget' = [budget EXCEPT !.writes = @ - 1]
  /\ \E i \in KeyIds, value \in {[delay |-> d, at |-> now] : d \in Delays} \cup {NoState} :
       /\ value # stored[i]
       /\ stored' = [stored EXCEPT ![i] = value]
       /\ scan' = [scan EXCEPT !.steady = @ \ {i}, !.held = @ \cup {Holding(i, value)}]
  /\ UNCHANGED <<now, pairs, stops, stage, askVars, walkVars, pending, log>>

-----------------------------------------------------------------------------
(* Reading all delay keys.                                                 *)

StartScan(want) ==
  scan' = [want |-> want, next |-> 1, ok |-> TRUE, got |-> {}, steady |-> KeyIds,
           held |-> {Holding(i, stored[i]) : i \in KeyIds}]

Magnitude(n) == IF n < 0 THEN -n ELSE n

\* Every active delay, or every delay of a route.
Wanted(want, i, value) ==
  /\ value # NoState
  /\ IF want = Everything THEN Magnitude(value.delay) > Active ELSE DelayKeys[i].route = want

Scanning == stage \in ScanStages /\ scan.next <= Len(DelayKeys)
Scanned  == scan.next > Len(DelayKeys)

\* Faulty variant: the loop ends at a key that is gone.
GetUntilMissing ==
  /\ Scanning
  /\ LET i == scan.next IN
     scan' = [scan EXCEPT !.next = IF stored[i] = NoState THEN Len(DelayKeys) + 1 ELSE @ + 1,
                          !.got = @ \cup {h \in {Holding(i, stored[i])} : Wanted(scan.want, i, stored[i])}]
  /\ UNCHANGED <<budget, now, redisVars, stage, askVars, walkVars, pending, log>>

GetNext ==
  /\ Scanning
  /\ LET i == scan.next IN
     scan' = [scan EXCEPT !.next = @ + 1,
                          !.got = @ \cup {h \in {Holding(i, stored[i])} : Wanted(scan.want, i, stored[i])}]
  /\ UNCHANGED <<budget, now, redisVars, stage, askVars, walkVars, pending, log>>

\* A GET that fails skips its key; a SCAN that fails ends the call with an error.
ReadFails ==
  /\ Scanning /\ budget.faults > 0
  /\ budget' = [budget EXCEPT !.faults = @ - 1]
  /\ scan' \in {[scan EXCEPT !.next = @ + 1, !.steady = @ \ {scan.next}],
                [scan EXCEPT !.next = Len(DelayKeys) + 1, !.ok = FALSE]}
  /\ UNCHANGED <<now, redisVars, stage, askVars, walkVars, pending, log>>

-----------------------------------------------------------------------------
(* Requests.                                                               *)

\* GetDelay for PredictImpact; the train carries its delay down its own line.
SelfImpact(i) ==
  LET k == DelayKeys[i]
      route == IF k.trip \in DOMAIN Graph.route THEN Graph.route[k.trip] ELSE NoRoute
  IN [from |-> route, to |-> route, station |-> Station(Graph, k.stop),
      delay |-> stored[i].delay, wait |-> 0, viable |-> k.trip,
      detected |-> Clock[stored[i].at]]

\* GetBlastRadius asks under the route it scanned for.
BlastImpact(h, station) ==
  LET k == DelayKeys[h.key] IN
  [from |-> k.route, to |-> k.route, station |-> station, delay |-> h.value.delay,
   wait |-> 0, viable |-> k.trip, detected |-> Clock[h.value.at]]

\* A client's call, or an impact the detector hands over.
Asked(kind) ==
  /\ stage = "idle" /\ budget.requests > 0
  /\ budget' = [budget EXCEPT !.requests = @ - 1]
  /\ request' \in {r \in budget.menu : r.kind = kind}
  /\ reply' = {}
  /\ UNCHANGED <<now, redisVars, jobs, foundVars, pending, log>>

\* GetNetworkState and GetRouteDelays
AskDelays ==
  /\ Asked("delays") /\ stage' = "listing"
  /\ StartScan(request'.route)
  /\ UNCHANGED <<routes, impact, computed>>

\* PredictImpact: nothing is stored for the trip, or its delay is propagated.
AskPrediction ==
  /\ Asked("predict")
  /\ \/ /\ stored[request'.key] = NoState
        /\ stage' = "idle" /\ UNCHANGED <<scan, impact, computed>>
     \/ /\ stored[request'.key] # NoState
        /\ stage' = "snapshot" /\ StartScan(Everything)
        /\ impact' = SelfImpact(request'.key) /\ computed' = now
  /\ UNCHANGED routes

AskBlastRadius ==
  /\ Asked("blast") /\ stage' = "blasting"
  /\ routes' = GetRoutesAtStop(Graph, request'.station)
  /\ UNCHANGED <<scan, impact, computed>>

AskReliability ==
  /\ Asked("reliability") /\ stage' = "counting"
  /\ UNCHANGED <<routes, scan, impact, computed>>

TransferBroken ==
  /\ Asked("broken") /\ stage' = "queued"
  /\ impact' = [request'.impact EXCEPT !.detected = Clock[now]]
  /\ UNCHANGED <<routes, scan, computed>>

\* GetTransferReliability
Count ==
  /\ stage = "counting" /\ stage' = "idle"
  /\ reply' = TransferStats(pairs, Station(Graph, request.station), request.hour, now)
  /\ UNCHANGED <<budget, now, redisVars, request, routes, jobs, scan, walkVars, pending, log>>

\* GetNetworkState and GetRouteDelays reply, or fail.
EndListing ==
  /\ stage = "listing" /\ Scanned
  /\ stage' = "idle"
  /\ reply' = {[route |-> DelayKeys[h.key].route, stop |-> DelayKeys[h.key].stop,
                delay |-> h.value.delay] : h \in {g \in scan.got : scan.ok}}
  /\ UNCHANGED <<budget, now, redisVars, request, routes, jobs, scan, walkVars, pending, log>>

BlastRoute ==
  /\ stage = "blasting" /\ jobs = {}
  /\ \E r \in routes : routes' = routes \ {r} /\ StartScan(r)
  /\ stage' = "blastScan"
  /\ UNCHANGED <<budget, now, redisVars, request, jobs, reply, walkVars, pending, log>>

\* A route whose scan fails is skipped.
EndBlastScan ==
  /\ stage = "blastScan" /\ Scanned
  /\ stage' = "blasting"
  /\ jobs' = {h \in scan.got : /\ scan.ok
                               /\ Station(Graph, DelayKeys[h.key].stop) = Station(Graph, request.station)}
  /\ UNCHANGED <<budget, now, redisVars, request, routes, reply, scan, walkVars, pending, log>>

BlastDelay ==
  /\ stage = "blasting"
  /\ \E h \in jobs : /\ jobs' = jobs \ {h}
                     /\ impact' = BlastImpact(h, Station(Graph, request.station))
  /\ stage' = "snapshot" /\ computed' = now /\ StartScan(Everything)
  /\ UNCHANGED <<budget, now, redisVars, request, routes, reply, foundVars, pending, log>>

EndBlast ==
  /\ stage = "blasting" /\ jobs = {} /\ routes = {}
  /\ stage' = "idle"
  /\ UNCHANGED <<budget, now, redisVars, askVars, scan, walkVars, pending, log>>
-----------------------------------------------------------------------------
(* Propagate.                                                              *)

\* The processor has a slot for the impact.
TakeSlot ==
  /\ stage = "queued" /\ stage' = "snapshot"
  /\ computed' = now /\ StartScan(Everything)
  /\ UNCHANGED <<budget, now, redisVars, askVars, impact, foundVars, pending, log>>

HourOf(tod) == (tod \div Hour) % (Day \div Hour)

\* Only lateness counts; a failed scan leaves no live delays.
Snapshot ==
  {[route |-> DelayKeys[h.key].route, stop |-> DelayKeys[h.key].stop, delay |-> h.value.delay]
     : h \in {g \in scan.got : scan.ok /\ g.value.delay > 0}}

\* GetAverageImpact, whose failure counts as no outcomes.
Gathered ==
  LET found == GetAverageImpact(pairs, impact.from, impact.to, Station(Graph, impact.station),
                                HourOf(impact.detected), now)
  IN {[sum |-> found.sum, count |-> found.count, read |-> TRUE]}
       \cup {e \in {NoEvidence} : budget.faults > 0}

\* estimateInitialDelay: the learnt estimate of the delay at the first stop.
StartDelay(imp, known, ev) ==
  LET connDelay == LiveDelay(known, imp.to, Station(Graph, imp.station))
  IN Blended(ev, ScheduleEstimate(imp, ImpactDirection(imp), connDelay, imp.detected))

\* The receiving route's stops are queued.
Start ==
  /\ stage = "snapshot" /\ Scanned
  /\ stage' = "walking"
  /\ live' = Snapshot
  /\ evidence' \in Gathered
  /\ budget' = IF evidence'.read THEN budget ELSE [budget EXCEPT !.faults = @ - 1]
  /\ queue' = Seed(stops, now, HourOf(impact.detected), impact.to, impact.station,
                   ImpactDirection(impact), StartDelay(impact, live', evidence'), 0, 1, "dwell")
  /\ scan' = NoScan
  /\ UNCHANGED <<now, redisVars, askVars, impact, computed, visited, impacts, baseline,
                 primary, tracked, pending, log>>

\* Faulty variant: the queue is no heap.
TopsUnordered == queue

\* The heap's top: ties come in any order.
Tops == {item \in queue : \A other \in queue : other.delay <= item.delay}

Pop(item) ==
  /\ stage = "walking" /\ Len(impacts) < Cfg.maxImpacts
  /\ item \in Tops
  /\ visited' = visited \cup {<<item.route, item.stop>>}
  /\ IF <<item.route, item.stop>> \in visited
     THEN queue' = queue \ {item} /\ UNCHANGED impacts
     ELSE /\ impacts' = Append(impacts, item)
          /\ queue' = (queue \ {item}) \cup
               IF Expands(item)
               THEN Cascaded(item, visited', live)
                      \cup Rippled(item, stops, now, HourOf(impact.detected), impact.detected)
               ELSE {}
  /\ UNCHANGED <<budget, now, redisVars, stage, askVars, scan, impact, computed, live, evidence,
                 baseline, primary, tracked, pending, log>>

Finish ==
  /\ stage = "walking"
  /\ queue = {} \/ Len(impacts) >= Cfg.maxImpacts
  /\ stage' = "walked"
  /\ UNCHANGED <<budget, now, redisVars, askVars, scan, walkVars, pending, log>>

-----------------------------------------------------------------------------
(* TrackPrediction.                                                        *)

FirstOn(r) == Min({i \in DOMAIN impacts : impacts[i].route = r})

\* The routes of the result in order, up to the cap.
BaselineRoutes ==
  LET all == {impacts[i].route : i \in DOMAIN impacts}
  IN {r \in all : Cardinality({q \in all : FirstOn(q) < FirstOn(r)}) < MaxBaseline}

BeginTracking ==
  /\ stage = "walked" /\ request.kind = "broken" /\ impacts # <<>>
  /\ stage' = "baselines"
  /\ routes' = BaselineRoutes
  /\ UNCHANGED <<budget, now, redisVars, request, jobs, reply, scan, walkVars, pending, log>>

BaselineRoute ==
  /\ stage = "baselines"
  /\ \E r \in routes :
       /\ \A other \in routes : FirstOn(r) <= FirstOn(other)
       /\ routes' = routes \ {r} /\ StartScan(r)
  /\ stage' = "baselineScan"
  /\ UNCHANGED <<budget, now, redisVars, request, jobs, reply, walkVars, pending, log>>

\* A route whose scan fails has no baseline.
EndBaselineScan ==
  /\ stage = "baselineScan" /\ Scanned
  /\ stage' = "baselines"
  /\ baseline' = baseline \cup
       {[route |-> scan.want, stop |-> DelayKeys[h.key].stop, delay |-> h.value.delay] :
          h \in {g \in scan.got : scan.ok}}
  /\ scan' = NoScan
  /\ UNCHANGED <<budget, now, redisVars, askVars, impact, computed, live, evidence, queue, visited,
                 impacts, primary, tracked, pending, log>>

OnReceivingRoute ==
  {i \in DOMAIN impacts : impacts[i].hops = 1 /\ impacts[i].route = impact.to}

\* Faulty variant: the primary is the first impact of the result.
PrimaryFirst == IF OnReceivingRoute = {} THEN 0 ELSE Min(OnReceivingRoute)

\* The first of the smallest delays.
Primary ==
  IF OnReceivingRoute = {} THEN 0
  ELSE Min({i \in OnReceivingRoute :
              \A j \in OnReceivingRoute : impacts[i].delay <= impacts[j].delay})

\* The primary, then the others in order, up to the cap.
Tracked(p) ==
  LET others == {i \in DOMAIN impacts : impacts[i].decay <= TrackDecay} \ {p}
      room   == IF p = 0 THEN MaxTracked ELSE MaxTracked - 1
  IN  {i \in others : Cardinality({j \in others : j < i}) < room}
        \cup (IF p = 0 THEN {} ELSE {p})

\* The pending prediction of an impact; its id is unique.
Prediction(i, p) ==
  [id |-> budget.requests, primary |-> i = p, from |-> impact.from,
   route |-> impacts[i].route, station |-> impacts[i].stop,
   baseline |-> LiveDelay(baseline, impacts[i].route, impacts[i].stop),
   source |-> Station(Graph, impact.station), hour |-> HourOf(Clock[computed]),
   detected |-> HourOf(impact.detected)]

\* Adds that fail are PendingStore's concern.
Track ==
  /\ stage = "baselines" /\ routes = {}
  /\ stage' = "tracked"
  /\ primary' = Primary
  /\ tracked' = Tracked(primary')
  /\ pending' = pending \cup {Prediction(i, primary') : i \in tracked'}
  /\ UNCHANGED <<budget, now, redisVars, askVars, scan, impact, computed, live, evidence, queue,
                 visited, impacts, baseline, log>>

\* The caller drops the result: PredictImpact returns it, GetBlastRadius goes on to
\* the next delay, the processor has tracked it or found it empty.
Return ==
  /\ \/ stage = "walked" /\ (request.kind # "broken" \/ impacts = <<>>)
     \/ stage = "tracked"
  /\ stage' = IF request.kind = "blast" THEN "blasting" ELSE "idle"
  /\ impact' = NoImpact /\ computed' = 0 /\ live' = {} /\ evidence' = NoEvidence
  /\ queue' = {} /\ visited' = {} /\ impacts' = <<>> /\ baseline' = {}
  /\ primary' = 0 /\ tracked' = {}
  /\ UNCHANGED <<budget, now, redisVars, askVars, scan, pending, log>>
-----------------------------------------------------------------------------
(* sweepOnce.                                                              *)

\* The nanoseconds of a recording: the sweeper files one outcome after the other.
Filing == Len(log) + 1

\* Faulty variant: the key is the stop the prediction is about.
FiledPairImpacted(p, outcome) ==
  RecordObservation(pairs, p.from, p.route, p.station, p.hour, now, Filing, outcome)

FiledPair(p, outcome) ==
  RecordObservation(pairs, p.from, p.route, p.source, p.hour, now, Filing, outcome)

\* Faulty variant: a primary's outcome teaches its stop as well.
FiledStopAlways(p) == TRUE

FiledStop(p) == ~p.primary

\* One prediction judged: primaries teach their pair, the others their stops.
Judge ==
  /\ \E p \in pending, outcome \in ObservedMax :
       /\ pending' = pending \ {p}
       /\ pairs' = IF p.primary THEN FiledPair(p, outcome) ELSE pairs
       /\ stops' = IF FiledStop(p)
                   THEN RecordStopOutcome(stops, p.route, p.station, p.hour, now, Filing, outcome)
                   ELSE stops
       /\ log' = Append(log, [prediction |-> p, at |-> now, value |-> outcome])
  /\ stage = "idle"
  /\ UNCHANGED <<budget, now, stored, stage, askVars, scan, walkVars>>

\* The store cannot be reached: the outcome is logged and lost.
JudgeUnrecorded ==
  /\ stage = "idle" /\ budget.faults > 0
  /\ budget' = [budget EXCEPT !.faults = @ - 1]
  /\ \E p \in pending : pending' = pending \ {p}
  /\ UNCHANGED <<now, redisVars, stage, askVars, scan, walkVars, log>>

PredictionsNext ==
  \/ TimePasses \/ DelayChanges \/ GetNext \/ ReadFails
  \/ AskDelays \/ AskPrediction \/ AskBlastRadius \/ AskReliability \/ TransferBroken
  \/ EndListing \/ Count \/ BlastRoute \/ EndBlastScan \/ BlastDelay \/ EndBlast
  \/ TakeSlot \/ Start \/ (\E item \in queue : Pop(item)) \/ Finish \/ Return
  \/ BeginTracking \/ BaselineRoute \/ EndBaselineScan \/ Track \/ Judge \/ JudgeUnrecorded

PredictionsSpec == PredictionsInit /\ [][PredictionsNext]_predictionVars

-----------------------------------------------------------------------------
(* The messages.                                                           *)

StopDelay     == [route : {DelayKeys[i].route : i \in KeyIds},
                  stop : {DelayKeys[i].stop : i \in KeyIds}, delay : Delays]
ReliabilityOf == {r \in [from : Routes \cup {NoRoute}, to : Routes,
                         evidence : [sum : Int, count : Nat \ {0}]] : r.from # r.to}

\* DownstreamImpact
Item == [route : Routes, stop : Stations, delay : Int, decay : 0..MaxDecay,
         hops : 1..Cfg.maxDepth, kind : {"dwell", "transfer", "cascadeDwell"}]

PropagationResult == [delay : Int, impacts : Seq(Item), computed : Moments]

PredictionsTypeOK ==
  /\ now \in Moments /\ stored \in [KeyIds -> State \cup {NoState}]
  /\ stage \in ScanStages \cup {"idle", "queued", "counting", "blasting", "walking", "walked",
                                "baselines", "tracked"}
  /\ scan.next \in 1..(Len(DelayKeys) + 1) /\ scan.steady \subseteq KeyIds
  /\ request # NoRequest /\ request.kind # "broken" => request \in Request
  /\ reply \subseteq StopDelay \/ reply \subseteq ReliabilityOf
  /\ queue \subseteq Item
  /\ impact # NoImpact =>
       [delay |-> impact.delay, impacts |-> impacts, computed |-> computed] \in PropagationResult
  /\ Len(impacts) <= Cfg.maxImpacts
  /\ primary \in 0..Len(impacts)
  /\ tracked \subseteq DOMAIN impacts /\ Cardinality(tracked) <= MaxTracked

(* What the readers promise.                                               *)

\* A scan that succeeds "returns every delay above the active threshold"
\* (manager.go:204), or every delay of a route, that is there all the time and
\* whose GET succeeds, whatever is written and fails around it; and what it
\* returns was stored at some time during the call.
ScanFaithful ==
  stage \in ScanStages /\ Scanned /\ scan.ok =>
    /\ scan.got \subseteq scan.held
    /\ \A i \in scan.steady :
         Wanted(scan.want, i, stored[i]) <=> Holding(i, stored[i]) \in scan.got

(* What the engine promises.                                               *)

\* Item b follows from a: the transfer a's delay breaks on the way, with the
\* receiving route's lateness added to the margin, or the ripple after it.
Triggers(known, a, b) ==
  /\ b.kind = "transfer" /\ b.route # a.route /\ b.hops = a.hops + 1
  /\ b.decay = a.decay + 1 /\ b.delay <= a.delay
  /\ \E x \in GetTransfersFrom(Graph, a.stop) :
       x.to = b.stop /\ a.delay - LiveDelay(known, b.route, b.stop) >= MinTime(x)
Ripples(a, b) ==
  /\ a.kind = "transfer" /\ b.kind = "cascadeDwell"
  /\ b.route = a.route /\ b.hops = a.hops /\ b.decay >= a.decay

\* Every impact of the result is on the receiving route or has its cause earlier
\* in the result, one hop less far or upstream on the same route, and is no more
\* certain than its cause.
CausedByEarlier ==
  \A i \in DOMAIN impacts :
    \/ impacts[i].kind = "dwell" /\ impacts[i].route = impact.to /\ impacts[i].hops = 1
    \/ \E j \in 1..(i - 1) :
         Triggers(live, impacts[j], impacts[i]) \/ Ripples(impacts[j], impacts[i])

Place(item) == <<item.route, item.stop>>

\* What the broken transfer (0) or the j-th impact delays further on.
Effects(j) ==
  LET hour == HourOf(impact.detected) IN
  IF j = 0
  THEN Seed(stops, now, hour, impact.to, impact.station, ImpactDirection(impact),
            StartDelay(impact, live, evidence), 0, 1, "dwell")
  ELSE IF ~Expands(impacts[j]) THEN {}
  ELSE Cascaded(impacts[j], {Place(impacts[i]) : i \in 1..j}, live)
         \cup Rippled(impacts[j], stops, now, hour, impact.detected)

\* "highest impact first" (engine.go:113), through cycles of transfers: a result has
\* each route's station once, with the largest of the delays that reached it before
\* it was taken off the heap, and nothing that an impact delays further on is left
\* out of it but for the cap.
LargestCauseKept ==
  stage = "walked" =>
    /\ \A i, j \in DOMAIN impacts : i # j => Place(impacts[i]) # Place(impacts[j])
    /\ \A j \in 0..Len(impacts) : \A item \in Effects(j) :
         \/ item \in queue /\ Len(impacts) = Cfg.maxImpacts
         \/ \E m \in DOMAIN impacts :
              Place(impacts[m]) = Place(item) /\ (m <= j \/ item.delay <= impacts[m].delay)

\* The outcomes of primaries filed for the impact's pair under its hour.
LoggedFor(imp) ==
  {i \in DOMAIN log :
     LET p == log[i].prediction IN
     /\ p.primary /\ p.from = imp.from /\ p.route = imp.to
     /\ p.source = Station(Graph, imp.station) /\ p.hour = HourOf(imp.detected)}

\* "History is keyed by the parent transfer station, matching what the evaluation
\* sweeper records" (engine.go:99-100): a prediction's estimate rests on all the
\* outcomes of its pair in its hour of the last thirty days and on no other.
EvidenceIsOutcomes ==
  stage = "walking" /\ evidence.read =>
    LET mine(oldest) == {i \in LoggedFor(impact) : log[i].at >= oldest}
    IN /\ Cardinality(mine(now - Retention + 1)) <= evidence.count
       /\ evidence.count <= Cardinality(mine(now - Retention))

FirstStop == GetDownstreamStops(Graph, impact.to, impact.station, ImpactDirection(impact))

\* The learnt estimate lies between the schedule's and the outcomes it rests on,
\* and is the schedule's alone when there are none; a train that carries its own
\* delay keeps it.
EstimateWithinEvidence ==
  stage = "walking" /\ impacts = <<>> /\ queue # {} =>
    LET dir  == ImpactDirection(impact)
        conn == LiveDelay(live, impact.to, Station(Graph, impact.station))
        plan == Rounded(ScheduleEstimate(impact, dir, conn, impact.detected), 1000)
        seen == {plan} \cup {log[i].value : i \in {j \in LoggedFor(impact) : evidence.count > 0}}
        first == Station(Graph, FirstStop[1].stop)
    IN \E item \in queue :
         /\ item.stop = first /\ item.decay = 0
         /\ Min(seen) <= item.delay /\ item.delay <= Max(seen)
         /\ impact.from = impact.to => item.delay = impact.delay

Young(from, moment) == from > moment - Retention

Filed(n) == Member(log[n].at, n, log[n].value)

\* "recording them in both would let the engine double-count the same signal"
\* (evaluator.go:380-382): each outcome filed in the last thirty days is in one of
\* the stores under one key, equal ones too, and nothing else is stored.
FiledOnce ==
  /\ \A n \in DOMAIN log : Young(log[n].at, now) =>
       Cardinality({k \in DOMAIN pairs : Filed(n) \in pairs[k]})
         + Cardinality({k \in DOMAIN stops : Filed(n) \in stops[k]}) = 1
  /\ \A store \in {pairs, stops} : \A k \in DOMAIN store :
       store[k] \subseteq {Filed(n) : n \in DOMAIN log}

NothingLearnt == \A k \in DOMAIN stops : Evidence(stops, k, now).count < Cfg.perStopMin

PrimaryIsFirstStop == impacts[primary].stop = Station(Graph, FirstStop[1].stop)

\* What makes the first stop's delay the smallest on the receiving route: a dwell
\* that does not round to nothing, a cap that leaves room for the route's own stops,
DwellGrows == ExtraDwell > 0
SeedFits   == MaxDecay <= Cfg.maxImpacts

\* a schedule whose trips do not come back to a station while the delay counts,
NoLoops ==
  \A t \in DOMAIN Graph.byTrip :
    LET rows == Graph.byTrip[t] IN
    \A i, j \in DOMAIN rows : i < j /\ j < i + MaxDecay =>
      Station(Graph, rows[i].stop) # Station(Graph, rows[j].stop)

\* and transfers on which even the smallest delay that passes one loses more than
\* the dwell of the stops before it has added.
CascadesFade ==
  \A n \in 0..MaxDecay : n = 0 \/ n + 2 <= MaxDecay =>
    n * ExtraDwell * Cfg.elasticity < Cfg.minDelay * (10 - Cfg.elasticity)

FirstStopLeast == DwellGrows /\ SeedFits /\ NoLoops /\ CascadesFade

\* The primary is "the engine's initial-delay estimate, before dwell accumulation"
\* (evaluator.go:93-95), the receiving route's first stop, as long as no stop has
\* taught the engine smaller delays.
PrimaryIsInitial ==
  stage = "tracked" /\ primary # 0 /\ NothingLearnt => PrimaryIsFirstStop

\* The same without the condition,
PrimaryIsInitialLearnt == stage = "tracked" /\ primary # 0 => PrimaryIsFirstStop

\* "impacts arrive in descending-delay order" (evaluator.go:126),
ImpactsDescend ==
  \A i, j \in DOMAIN impacts : i < j => impacts[j].delay <= impacts[i].delay

\* "History buckets by agency-local hour, matching the engine's read side"
\* (evaluator.go:98): a prediction is filed under the hour it looked up,
HourMatches == \A p \in pending : p.hour = p.detected

\* "NextViableTripId lets the engine derive the direction" (handlers.go:199-200)
\* for the ids the feed knows trains by,
FollowsItsTrain ==
  stage \in {"snapshot", "walking"} /\ request.kind = "predict" =>
    LET trip == ResolveTripID(Graph, DelayKeys[request.key].trip) IN
    trip # NoTrip => impact.to = Graph.route[trip] /\ ImpactDirection(impact) = Graph.dir[trip]

\* and a cascade adds delay.
ImpactsAddDelay == \A i \in DOMAIN impacts : impacts[i].delay > 0
=============================================================================
