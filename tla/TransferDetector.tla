--------------------------- MODULE TransferDetector ---------------------------
(***************************************************************************)
(* A delay event from the detection of the transfers it breaks             *)
(* (internal/transfer/detector.go, EvaluateDelay) to the outcome recorded  *)
(* for a broken one (internal/evaluation/evaluator.go, realizedWait), over *)
(* the graph built from a feed (StaticGraph).                              *)
(*                                                                         *)
(* Times are seconds since midnight of the service day; a trip after       *)
(* midnight may be scheduled at Day or later.  Between the detection and   *)
(* the outcome the stored delays of the connecting trains may change.      *)
(***************************************************************************)
EXTENDS StaticGraph

CONSTANTS
  Feeds,         \* the static feeds
  Date,          \* the date the graph is built for
  DefaultMin,    \* the minimum transfer time when the feed gives none (120)
  AtRiskBuffer,  \* atRiskBuffer
  Window,        \* predictionWindowSecs
  Lookahead,     \* candidates realizedWait asks the timetable for (10)
  Arrivals,      \* delay events of the arriving train
  TrainDelays,   \* delays Redis may hold for a connecting train
  RtIds,         \* ids the realtime feed knows connecting trains by
  NoTime, NoState, NoRoute, NoDirection

\* A feed whose files parse: rows in their shape, numbered, with trips that have an
\* id and times that are times of a service day or are malformed.
Readable(f) ==
  /\ DOMAIN f.trips \subseteq DOMAIN RtTail /\ IsFiniteSet(f.stopTimes)
  /\ \A r \in f.stopTimes : /\ r = StopTime(r.trip, r.stop, r.arr, r.dep, r.seq)
                            /\ {r.arr, r.dep} \subseteq Nat \cup {Malformed}
                            /\ r.seq \in Nat
  /\ \A x \in f.transfers : x.min \in Int
  /\ Len(f.exceptions) \in Nat /\ DOMAIN f.exceptions = 1..Len(f.exceptions)

ASSUME TransferAssumption ==
  /\ \A f \in Feeds : Readable(f)
  /\ Date \in Nat
  /\ DefaultMin \in Nat \ {0} /\ AtRiskBuffer \in Nat
  /\ Window \in Nat /\ Lookahead \in Nat \ {0}
  /\ NoTime \notin 0..(Day - 1) /\ NoState \notin Int
  /\ \A a \in Arrivals : /\ a.scheduled \in 0..(Day - 1) \cup {NoTime}
                         /\ a.observed \in 0..(Day - 1) /\ a.delay \in Int
  /\ TrainDelays \subseteq Int

Levels == {"atRisk", "broken"}

VARIABLES
  feed,      \* the GTFS files
  graph,     \* the graph, once built
  stage,     \* "down", "ready", "evaluated", "finalized"
  arrival,   \* the delay event
  delays,    \* stored delay of each connecting train, by its realtime id, or NoState
  impacts,   \* what EvaluateDelay returned
  impact,    \* the broken one whose prediction is finalized
  boarded,   \* the train realizedWait found for it, or NoTrip
  moved      \* history: a stored delay changed after the detection

transferVars == <<feed, graph, stage, arrival, delays, impacts, impact, boarded, moved>>

NoArrival == [route |-> NoRoute, stop |-> NoStop, scheduled |-> NoTime, observed |-> 0,
              delay |-> 0]
NoImpact  == [to |-> NoStop, route |-> NoRoute]

TransferInit ==
  /\ feed \in Feeds
  /\ graph = <<>> /\ stage = "down"
  /\ arrival = NoArrival /\ delays = [id \in RtIds |-> NoState]
  /\ impacts = {} /\ impact = NoImpact /\ boarded = NoTrip /\ moved = FALSE

\* main builds the graph once, for the date of the start.
Load ==
  /\ stage = "down"
  /\ stage' = "ready"
  /\ \E byStop \in StopOrders(feed, Date) : graph' = BuildGraph(feed, Date, byStop)
  /\ UNCHANGED <<feed, arrival, delays, impacts, impact, boarded, moved>>

-----------------------------------------------------------------------------
(* EvaluateDelay.                                                          *)

\* The scheduled arrival, or the time of the observation; midnight reads as
\* unset.
ArrivalTod(ev) == IF ev.scheduled \in {NoTime, 0} THEN ev.observed ELSE ev.scheduled

\* tripDelayAt: looked up under the static trip id; none stored counts as none.
DelayAt(g, known, trip, station) ==
  IF /\ GetScheduledStopTime(g, trip, station) # {}
     /\ trip \in RtIds /\ known[trip] # NoState
  THEN known[trip] ELSE 0

\* A transfer without a minimum time gets the default.
MinTime(x) == IF x.min <= 0 THEN DefaultMin ELSE x.min

\* Faulty variant: the connecting train's delay narrows the margin.
RemainingNarrowed(g, known, conn, tod, ev, station) ==
  conn.dep - tod - ev.delay - DelayAt(g, known, conn.trip, station)

Remaining(g, known, conn, tod, ev, station) ==
  conn.dep - tod - ev.delay + DelayAt(g, known, conn.trip, station)

LevelOf(remaining, min) == IF remaining < min THEN "broken" ELSE "atRisk"

EarliestCatch(tod, ev, min) == tod + ev.delay + min

\* What a transfer to a route yields: the first departure a passenger on time
\* could make is judged, and for a broken one the next viable departure found.
Judged(g, known, ev, x, route) ==
  LET rows  == StopTimesAt(g, x.to)
      min   == MinTime(x)
      tod   == EffectiveTod(g, x.to, route, ArrivalTod(ev))
      deps  == GetNextDepartures(g, x.to, route, tod + min, 3)
      conn  == rows[Min(deps)]
      left  == Remaining(g, known, conn, tod, ev, x.to)
      level == LevelOf(left, min)
      catch == EarliestCatch(tod, ev, min)
      later == IF level = "broken" THEN GetNextDepartures(g, x.to, route, catch, 1) ELSE {}
      next  == rows[Min(later)]
  IN IF deps = {} \/ left >= min + AtRiskBuffer THEN {}
     ELSE {[to |-> x.to, route |-> route, min |-> min, frame |-> tod, level |-> level,
            conn |-> conn.trip, connDep |-> conn.dep, catch |-> catch,
            viable |-> IF later = {} THEN NoTrip ELSE next.trip,
            wait |-> IF later = {} THEN 0 ELSE Max({0, next.dep - conn.dep})]}

Impacts(g, known, ev) ==
  IF ev.delay <= 0 THEN {}
  ELSE UNION {UNION {Judged(g, known, ev, x, route) :
                       route \in GetRoutesAtStop(g, x.to) \ {ev.route}} :
                x \in GetTransfersFrom(g, ev.stop)}

\* Publishing failures are logged and change nothing here.
EvaluateDelay ==
  /\ stage = "ready"
  /\ stage' = "evaluated"
  /\ arrival' \in Arrivals
  /\ delays' \in [RtIds -> TrainDelays \cup {NoState}]
  /\ impacts' = Impacts(graph, delays', arrival')
  /\ UNCHANGED <<feed, graph, impact, boarded, moved>>

-----------------------------------------------------------------------------
(* The outcome.                                                            *)

Broken == {i \in impacts : i.level = "broken"}

\* TrackPrediction derives the direction from the next viable trip.
Direction(g, imp) == IF imp.viable = NoTrip THEN NoDirection ELSE g.dir[imp.viable]

Realized(g, known, r, station) == r.dep + DelayAt(g, known, r.trip, station)

\* The first candidate in the timetable's order, whatever the delays, that the
\* passenger could board.
RealizedTrain(g, known, imp) ==
  LET rows == StopTimesAt(g, imp.to)
      boardable ==
        {k \in GetNextDepartures(g, imp.to, imp.route, imp.connDep, Lookahead) :
           /\ rows[k].dep <= imp.catch + Window
           /\ Direction(g, imp) \in {NoDirection, g.dir[rows[k].trip]}
           /\ Realized(g, known, rows[k], imp.to) >= imp.catch}
  IN IF boardable = {} THEN NoTrip ELSE rows[Min(boardable)].trip

\* sweepOnce, for the primary prediction of a broken transfer.
Finalize ==
  /\ stage = "evaluated"
  /\ stage' = "finalized"
  /\ UNCHANGED <<feed, graph, arrival, delays, impacts, moved>>
  /\ impact' \in Broken
  /\ boarded' = RealizedTrain(graph, delays, impact')

\* A connecting train's delay is observed, or its key expires.
TrainObserved ==
  /\ stage = "evaluated" /\ Broken # {} /\ ~moved
  /\ \E id \in RtIds, d \in TrainDelays \cup {NoState} :
       d # delays[id] /\ delays' = [delays EXCEPT ![id] = d]
  /\ moved' = TRUE
  /\ UNCHANGED <<feed, graph, stage, arrival, impacts, impact, boarded>>

TransferNext == Load \/ EvaluateDelay \/ TrainObserved \/ Finalize
TransferSpec == TransferInit /\ [][TransferNext]_transferVars

-----------------------------------------------------------------------------
\* What a TransferImpact tells of the connection; the source is the arrival.
TransferImpact ==
  [to : DOMAIN graph.byStop, route : Range(graph.route), min : Nat \ {0},
   frame : 0..(Day + Overnight - 1), level : Levels, conn : DOMAIN graph.byTrip, connDep : Nat,
   catch : Int, wait : Nat, viable : DOMAIN graph.byTrip \cup {NoTrip}]

TransferTypeOK ==
  /\ feed \in Feeds /\ arrival \in Arrivals \cup {NoArrival}
  /\ stage # "down" => WellFormed(graph)
  /\ delays \in [RtIds -> TrainDelays \cup {NoState}]
  /\ stage \in {"down", "ready", "evaluated", "finalized"}
  /\ impacts # {} => impacts \subseteq TransferImpact
  /\ impact \in impacts \cup {NoImpact} /\ moved \in BOOLEAN
  /\ stage = "finalized" => impact.level = "broken"

(* What the schedule and the detector promise.                             *)

\* Once the graph is built, realtime ids resolve as StaticGraph says,
TripsResolve == stage = "ready" => TailsResolve(graph, feed, Date)

\* and a headway is the median of the feed's gaps.
HeadwayIsMedian == stage = "ready" => HeadwaysAreMedians(graph, feed, Date)

\* The feed's rows behind a transfer: stations that may be reached, how fast,
\* and the routes that run there.
ListedTransfers ==
  {[to |-> Parent(feed.parent, x.to), min |-> IF x.min > 0 THEN x.min ELSE DefaultMin] :
     x \in {y \in feed.transfers :
              /\ y.type # 3
              /\ Parent(feed.parent, y.from) = Parent(feed.parent, arrival.stop)}}

ListedRoutes(station) ==
  {r \in {feed.trips[t].route : t \in DOMAIN feed.trips} :
     ListedDepartures(feed, Date, station, r) # {}} \ {arrival.route}

\* The frames a time of day may belong to.
Frames(tod) == {tod} \cup {f \in {tod + Day} : tod < Overnight}

\* The departures a passenger on time catches in a frame, and the first of them.
Catchable(station, route, min, f) ==
  {l \in ListedDepartures(feed, Date, station, route) : l.dep >= f + min}
Firsts(station, route, min, f) ==
  {l \in Catchable(station, route, min, f) :
     \A m \in Catchable(station, route, min, f) : l.dep <= m.dep}

\* The time left for the change: the connection's delay is the one stored for it.
Stored(trip) == IF trip \in RtIds /\ delays[trip] # NoState THEN delays[trip] ELSE 0
TimeLeft(f, l) == l.dep + Stored(l.trip) - f - arrival.delay

\* "checks every outbound transfer from the delayed stop and returns any that are
\* broken or at risk" (detector.go:53-54), whatever platforms, services, times and
\* transfer types the files spell it with.  What is reported is a listed transfer
\* in a frame of the arrival, with the first departure a passenger on time could
\* make, which leaves less than the minimum time if it is broken and at most the
\* buffer more if not; and a listed transfer that is broken, or at risk, in each
\* frame of the arrival is reported as broken, or reported.
ImpactsMatchFeed ==
  stage = "evaluated" /\ ~moved /\ arrival.delay > 0 =>
    /\ \A i \in impacts :
         LET conn == [trip |-> i.conn, dep |-> i.connDep] IN
         /\ i.route \in ListedRoutes(i.to) /\ [to |-> i.to, min |-> i.min] \in ListedTransfers
         /\ i.frame \in Frames(ArrivalTod(arrival))
         /\ conn \in Firsts(i.to, i.route, i.min, i.frame)
         /\ i.level = "broken" <=> TimeLeft(i.frame, conn) < i.min
         /\ TimeLeft(i.frame, conn) < i.min + AtRiskBuffer
    /\ \A x \in ListedTransfers : \A route \in ListedRoutes(x.to) : \A spare \in {0, AtRiskBuffer} :
         (\A f \in Frames(ArrivalTod(arrival)) :
            /\ Firsts(x.to, route, x.min, f) # {}
            /\ \A l \in Firsts(x.to, route, x.min, f) : TimeLeft(f, l) < x.min + spare)
         => \E i \in impacts : /\ i.to = x.to /\ i.route = route /\ i.min = x.min
                               /\ spare = 0 => i.level = "broken"

\* A broken transfer's connection is really missed: with the delays the detector
\* saw, the evaluator, which looks at the timetable afresh and knows nothing of
\* margins, never finds the passenger on it.
MissedNotBoarded == stage = "finalized" /\ ~moved => boarded # impact.conn

TrainsOnTime == ~moved /\ \A id \in RtIds : delays[id] \in {NoState, 0}

DepartureOf(trip, station) ==
  CHOOSE d \in {r.dep : r \in ToSet(StopTimesAt(graph, station))} :
    \E r \in ToSet(StopTimesAt(graph, station)) : r.trip = trip /\ r.dep = d

\* The wait announced is the wait realized when the connecting trains run on
\* time, whatever service day and direction they belong to; no outcome is found
\* only for a trip beyond the horizon or the lookahead.
AnnouncedWaitRealized ==
  stage = "finalized" /\ impact.viable # NoTrip /\ TrainsOnTime =>
    LET viableDep == DepartureOf(impact.viable, impact.to) IN
    IF boarded # NoTrip
    THEN DepartureOf(boarded, impact.to) - impact.connDep = impact.wait
    ELSE \/ viableDep > impact.catch + Window
         \/ Cardinality({l \in ListedDepartures(feed, Date, impact.to, impact.route) :
                           impact.connDep <= l.dep /\ l.dep <= viableDep}) > Lookahead

\* "take the first departure the passenger could viably make per schedule"
\* (detector.go:95-98), of either service day.
ConnectionIsFirstViable ==
  \A i \in impacts : \A f \in Frames(ArrivalTod(arrival)) :
    \A l \in ListedDepartures(feed, Date, i.to, i.route) :
      l.dep >= f + i.min => i.connDep - i.frame <= l.dep - f

\* "For broken transfers, find next viable departure" (detector.go:118-119): it is
\* not the connection that is broken.
NextViableIsAnother == \A i \in Broken : i.viable # i.conn

\* The time of day is "derived from the event's scheduled arrival (or observed_at
\* as fallback)" (detector.go:65-66).
ScheduledTimeUsed ==
  arrival.scheduled # NoTime => \A i \in impacts : i.frame \in Frames(arrival.scheduled)

\* "The connection is a specific trip - use its observed delay" (detector.go:107):
\* a delay stored under the id the realtime feed gives the trip, which may be the
\* static id's tail (graph.go:40-42), counts.
ObservedDelayUsed ==
  stage = "evaluated" /\ ~moved =>
    \A i \in impacts : \A id \in RtIds :
      ResolveTripID(graph, id) = i.conn /\ delays[id] # NoState
        => (i.level = "broken" <=> i.connDep - i.frame - arrival.delay + delays[id] < i.min)
=============================================================================
