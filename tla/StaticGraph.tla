----------------------------- MODULE StaticGraph -----------------------------
(***************************************************************************)
(* The schedule: what BuildGraph makes of the GTFS files for one date      *)
(* (internal/graph/graph.go, parser.go), the headway index on top of it    *)
(* (headway.go), and the lookups the detector, the engine, the evaluator,  *)
(* the enrichment and the gRPC handlers ask of it.                         *)
(*                                                                         *)
(* A feed holds the files' rows as sets and functions; where the order of  *)
(* a file matters it is a sequence.  Times are seconds since the service   *)
(* day's midnight in the agency's time zone and may exceed Day; dates are  *)
(* day numbers.  A graph is a record of the indices; the order of several  *)
(* departures at the same second is up to an unstable sort.                *)
(***************************************************************************)
EXTENDS Integers, SequencesExt

CONSTANTS
  RtTail,         \* of each static trip id, what follows its first "_", or NoId
  Day, Hour,      \* 86400 and 3600
  Overnight,      \* overnightWindowSecs, four hours
  MaxGap,         \* maxHeadwayGapSecs
  MaxHeadwayHour, \* maxHeadwayHour
  Malformed,      \* a time that does not parse
  NoStop, NoTrip, NoId, Ambiguous, NoHeadway

ASSUME GraphAssumption ==
  /\ Hour \in Nat \ {0} /\ Day % Hour = 0 /\ Day \in Nat \ {0}
  /\ Overnight \in 0..Day /\ Overnight % Hour = 0
  /\ MaxGap \in Nat /\ MaxHeadwayHour \in Nat
  /\ {Malformed, NoHeadway} \cap Nat = {}
  /\ {NoTrip, NoId, Ambiguous} \cap DOMAIN RtTail = {} /\ NoTrip # Ambiguous

-----------------------------------------------------------------------------
(* The files.                                                              *)

\* Trip, ScheduledStopTime and Transfer, as the files give them.
TripRow(route, service, dir) == [route |-> route, service |-> service, dir |-> dir]
StopTime(trip, stop, arr, dep, seq) ==
  [trip |-> trip, stop |-> stop, arr |-> arr, dep |-> dep, seq |-> seq]
TransferRow(from, to, type, min) ==
  [from |-> from, to |-> to, type |-> type, min |-> min]

\* parseStopTimes: a row without an arrival time is skipped, and one without a
\* departure time leaves when it arrives.
Rows(feed) ==
  {[r EXCEPT !.dep = IF @ = Malformed THEN r.arr ELSE @]
     : r \in {s \in feed.stopTimes : s.arr # Malformed}}

\* calendar.txt: the weekday's column, within the row's dates.
InCalendar(feed, date) ==
  {c.service : c \in {d \in feed.calendar :
                        d.from <= date /\ date <= d.until /\ date % 7 \in d.days}}

\* One row of calendar_dates.txt.
Excepted(date, active, x) ==
  CASE x.date = date /\ x.type = 1 -> active \cup {x.service}
    [] x.date = date /\ x.type = 2 -> active \ {x.service}
    [] OTHER                       -> active

ActiveServices(feed, date) ==
  FoldLeft(LAMBDA active, x : Excepted(date, active, x),
           InCalendar(feed, date), feed.exceptions)

-----------------------------------------------------------------------------
(* BuildGraph.                                                             *)

\* parentStation
Parent(parent, stop) ==
  IF stop \in DOMAIN parent /\ parent[stop] # NoStop THEN parent[stop] ELSE stop

\* Faulty variant: every trip of trips.txt is indexed.
AllRows(feed, date) == Rows(feed)

\* The rows the indices are built from.
ActiveRows(feed, date) ==
  LET active == ActiveServices(feed, date) IN
  {r \in Rows(feed) : r.trip \in DOMAIN feed.trips /\ feed.trips[r.trip].service \in active}

RowsAt(feed, date, station) ==
  {r \in ActiveRows(feed, date) : Parent(feed.parent, r.stop) = station}

ServedStations(feed, date) == {Parent(feed.parent, r.stop) : r \in ActiveRows(feed, date)}

\* The orders sort.Slice may leave a station's rows in.
Orders(rows) ==
  {s \in SetToSeqs(rows) : \A i \in 2..Len(s) : s[i - 1].dep <= s[i].dep}

\* The elements of a set in the order of their keys.
SortedBy(S, key) ==
  CHOOSE s \in SetToSeqs(S) : \A i \in 2..Len(s) : key[s[i - 1]] <= key[s[i]]

StopOrders(feed, date) ==
  LET stations == ServedStations(feed, date)
      all == [s \in stations |-> Orders(RowsAt(feed, date, s))]
  IN {f \in [stations -> UNION {all[s] : s \in stations}] :
        \A s \in stations : f[s] \in all[s]}

\* A trip's rows by sequence number.
TripRows(rows, trip) ==
  LET own == {r \in rows : r.trip = trip} IN SortedBy(own, [r \in own |-> r.seq])

\* Faulty variant: a third trip takes an ambiguous tail for itself.
IndexedOver(trip, index) ==
  IF RtTail[trip] = NoId THEN index
  ELSE [index EXCEPT ![RtTail[trip]] = IF @ \in {NoTrip, Ambiguous} THEN trip ELSE Ambiguous]

\* One trip into tripSuffix.
Indexed(trip, index) ==
  IF RtTail[trip] = NoId THEN index
  ELSE [index EXCEPT ![RtTail[trip]] = IF @ = NoTrip THEN trip ELSE Ambiguous]

TripSuffix(trips) ==
  FoldSet(Indexed, [id \in {RtTail[t] : t \in DOMAIN RtTail} |-> NoTrip], trips)

\* Type 3 transfers are dropped, the others keyed by the parents of their stops.
TransfersFrom(feed) ==
  {[from |-> Parent(feed.parent, x.from), to |-> Parent(feed.parent, x.to), min |-> x.min]
     : x \in {y \in feed.transfers : y.type # 3}}

(* The headway index.                                                      *)

\* Positions of a route's departures in a direction in a station's list.
Departures(feed, order, route, dir) ==
  {i \in DOMAIN order : LET trip == feed.trips[order[i].trip] IN
                        trip.route = route /\ trip.dir = dir}

\* The one before, and the gap since.
Previous(own, i) == Max({j \in own : j < i})

GapBefore(order, own, i) == order[i].dep - order[Previous(own, i)].dep

\* The departures that follow another, of the hour, by a gap that counts.
HourGaps(order, own, hour) ==
  {i \in own : /\ \E j \in own : j < i
               /\ GapBefore(order, own, i) \in 1..MaxGap
               /\ order[Previous(own, i)].dep \div Hour = hour /\ hour <= MaxHeadwayHour}

\* Faulty variant: the gaps are not sorted.
TimetableGaps(order, own, hour) ==
  LET some == HourGaps(order, own, hour)
      at   == SortedBy(some, [i \in some |-> i])
  IN [n \in DOMAIN at |-> GapBefore(order, own, at[n])]

SortedGaps(order, own, hour) ==
  LET some == HourGaps(order, own, hour)
      gap  == [i \in some |-> GapBefore(order, own, i)]
      at   == SortedBy(some, gap)
  IN [n \in DOMAIN at |-> gap[at[n]]]

\* Twice the median, which keeps it whole.
TwiceMedian(sorted) ==
  LET n == Len(sorted) IN
  IF n % 2 = 1 THEN 2 * sorted[n \div 2 + 1]
  ELSE sorted[n \div 2] + sorted[n \div 2 + 1]

\* BuildHeadwayIndex: a bucket exists when a gap falls into it.
HeadwayIndex(feed, byStop) ==
  LET Routes == {feed.trips[t].route : t \in DOMAIN feed.trips}
      Own(b)  == Departures(feed, byStop[b.station], b.route, b.dir)
      Gaps(b) == SortedGaps(byStop[b.station], Own(b), b.hour)
      buckets == {b \in [route : Routes, dir : {0, 1}, station : DOMAIN byStop,
                         hour : 0..MaxHeadwayHour] : Gaps(b) # <<>>}
  IN [b \in buckets |-> TwiceMedian(Gaps(b))]

BuildGraph(feed, date, byStop) ==
  LET rows  == ActiveRows(feed, date)
      trips == {r.trip : r \in rows}
  IN [parent    |-> feed.parent,
      route     |-> [t \in DOMAIN feed.trips |-> feed.trips[t].route],
      dir       |-> [t \in DOMAIN feed.trips |-> feed.trips[t].dir],
      byStop    |-> byStop,
      byTrip    |-> [t \in trips |-> TripRows(rows, t)],
      routesAt  |-> [s \in DOMAIN byStop |->
                       {feed.trips[byStop[s][i].trip].route : i \in DOMAIN byStop[s]}],
      suffix    |-> TripSuffix(trips),
      transfers |-> TransfersFrom(feed),
      headways  |-> HeadwayIndex(feed, byStop)]

\* What the indices of a graph hold: rows of running trips, with times that parse.
IndexedRow(g) == [trip : DOMAIN g.byTrip, stop : DOMAIN g.parent, arr : Nat, dep : Nat, seq : Nat]

WellFormed(g) ==
  /\ DOMAIN g.byTrip \subseteq DOMAIN g.route
  /\ \A s \in DOMAIN g.byStop : g.byStop[s] \in Seq(IndexedRow(g))
  /\ \A t \in DOMAIN g.byTrip : g.byTrip[t] \in Seq(IndexedRow(g))
  /\ \A x \in g.transfers :
       x.min \in Int /\ {x.from, x.to} \subseteq {Parent(g.parent, s) : s \in DOMAIN g.parent}
  /\ \A b \in DOMAIN g.headways : g.headways[b] \in Nat

-----------------------------------------------------------------------------
(* The lookups.  A missing map entry reads as an empty list or set.        *)

Station(g, stop) == Parent(g.parent, stop)

GetRoutesAtStop(g, stop) ==
  IF Station(g, stop) \in DOMAIN g.routesAt THEN g.routesAt[Station(g, stop)] ELSE {}

GetTransfersFrom(g, stop) == {x \in g.transfers : x.from = Station(g, stop)}

StopTimesAt(g, stop) ==
  IF Station(g, stop) \in DOMAIN g.byStop THEN g.byStop[Station(g, stop)] ELSE <<>>

\* Faulty variant: a departure at the very time is already gone.
GetDeparturesAfter(g, stop, route, after, n) ==
  LET rows  == StopTimesAt(g, stop)
      found == {k \in DOMAIN rows : rows[k].dep > after /\ g.route[rows[k].trip] = route}
  IN {k \in found : Cardinality({j \in found : j < k}) < n}

\* The first n departures of the route at or after the time, as positions in the
\* station's list.
GetNextDepartures(g, stop, route, after, n) ==
  LET rows  == StopTimesAt(g, stop)
      found == {k \in DOMAIN rows : rows[k].dep >= after /\ g.route[rows[k].trip] = route}
  IN {k \in found : Cardinality({j \in found : j < k}) < n}

\* NextDeparturesAfter: early in the morning the previous service day's late
\* trips count too, and the smaller wait decides which frame the time is in.
EffectiveTod(g, stop, route, tod) ==
  LET today == GetNextDepartures(g, stop, route, tod, 1)
      late  == GetNextDepartures(g, stop, route, tod + Day, 1)
      WaitFor(first, from) == StopTimesAt(g, stop)[Min(first)].dep - from
  IN IF /\ tod < Overnight /\ late # {}
        /\ today = {} \/ WaitFor(late, tod + Day) < WaitFor(today, tod)
     THEN tod + Day ELSE tod

\* Positions of a trip's row at the station that is not its last.
CallsAt(g, trip, station) ==
  {i \in 1..(Len(g.byTrip[trip]) - 1) : Station(g, g.byTrip[trip][i].stop) = station}

\* GetDownstreamStops: the rest of the first trip of the day that leaves the
\* station on the route in the direction and goes on.
GetDownstreamStops(g, route, stop, dir) ==
  LET station == Station(g, stop)
      rows  == StopTimesAt(g, stop)
      going == {k \in DOMAIN rows : /\ g.route[rows[k].trip] = route
                                    /\ g.dir[rows[k].trip] = dir
                                    /\ CallsAt(g, rows[k].trip, station) # {}}
  IN IF going = {} THEN <<>>
     ELSE LET trip == rows[Min(going)].trip IN
          SubSeq(g.byTrip[trip], Min(CallsAt(g, trip, station)) + 1, Len(g.byTrip[trip]))

ResolveTripID(g, id) ==
  CASE id \in DOMAIN g.byTrip -> id
    [] id \notin DOMAIN g.byTrip /\ id \in DOMAIN g.suffix /\ g.suffix[id] # Ambiguous
         -> g.suffix[id]
    [] OTHER -> NoTrip

\* GetScheduledStopTime: the trip's first row at the stop itself, else at its
\* station; as a set of at most one row.
GetScheduledStopTime(g, id, stop) ==
  LET trip == ResolveTripID(g, id)
      rows == IF trip = NoTrip THEN <<>> ELSE g.byTrip[trip]
      exact  == {i \in DOMAIN rows : rows[i].stop = stop}
      nearby == {i \in DOMAIN rows : Station(g, rows[i].stop) = Station(g, stop)}
  IN CASE exact # {}  -> {rows[Min(exact)]}
       [] exact = {} /\ nearby # {} -> {rows[Min(nearby)]}
       [] OTHER -> {}

\* GetScheduledHeadway, doubled: early in the morning the previous service day's
\* bucket stands in for a missing one.
GetScheduledHeadway(g, route, dir, stop, tod) ==
  LET Bucket(hour) == [route |-> route, dir |-> dir, station |-> Station(g, stop), hour |-> hour]
      hour == tod \div Hour
  IN CASE Bucket(hour) \in DOMAIN g.headways -> g.headways[Bucket(hour)]
       [] /\ Bucket(hour) \notin DOMAIN g.headways
          /\ tod < Overnight
          /\ Bucket(hour + Day \div Hour) \in DOMAIN g.headways
            -> g.headways[Bucket(hour + Day \div Hour)]
       [] OTHER -> NoHeadway

-----------------------------------------------------------------------------
(* What the schedule promises, stated over the feed's rows.                *)

\* The service runs: the last exception of the date, if there is one, decides.
Runs(feed, date, service) ==
  LET deciding == {i \in DOMAIN feed.exceptions :
                     LET rule == feed.exceptions[i] IN
                     rule.date = date /\ rule.service = service /\ rule.type \in {1, 2}}
  IN IF deciding # {} THEN feed.exceptions[Max(deciding)].type = 1
     ELSE \E c \in feed.calendar : /\ c.service = service /\ date % 7 \in c.days
                                   /\ c.from <= date /\ date <= c.until

RunningTrips(feed, date) ==
  {t \in DOMAIN feed.trips :
     /\ Runs(feed, date, feed.trips[t].service)
     /\ \E r \in feed.stopTimes : r.trip = t /\ r.arr # Malformed}

\* "Ambiguous suffixes are misses" (graph.go:311): a feed's id resolves to the
\* running trip it is the tail of, and to none when several running trips share
\* it, however many they are.
TailsResolve(g, feed, date) ==
  \A id \in {RtTail[t] : t \in DOMAIN RtTail} \ {NoId} :
    LET owners == {t \in RunningTrips(feed, date) : RtTail[t] = id} IN
    \/ id \in RunningTrips(feed, date)
    \/ \E t \in owners : owners = {t} /\ ResolveTripID(g, id) = t
    \/ Cardinality(owners) # 1 /\ ResolveTripID(g, id) = NoTrip

\* The times a route leaves a station at, among the running trips' rows.
ListedDepartures(feed, date, station, route) ==
  {[trip |-> r.trip, dep |-> IF r.dep = Malformed THEN r.arr ELSE r.dep] :
     r \in {s \in feed.stopTimes :
              /\ s.arr # Malformed /\ Parent(feed.parent, s.stop) = station
              /\ s.trip \in RunningTrips(feed, date) /\ feed.trips[s.trip].route = route}}

\* The index's headway is the median of the gaps that begin in the hour: as many
\* are at most as long as are at least as long, and it lies halfway between the
\* two middle ones when their number is even.
HeadwaysAreMedians(g, feed, date) ==
  \A b \in DOMAIN g.headways :
    LET leaves == {l.dep : l \in {x \in ListedDepartures(feed, date, b.station, b.route) :
                                    feed.trips[x.trip].dir = b.dir}}
        \* Each departure after which the next follows within MaxGap.
        begins == {t \in leaves : /\ t \div Hour = b.hour
                                  /\ \E u \in leaves : t < u /\ u <= t + MaxGap}
        Gap(t) == Min({u \in leaves : u > t}) - t
        AtMost(n)  == Cardinality({t \in begins : Gap(t) <= n})
        AtLeast(n) == Cardinality({t \in begins : Gap(t) >= n})
        half == (Cardinality(begins) + 1) \div 2
        low  == Min({Gap(t) : t \in {u \in begins : AtMost(Gap(u)) >= half}})
        high == Max({Gap(t) : t \in {u \in begins : AtLeast(Gap(u)) >= half}})
    IN begins # {} /\ g.headways[b] = low + high
=============================================================================
