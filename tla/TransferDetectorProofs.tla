------------------------ MODULE TransferDetectorProofs ------------------------
(***************************************************************************)
(* Proofs about TransferDetector: for every feed the graph may be built    *)
(* from, realtime trip ids resolve to the running trip they are the tail   *)
(* of; the transfers EvaluateDelay reports are those of the feed that a    *)
(* delayed passenger misses; a missed train is never the one the evaluator *)
(* finds; the wait announced is the wait realized; a headway is a median;  *)
(* and a graph is as the engine takes it to be.                            *)
(*                                                                         *)
(* The invariant, DetectorInv, is short: what is hard is what one call of  *)
(* BuildGraph, EvaluateDelay or realizedWait computes.  TimetableLists     *)
(* says of a graph's lists that they hold the rows of the feed's running   *)
(* trips in order of departure; NextDepartures what a lookup finds in one; *)
(* Reported and BoardedIs what the detector and the evaluator make of it.  *)
(***************************************************************************)
EXTENDS TransferDetector, DataLemmas

-----------------------------------------------------------------------------
(* Services.                                                               *)

\* Initial segments of the naturals: finite, with the last index on top.
LEMMA Segments ==
  ASSUME NEW n \in Nat
  PROVE  /\ IsFiniteSet(1..n)
         /\ \A s \in SUBSET (1..n) : IsFiniteSet(s) /\ (s # {} => Max(s) \in s /\ Min(s) \in s)
         /\ \A k \in 1..n : /\ 1..k \in SUBSET (1..n) /\ 1..k # {} /\ Max(1..k) = k
                           /\ (1..k) \ {k} = 1..(k - 1)
<1>1. IsFiniteSet(1..n)
  <2>1. 1 \in Int /\ n \in Int
    OBVIOUS
  <2>2. QED
    BY <2>1, FS_Interval
<1>2. ASSUME NEW s \in SUBSET (1..n)
      PROVE  /\ IsFiniteSet(s) /\ s \in SUBSET Int
             /\ s # {} => /\ Max(s) \in s /\ Min(s) \in s
                          /\ \A y \in s : Max(s) >= y
  <2>1. s \in SUBSET Int
    OBVIOUS
  <2>2. IsFiniteSet(s)
    BY <1>1, FS_Subset, Zenon
  <2>3. QED
    BY <2>1, <2>2, MaxIs, MinIs
<1>3. ASSUME NEW k \in 1..n
      PROVE  1..k \in SUBSET (1..n) /\ 1..k # {} /\ (1..k) \ {k} = 1..(k - 1)
  OBVIOUS
<1>4. ASSUME NEW k \in 1..n PROVE Max(1..k) = k
  <2>1. k \in 1..k /\ 1..k \in SUBSET (1..n)
    OBVIOUS
  <2>2. Max(1..k) \in 1..k /\ Max(1..k) >= k
    BY <1>2, <2>1, Zenon
  <2>3. QED
    BY <2>2
<1>5. QED
  BY <1>1, <1>2, <1>3, <1>4

\* The exceptions among the first k rows that decide whether a service runs.
Deciding(e, date, service, k) ==
  {i \in 1..k : e[i].date = date /\ e[i].service = service /\ e[i].type \in {1, 2}}

\* Whether the service runs according to the calendar and the first k exceptions.
RunsBy(e, base, date, service, k) ==
  IF Deciding(e, date, service, k) # {}
  THEN e[Max(Deciding(e, date, service, k))].type = 1 ELSE service \in base

\* Reading one more row.
LEMMA OneMoreRow ==
  ASSUME NEW e, NEW base, NEW date, NEW service, NEW k \in Nat, NEW active,
         service \in active <=> RunsBy(e, base, date, service, k)
  PROVE  service \in Excepted(date, active, e[k + 1])
           <=> RunsBy(e, base, date, service, k + 1)
<1> DEFINE dec(j) == Deciding(e, date, service, j)
           x == e[k + 1]
           decides == x.date = date /\ x.service = service /\ x.type \in {1, 2}
<1>1. \A j \in Nat : dec(j) \in SUBSET Int /\ IsFiniteSet(dec(j)) /\ dec(j) \subseteq 1..j
  <2>1. ASSUME NEW j \in Nat PROVE IsFiniteSet(1..j)
    BY <2>1, FS_Interval
  <2>2. QED
    BY <2>1, FS_Subset DEF Deciding
<1>2. CASE decides
  <2>1. k + 1 \in dec(k + 1)
    BY <1>2 DEF Deciding
  <2>2. Max(dec(k + 1)) \in dec(k + 1) /\ Max(dec(k + 1)) >= k + 1
    BY <1>1, <2>1, MaxIs
  <2>3. Max(dec(k + 1)) = k + 1
    BY <1>1, <2>2
  <2>4. RunsBy(e, base, date, service, k + 1) <=> x.type = 1
    BY <2>1, <2>3 DEF RunsBy
  <2>5. QED
    BY <1>2, <2>4 DEF Excepted
<1>3. CASE ~decides
  <2>1. dec(k + 1) = dec(k)
    BY <1>3 DEF Deciding
  <2>2. RunsBy(e, base, date, service, k + 1) <=> RunsBy(e, base, date, service, k)
    BY <2>1 DEF RunsBy
  <2>3. service \in Excepted(date, active, x) <=> service \in active
    BY <1>3 DEF Excepted
  <2>4. QED
    BY <2>2, <2>3
<1>4. QED
  BY <1>2, <1>3

\* A service is active exactly when the feed has it run: calendar.txt and then the
\* last row of calendar_dates.txt that speaks of it decide.
LEMMA ActiveRuns ==
  ASSUME NEW feed_1, Readable(feed_1), NEW date, NEW service
  PROVE  service \in ActiveServices(feed_1, date) <=> Runs(feed_1, date, service)
<1> DEFINE e == feed_1.exceptions
           n == Len(e)
           D == 1..n
           base == InCalendar(feed_1, date)
           Is(g) == g = [s \in SUBSET D |-> IF s = {} THEN base
                           ELSE Excepted(date, g[s \ {Max(s)}], e[Max(s)])]
           Claim(g, k) == service \in g[1..k] <=> RunsBy(e, base, date, service, k)
<1>0. n \in Nat /\ DOMAIN e = D
  BY DEF Readable
<1>1. ActiveServices(feed_1, date) = (CHOOSE g : Is(g))[D]
  BY <1>0 DEF ActiveServices, FoldLeft, MapThenFoldSet
<1>2. \E g : Is(g)
  <2> DEFINE B == SUBSET (base \cup {e[i].service : i \in D})
             op == [i \in D |-> [a \in B |-> Excepted(date, a, e[i])]]
             c == [s \in SUBSET D |-> IF s = {} THEN 1 ELSE Max(s)]
  <2>1. base \in B /\ op \in [D -> [B -> B]]
    <3>1. ASSUME NEW i \in D, NEW a \in B PROVE Excepted(date, a, e[i]) \in B
      BY DEF Excepted
    <3>2. QED
      BY <3>1
  <2>2. \A s \in SUBSET D : s # {} => Max(s) \in s
    BY <1>0, Segments
  <2>3. \A s \in SUBSET D : s # {} => c[s] \in s
    BY <2>2
  <2>4. IsFiniteSet(D)
    BY <1>0, Segments
  <2> HIDE DEF B, op, c, D, base
  <2>5. /\ FoldOf(op, base, c, D, B) \in [SUBSET D -> B]
        /\ Folds(FoldOf(op, base, c, D, B), op, base, c, D)
    BY <2>1, <2>3, <2>4, FoldExists
  <2> DEFINE g == FoldOf(op, base, c, D, B)
  <2> HIDE DEF g
  <2>6. ASSUME NEW s \in SUBSET D, s # {}
        PROVE  op[c[s]][g[s \ {c[s]}]] = Excepted(date, g[s \ {Max(s)}], e[Max(s)])
    <3>1. c[s] = Max(s) /\ Max(s) \in D /\ g[s \ {Max(s)}] \in B
      BY <2>2, <2>5, <2>6 DEF c, g
    <3>2. QED
      BY <3>1 DEF op
  <2>7. Is(g)
    BY <2>5, <2>6 DEF Folds, g
  <2>8. QED
    BY <2>7
<1>3. PICK g : Is(g) /\ ActiveServices(feed_1, date) = g[D]
  BY <1>1, <1>2
<1> DEFINE H == {k \in Nat : k <= n => Claim(g, k)}
<1>4. 0 \in H
  <2>1. 1..0 = {}
    OBVIOUS
  <2>2. g[1..0] = base
    BY <2>1, <1>3
  <2>3. Deciding(e, date, service, 0) = {}
    BY <2>1 DEF Deciding
  <2>4. QED
    BY <2>2, <2>3 DEF RunsBy
<1>5. ASSUME NEW k \in H PROVE k + 1 \in H
  <2>0. k \in Nat
    OBVIOUS
  <2>1. SUFFICES ASSUME k + 1 <= n PROVE Claim(g, k + 1)
    BY <2>0
  <2>2. Claim(g, k)
    BY <2>0, <2>1, <1>0
  <2>3. k + 1 \in 1..n /\ k = (k + 1) - 1
    BY <2>0, <2>1, <1>0
  <2>4. 1..(k + 1) \in SUBSET D /\ 1..(k + 1) # {} /\ Max(1..(k + 1)) = k + 1
        /\ (1..(k + 1)) \ {k + 1} = 1..k
    <3> HIDE DEF n
    <3>1. QED
      BY <2>3, <1>0, Segments
  <2>5. g[1..(k + 1)] = Excepted(date, g[1..k], e[k + 1])
    BY <2>3, <2>4, <1>3
  <2>6. QED
    BY <2>0, <2>2, <2>5, OneMoreRow
<1> HIDE DEF H
<1>6. H = Nat
  <2>1. H \in SUBSET Nat
    BY DEF H
  <2>2. QED
    BY <1>4, <1>5, <2>1, InductionOnSet
<1>7. Claim(g, n)
  BY <1>0, <1>6 DEF H
<1>8. RunsBy(e, base, date, service, n) <=> Runs(feed_1, date, service)
  <2>1. {i \in DOMAIN e : LET x == e[i] IN
                          x.date = date /\ x.service = service /\ x.type \in {1, 2}}
          = Deciding(e, date, service, n)
    BY <1>0 DEF Deciding
  <2>2. service \in base <=> \E c \in feed_1.calendar :
                               /\ c.service = service /\ date % 7 \in c.days
                               /\ c.from <= date /\ date <= c.until
    BY DEF InCalendar
  <2>3. QED
    BY <2>1, <2>2 DEF RunsBy, Runs
<1>9. QED
  BY <1>3, <1>7, <1>8

-----------------------------------------------------------------------------
(* The rows of the files.                                                  *)

\* When a row leaves: on arrival, unless its departure parses.
Leaves(s) == IF s.dep = Malformed THEN s.arr ELSE s.dep

Parsed(f) == {s \in f.stopTimes : s.arr # Malformed}

\* The parser keeps the rows whose arrival parses.
LEMMA RowsParsed ==
  ASSUME NEW f, Readable(f)
  PROVE  /\ Rows(f) = {StopTime(s.trip, s.stop, s.arr, Leaves(s), s.seq) : s \in Parsed(f)}
         /\ IsFiniteSet(Rows(f))
         /\ \A r \in Rows(f) : r.dep \in Nat
<1> DEFINE Row == [s \in Parsed(f) |-> StopTime(s.trip, s.stop, s.arr, Leaves(s), s.seq)]
<1>1. ASSUME NEW s \in Parsed(f)
      PROVE  /\ [s EXCEPT !.dep = IF @ = Malformed THEN s.arr ELSE @]
                  = StopTime(s.trip, s.stop, s.arr, Leaves(s), s.seq)
             /\ Leaves(s) \in Nat
  <2>1. s = StopTime(s.trip, s.stop, s.arr, s.dep, s.seq) /\ {s.arr, s.dep} \subseteq Nat \cup {Malformed}
    BY DEF Readable, Parsed
  <2>2. s.arr # Malformed
    BY DEF Parsed
  <2>3. QED
    BY <2>1, <2>2 DEF StopTime, Leaves
<1>2. Rows(f) = {Row[s] : s \in Parsed(f)}
  <2> DEFINE Kept(s) == [s EXCEPT !.dep = IF @ = Malformed THEN s.arr ELSE @]
  <2>1. Rows(f) = {Kept(s) : s \in Parsed(f)}
    BY DEF Rows, Parsed
  <2>2. \A s \in Parsed(f) : Kept(s) = Row[s]
    BY <1>1
  <2> HIDE DEF Row, Kept
  <2>3. QED
    BY <2>1, <2>2
<1>3. IsFiniteSet(Parsed(f))
  BY FS_Subset DEF Parsed, Readable
<1>4. IsFiniteSet(Rows(f))
  <2> HIDE DEF Row
  <2>1. QED
    BY <1>2, <1>3, ValuesFinite
<1>5. ASSUME NEW r \in Rows(f) PROVE r.dep \in Nat
  <2>1. PICK s \in Parsed(f) : r = StopTime(s.trip, s.stop, s.arr, Leaves(s), s.seq)
    BY <1>2
  <2>2. QED
    BY <1>1, <2>1 DEF StopTime
<1>6. QED
  BY <1>2, <1>4, <1>5

\* The indexed rows are those of the trips that run.
LEMMA ActiveRowsAre ==
  ASSUME NEW f, Readable(f), NEW date
  PROVE  /\ ActiveRows(f, date) =
              {r \in Rows(f) : /\ r.trip \in DOMAIN f.trips
                               /\ Runs(f, date, f.trips[r.trip].service)}
         /\ RunningTrips(f, date) = {r.trip : r \in ActiveRows(f, date)}
<1>1. ActiveRows(f, date) =
        {r \in Rows(f) : r.trip \in DOMAIN f.trips /\ Runs(f, date, f.trips[r.trip].service)}
  BY ActiveRuns DEF ActiveRows
<1>2. ASSUME NEW t \in RunningTrips(f, date) PROVE \E r \in ActiveRows(f, date) : r.trip = t
  <2>1. PICK s \in Parsed(f) : s.trip = t
    BY DEF RunningTrips, Parsed
  <2> DEFINE r == StopTime(s.trip, s.stop, s.arr, Leaves(s), s.seq)
  <2>2. r \in Rows(f) /\ r.trip = t
    BY <2>1, RowsParsed DEF StopTime
  <2>3. QED
    BY <2>2, <1>1 DEF RunningTrips
<1>3. ASSUME NEW r \in ActiveRows(f, date) PROVE r.trip \in RunningTrips(f, date)
  <2>1. PICK s \in Parsed(f) : r = StopTime(s.trip, s.stop, s.arr, Leaves(s), s.seq)
    BY <1>1, RowsParsed
  <2>2. s.trip = r.trip
    BY <2>1 DEF StopTime
  <2>3. QED
    BY <2>2, <1>1 DEF RunningTrips, Parsed
<1>4. QED
  BY <1>1, <1>2, <1>3

\* What leaves a station: the rows of a station's list, told by trip and time.
LEMMA ListedAre ==
  ASSUME NEW f, Readable(f), NEW date, NEW station, NEW route
  PROVE  ListedDepartures(f, date, station, route) =
           {[trip |-> r.trip, dep |-> r.dep] :
              r \in {q \in RowsAt(f, date, station) : f.trips[q.trip].route = route}}
<1> DEFINE Listed == {s \in Parsed(f) : /\ Parent(f.parent, s.stop) = station
                                        /\ s.trip \in RunningTrips(f, date)
                                        /\ f.trips[s.trip].route = route}
           There == {q \in RowsAt(f, date, station) : f.trips[q.trip].route = route}
<1>1. ListedDepartures(f, date, station, route) =
        {[trip |-> s.trip, dep |-> Leaves(s)] : s \in Listed}
  BY DEF ListedDepartures, Parsed, Leaves
<1>2. ASSUME NEW s \in Listed
      PROVE  \E r \in There : r.trip = s.trip /\ r.dep = Leaves(s)
  <2> DEFINE r == StopTime(s.trip, s.stop, s.arr, Leaves(s), s.seq)
  <2>1. r \in Rows(f) /\ r.trip = s.trip /\ r.dep = Leaves(s) /\ r.stop = s.stop
    BY RowsParsed DEF StopTime
  <2>2. r \in ActiveRows(f, date)
    BY <2>1, ActiveRowsAre DEF RunningTrips
  <2>3. QED
    BY <2>1, <2>2 DEF RowsAt
<1>3. ASSUME NEW r \in There
      PROVE  \E s \in Listed : r.trip = s.trip /\ r.dep = Leaves(s)
  <2>1. r \in ActiveRows(f, date) /\ Parent(f.parent, r.stop) = station
    BY DEF RowsAt
  <2>2. PICK s \in Parsed(f) : r = StopTime(s.trip, s.stop, s.arr, Leaves(s), s.seq)
    BY <2>1, ActiveRowsAre, RowsParsed
  <2>3. r.trip = s.trip /\ r.dep = Leaves(s) /\ r.stop = s.stop
    BY <2>2 DEF StopTime
  <2>4. r.trip \in RunningTrips(f, date)
    BY <2>1, ActiveRowsAre
  <2>5. QED
    BY <2>1, <2>3, <2>4
<1> HIDE DEF Listed, There
<1>4. QED
  BY <1>1, <1>2, <1>3 DEF There

-----------------------------------------------------------------------------
(* Timetables.                                                             *)

\* A list holds each row of a set once, in the order of departure.
Lists(rows, S) ==
  /\ \E n \in Nat : DOMAIN rows = 1..n
  /\ \A k \in DOMAIN rows : rows[k] \in S
  /\ \A r \in S : \E k \in DOMAIN rows : rows[k] = r
  /\ \A j, k \in DOMAIN rows : j # k => rows[j] # rows[k]
  /\ \A j, k \in DOMAIN rows : j <= k => rows[j].dep <= rows[k].dep

\* Any order sort.Slice may leave lists the rows.
LEMMA OrdersList ==
  ASSUME NEW S, IsFiniteSet(S), \A r \in S : r.dep \in Nat, NEW s \in Orders(S)
  PROVE  Lists(s, S)
<1>1. Cardinality(S) \in Nat
  BY FS_CardinalityType
<1>2. PICK n \in Nat : n = Cardinality(S)
  BY <1>1
<1>3. s \in [1..n -> S] /\ \A i, j \in 1..n : i # j => s[i] # s[j]
  BY <1>2 DEF Orders, SetToSeqs
<1>4. Len(s) = n /\ DOMAIN s = 1..n
  BY <1>3
<1>5. \A r \in S : \E k \in 1..n : s[k] = r
  BY <1>2, <1>3, EnumerationFull
<1>6. \A j, k \in 1..n : j <= k => s[j].dep <= s[k].dep
  <2> DEFINE v == [i \in 1..n |-> s[i].dep]
  <2>1. \A i \in 1..n : v[i] \in Int
    BY <1>3
  <2>2. \A i \in 2..n : s[i - 1].dep <= s[i].dep
    BY <1>4 DEF Orders
  <2>3. \A i \in 2..n : v[i - 1] <= v[i]
    BY <2>2
  <2> HIDE DEF v
  <2>4. \A j, k \in 1..n : j <= k => v[j] <= v[k]
    BY <2>1, <2>3, OrderedThroughout
  <2>5. QED
    BY <2>4 DEF v
<1>7. QED
  BY <1>3, <1>4, <1>5, <1>6 DEF Lists

\* SortedBy is such a list, and meets every element once.
LEMMA SortedIs ==
  ASSUME NEW S, IsFiniteSet(S), NEW key, \A x \in S : key[x] \in Int
  PROVE  LET s == SortedBy(S, key)
             n == Cardinality(S)
         IN /\ n \in Nat /\ s \in [1..n -> S] /\ Len(s) = n
            /\ \A i, j \in 1..n : i # j => s[i] # s[j]
            /\ \A x \in S : \E i \in 1..n : s[i] = x
            /\ \A i, j \in 1..n : i <= j => key[s[i]] <= key[s[j]]
<1>1. PICK s : s = SortedBy(S, key)
  OBVIOUS
<1>2. PICK n \in Nat : n = Cardinality(S)
  BY FS_CardinalityType
<1>3. s \in SetToSeqs(S) /\ \A i \in 2..Len(s) : key[s[i - 1]] <= key[s[i]]
  <2>1. PICK u \in [1..n -> S] : /\ \A i, j \in 1..n : i # j => u[i] # u[j]
                                 /\ \A i \in 2..n : key[u[i - 1]] <= key[u[i]]
    BY <1>2, SortedExists
  <2>2. u \in SetToSeqs(S) /\ Len(u) = n
    BY <1>2, <2>1 DEF SetToSeqs
  <2>3. QED
    BY <1>1, <2>1, <2>2 DEF SortedBy
<1>4. s \in [1..n -> S] /\ \A i, j \in 1..n : i # j => s[i] # s[j]
  BY <1>2, <1>3 DEF SetToSeqs
<1>5. Len(s) = n
  BY <1>4
<1>6. \A x \in S : \E i \in 1..n : s[i] = x
  BY <1>2, <1>4, EnumerationFull
<1>7. \A i, j \in 1..n : i <= j => key[s[i]] <= key[s[j]]
  <2> DEFINE v == [i \in 1..n |-> key[s[i]]]
  <2>1. \A i \in 1..n : v[i] \in Int
    BY <1>4
  <2>2. \A i \in 2..n : v[i - 1] <= v[i]
    BY <1>3, <1>5
  <2> HIDE DEF v
  <2>3. \A i, j \in 1..n : i <= j => v[i] <= v[j]
    BY <2>1, <2>2, OrderedThroughout
  <2>4. QED
    BY <2>3 DEF v
<1>8. QED
  BY <1>1, <1>2, <1>4, <1>5, <1>6, <1>7

-----------------------------------------------------------------------------
(* The graph.                                                              *)

\* A graph that BuildGraph may make of a feed.
BuiltFrom(g, f) == \E byStop \in StopOrders(f, Date) : g = BuildGraph(f, Date, byStop)

\* The lists of a graph are those of the feed's running trips.
LEMMA TimetableLists ==
  ASSUME NEW f, Readable(f), NEW g, BuiltFrom(g, f), NEW stop
  PROVE  LET rows == RowsAt(f, Date, Parent(f.parent, stop)) IN
         /\ Station(g, stop) = Parent(f.parent, stop)
         /\ Lists(StopTimesAt(g, stop), rows)
         /\ GetRoutesAtStop(g, stop) = {f.trips[r.trip].route : r \in rows}
         /\ \A r \in rows : /\ r.dep \in Nat /\ r.trip \in DOMAIN f.trips
                            /\ g.route[r.trip] = f.trips[r.trip].route
<1> DEFINE station == Parent(f.parent, stop)
           rows == RowsAt(f, Date, station)
<1>1. PICK byStop \in StopOrders(f, Date) : g = BuildGraph(f, Date, byStop)
  BY DEF BuiltFrom
<1>2. /\ g.parent = f.parent /\ g.byStop = byStop
      /\ g.route = [t \in DOMAIN f.trips |-> f.trips[t].route]
      /\ g.routesAt = [s \in DOMAIN byStop |->
                          {f.trips[byStop[s][i].trip].route : i \in DOMAIN byStop[s]}]
  BY <1>1 DEF BuildGraph
<1>3. /\ DOMAIN byStop = ServedStations(f, Date)
      /\ \A s \in ServedStations(f, Date) : byStop[s] \in Orders(RowsAt(f, Date, s))
  BY <1>1 DEF StopOrders
<1>4. Station(g, stop) = station
  BY <1>2 DEF Station
<1>5. IsFiniteSet(rows) /\ \A r \in rows : r.dep \in Nat /\ r.trip \in DOMAIN f.trips
  <2>1. rows \subseteq Rows(f)
    BY ActiveRowsAre DEF RowsAt
  <2>2. IsFiniteSet(rows)
    BY <2>1, RowsParsed, FS_Subset
  <2>3. \A r \in rows : r.dep \in Nat /\ r.trip \in DOMAIN f.trips
    BY <2>1, RowsParsed, ActiveRowsAre DEF RowsAt
  <2>4. QED
    BY <2>2, <2>3
<1>6. CASE station \in ServedStations(f, Date)
  <2>1. StopTimesAt(g, stop) = byStop[station]
    BY <1>2, <1>3, <1>4, <1>6 DEF StopTimesAt
  <2>2. Lists(byStop[station], rows)
    <3>1. byStop[station] \in Orders(rows)
      BY <1>3, <1>6
    <3> HIDE DEF rows
    <3>2. QED
      BY <1>5, <3>1, OrdersList
  <2>3. GetRoutesAtStop(g, stop) = {f.trips[byStop[station][i].trip].route : i \in DOMAIN byStop[station]}
    BY <1>2, <1>3, <1>4, <1>6 DEF GetRoutesAtStop
  <2>4. GetRoutesAtStop(g, stop) = {f.trips[r.trip].route : r \in rows}
    <3> HIDE DEF rows
    <3>1. QED
      BY <2>2, <2>3 DEF Lists
  <2>5. QED
    BY <1>2, <1>4, <1>5, <2>1, <2>2, <2>4
<1>7. CASE station \notin ServedStations(f, Date)
  <2>1. rows = {}
    BY <1>7 DEF RowsAt, ServedStations
  <2>2. StopTimesAt(g, stop) = <<>> /\ GetRoutesAtStop(g, stop) = {}
    BY <1>2, <1>3, <1>4, <1>7 DEF StopTimesAt, GetRoutesAtStop
  <2>3. DOMAIN <<>> = 1..0 /\ 1..0 = {}
    OBVIOUS
  <2>4. Lists(StopTimesAt(g, stop), rows)
    BY <2>1, <2>2, <2>3 DEF Lists
  <2>5. QED
    BY <1>4, <2>1, <2>2, <2>4
<1>8. QED
  BY <1>6, <1>7

\* Positions of a route's departures at or after a time.
Upcoming(g, stop, route, after) ==
  {k \in DOMAIN StopTimesAt(g, stop) : /\ StopTimesAt(g, stop)[k].dep >= after
                                      /\ g.route[StopTimesAt(g, stop)[k].trip] = route}

\* GetNextDepartures returns the first of them: all, or n of them at least.
LEMMA NextDepartures ==
  ASSUME NEW g, NEW stop, NEW route, NEW after, NEW n \in Nat \ {0},
         NEW m \in Nat, DOMAIN StopTimesAt(g, stop) = 1..m
  PROVE  LET found == Upcoming(g, stop, route, after)
             deps  == GetNextDepartures(g, stop, route, after, n)
         IN /\ deps \subseteq found /\ found \in SUBSET (1..m) /\ IsFiniteSet(found)
            /\ found # {} => /\ deps # {} /\ Min(deps) \in found
                             /\ \A k \in found : Min(deps) <= k
            /\ \A k \in deps, j \in found : j <= k => j \in deps
            /\ \A k \in found \ deps : Cardinality({j \in found : j < k}) >= n
<1> DEFINE found == Upcoming(g, stop, route, after)
           Before(k) == {j \in found : j < k}
           deps  == GetNextDepartures(g, stop, route, after, n)
<1>1. found \in SUBSET (1..m)
  BY DEF Upcoming
<1>2. deps = {k \in found : Cardinality(Before(k)) < n}
  BY DEF GetNextDepartures, Upcoming
<1> HIDE DEF found, deps
<1>3. IsFiniteSet(found) /\ found \in SUBSET Nat /\ deps \subseteq found
  BY <1>1, <1>2, Segments
<1>4. ASSUME NEW k \in found
      PROVE  k \in Nat /\ IsFiniteSet(Before(k)) /\ Cardinality(Before(k)) \in Nat
  <2>1. IsFiniteSet(Before(k))
    BY <1>3, FS_Subset
  <2>2. QED
    BY <1>3, <2>1, FS_CardinalityType
<1>5. ASSUME found # {}
      PROVE  deps # {} /\ Min(deps) \in found /\ \A k \in found : Min(deps) <= k
  <2>1. PICK k \in found : \A j \in found : k <= j
    BY <1>3, <1>5, Least
  <2>2. Before(k) = {}
    <3>1. ASSUME NEW j \in found PROVE ~(j < k)
      <4>1. j \in Nat /\ k \in Nat /\ k <= j
        BY <1>4, <2>1
      <4>2. QED
        BY <4>1
    <3>2. QED
      BY <3>1
  <2>3. Cardinality(Before(k)) = 0
    BY <2>2, FS_EmptySet
  <2>4. k \in deps
    BY <1>2, <2>3
  <2>5. Min(deps) \in deps /\ Min(deps) <= k
    <3>1. IsFiniteSet(deps)
      BY <1>3, FS_Subset
    <3>2. deps \in SUBSET Int
      BY <1>3
    <3>3. QED
      BY <2>4, <3>1, <3>2, MinIs
  <2>6. Min(deps) = k
    <3>1. Min(deps) \in found
      BY <1>3, <2>5
    <3>2. Min(deps) \in Nat /\ k \in Nat /\ k <= Min(deps)
      BY <3>1, <1>4, <2>1
    <3>3. QED
      BY <2>5, <3>2
  <2>7. QED
    BY <2>1, <2>4, <2>6
<1>6. ASSUME NEW k \in deps, NEW j \in found, j <= k PROVE j \in deps
  <2>1. k \in found /\ k \in Nat /\ j \in Nat
    BY <1>3, <1>4
  <2>2. Before(j) \subseteq Before(k)
    <3>1. ASSUME NEW x \in found, x < j PROVE x < k
      <4>1. x \in Nat
        BY <1>4
      <4>2. QED
        BY <1>6, <2>1, <3>1, <4>1
    <3>2. QED
      BY <3>1
  <2>3. Cardinality(Before(j)) <= Cardinality(Before(k))
    <3>1. IsFiniteSet(Before(k))
      BY <1>4, <2>1
    <3> HIDE DEF Before
    <3>2. QED
      BY <2>2, <3>1, FS_Subset
  <2>4. Cardinality(Before(k)) < n /\ Cardinality(Before(k)) \in Nat /\ Cardinality(Before(j)) \in Nat
    BY <1>2, <1>4, <2>1
  <2> HIDE DEF Before
  <2>5. Cardinality(Before(j)) < n
    BY <2>3, <2>4
  <2>6. QED
    BY <1>2, <2>5
<1>7. ASSUME NEW k \in found \ deps PROVE Cardinality(Before(k)) >= n
  <2>1. Cardinality(Before(k)) \in Nat /\ ~(Cardinality(Before(k)) < n)
    BY <1>2, <1>4
  <2> HIDE DEF Before
  <2>2. QED
    BY <2>1
<1>8. QED
  BY <1>1, <1>3, <1>5, <1>6, <1>7 DEF found, deps

-----------------------------------------------------------------------------
(* The inductive invariant.                                                *)

\* Once built, the graph is one of the feed's; until a delay changes, the impacts
\* are those of the delays as they are, and so is the outcome.
DetectorInv ==
  /\ feed \in Feeds /\ delays \in [RtIds -> TrainDelays \cup {NoState}]
  /\ stage # "down" => BuiltFrom(graph, feed)
  /\ stage \in {"evaluated", "finalized"} =>
       arrival \in Arrivals /\ (~moved => impacts = Impacts(graph, delays, arrival))
  /\ stage = "finalized" => impact \in Broken /\ boarded = RealizedTrain(graph, delays, impact)

\* Initially nothing is built.
LEMMA DetectorStarts == TransferInit => DetectorInv
BY DEF TransferInit, DetectorInv

\* Every step keeps the invariant.
LEMMA DetectorStep ==
  DetectorInv /\ [TransferNext]_transferVars => DetectorInv'
<1> SUFFICES ASSUME DetectorInv, [TransferNext]_transferVars PROVE DetectorInv'
  OBVIOUS
<1> USE DEF DetectorInv
<1>1. CASE Load
  BY <1>1 DEF Load, BuiltFrom
<1>2. CASE EvaluateDelay
  <2>1. graph' = graph /\ feed' = feed /\ stage = "ready" /\ stage' = "evaluated"
        /\ arrival' \in Arrivals /\ delays' \in [RtIds -> TrainDelays \cup {NoState}]
        /\ impacts' = Impacts(graph, delays', arrival')
    BY <1>2 DEF EvaluateDelay
  <2>2. BuiltFrom(graph, feed)'
    BY <2>1 DEF BuiltFrom
  <2>3. QED
    BY <2>1, <2>2
<1>3. CASE TrainObserved
  <2>1. /\ feed' = feed /\ graph' = graph /\ stage' = stage /\ arrival' = arrival
        /\ stage = "evaluated" /\ moved' = TRUE
    BY <1>3 DEF TrainObserved
  <2>2. delays' \in [RtIds -> TrainDelays \cup {NoState}]
    BY <1>3 DEF TrainObserved
  <2>3. BuiltFrom(graph, feed)'
    BY <2>1 DEF BuiltFrom
  <2>4. QED
    BY <2>1, <2>2, <2>3
<1>4. CASE Finalize
  <2>1. /\ feed' = feed /\ graph' = graph /\ delays' = delays /\ arrival' = arrival
        /\ impacts' = impacts /\ moved' = moved /\ stage = "evaluated" /\ stage' = "finalized"
        /\ impact' \in Broken /\ boarded' = RealizedTrain(graph, delays, impact')
    BY <1>4 DEF Finalize
  <2>2. BuiltFrom(graph, feed)' /\ Broken' = Broken
    BY <2>1 DEF BuiltFrom, Broken
  <2>3. QED
    BY <2>1, <2>2
<1>5. CASE UNCHANGED transferVars
  <2>1. /\ feed' = feed /\ graph' = graph /\ delays' = delays /\ arrival' = arrival
        /\ impacts' = impacts /\ moved' = moved /\ stage' = stage
        /\ impact' = impact /\ boarded' = boarded
    BY <1>5 DEF transferVars
  <2>2. (BuiltFrom(graph, feed)' <=> BuiltFrom(graph, feed)) /\ Broken' = Broken
    BY <2>1 DEF BuiltFrom, Broken
  <2>3. QED
    BY <2>1, <2>2
<1>6. QED
  BY <1>1, <1>2, <1>3, <1>4, <1>5, Zenon DEF TransferNext

\* The invariant holds of every behaviour.
LEMMA DetectorInvariant == TransferSpec => []DetectorInv
BY DetectorStarts, DetectorStep, PTL DEF TransferSpec

-----------------------------------------------------------------------------
(* The detector's verdicts.                                                *)

\* A verdict, taken apart.
Verdict(g, known, ev, x, route, i) ==
  LET rows  == StopTimesAt(g, x.to)
      deps  == GetNextDepartures(g, x.to, route, i.frame + i.min, 3)
      conn  == rows[Min(deps)]
      later == GetNextDepartures(g, x.to, route, i.catch, 1)
      next  == rows[Min(later)]
  IN /\ i.to = x.to /\ i.route = route /\ i.min = MinTime(x)
     /\ i.frame = EffectiveTod(g, x.to, route, ArrivalTod(ev))
     /\ deps # {} /\ i.conn = conn.trip /\ i.connDep = conn.dep
     /\ i.catch = i.frame + ev.delay + i.min
     /\ i.level = "broken" <=> Remaining(g, known, conn, i.frame, ev, x.to) < i.min
     /\ ~(Remaining(g, known, conn, i.frame, ev, x.to) >= i.min + AtRiskBuffer)
     /\ i.level = "broken" /\ i.viable # NoTrip =>
          later # {} /\ i.viable = next.trip /\ i.wait = Max({0, next.dep - conn.dep})

\* EvaluateDelay reaches no other.
LEMMA JudgedIs ==
  ASSUME NEW g, NEW known, NEW ev, NEW x, NEW route, NEW i \in Judged(g, known, ev, x, route)
  PROVE  Verdict(g, known, ev, x, route, i)
BY DEF Judged, Verdict, LevelOf, EarliestCatch

\* What a delay is, as the detector and the evaluator read it.
LEMMA DelayInt ==
  ASSUME NEW g, NEW known \in [RtIds -> TrainDelays \cup {NoState}], NEW trip, NEW station
  PROVE  /\ DelayAt(g, known, trip, station) \in TrainDelays \cup {0}
         /\ DelayAt(g, known, trip, station) \in Int
<1>1. ASSUME trip \in RtIds, known[trip] # NoState PROVE known[trip] \in TrainDelays
  BY <1>1
<1>2. DelayAt(g, known, trip, station) \in TrainDelays \cup {0}
  BY <1>1 DEF DelayAt
<1>3. \A d \in TrainDelays \cup {0} : d \in Int
  BY TransferAssumption
<1>4. QED
  BY <1>2, <1>3, Zenon

\* A time of day is in one of its frames.
LEMMA FrameOf ==
  ASSUME NEW g, NEW station, NEW route, NEW ev \in Arrivals
  PROVE  /\ EffectiveTod(g, station, route, ArrivalTod(ev)) \in Frames(ArrivalTod(ev))
         /\ Frames(ArrivalTod(ev)) \subseteq Nat /\ ev.delay \in Int
<1>1. ArrivalTod(ev) \in Nat /\ ev.delay \in Int
  BY TransferAssumption, GraphAssumption DEF ArrivalTod
<1>2. Frames(ArrivalTod(ev)) \subseteq Nat
  BY <1>1, GraphAssumption DEF Frames
<1>3. EffectiveTod(g, station, route, ArrivalTod(ev)) \in Frames(ArrivalTod(ev))
  BY DEF EffectiveTod, Frames
<1>4. QED
  BY <1>1, <1>2, <1>3

\* The minimum time of a transfer of the graph.
LEMMA TransferTimed ==
  ASSUME NEW f \in Feeds, NEW g, BuiltFrom(g, f), NEW stop, NEW x \in GetTransfersFrom(g, stop)
  PROVE  MinTime(x) \in Nat \ {0}
<1>1. g.transfers = TransfersFrom(f)
  BY DEF BuiltFrom, BuildGraph
<1>2. x \in TransfersFrom(f)
  BY <1>1 DEF GetTransfersFrom
<1>3. x.min \in Int
  BY <1>2, TransferAssumption DEF TransfersFrom, Readable
<1>4. QED
  BY <1>3, TransferAssumption DEF MinTime

\* What an impact reports: the first departure of its route that a passenger on time
\* catches, whether a delayed one does, and what follows if not.
Report(g, known, ev, i) ==
  LET rows == StopTimesAt(g, i.to)
      upcoming == Upcoming(g, i.to, i.route, i.frame + i.min)
      later == GetNextDepartures(g, i.to, i.route, i.catch, 1)
  IN /\ i.frame \in Nat /\ i.frame \in Frames(ArrivalTod(ev)) /\ i.min \in Nat \ {0}
     /\ ev.delay \in Int /\ ev.delay > 0 /\ i.catch = i.frame + ev.delay + i.min
     /\ \E x \in GetTransfersFrom(g, ev.stop) : i.to = x.to /\ i.min = MinTime(x)
     /\ i.route \in GetRoutesAtStop(g, i.to) \ {ev.route}
     /\ \E k \in upcoming : /\ \A j \in upcoming : k <= j
                            /\ i.conn = rows[k].trip /\ i.connDep = rows[k].dep
     /\ i.level = "broken" <=>
          i.connDep - i.frame - ev.delay + DelayAt(g, known, i.conn, i.to) < i.min
     /\ ~(i.connDep - i.frame - ev.delay + DelayAt(g, known, i.conn, i.to) >= i.min + AtRiskBuffer)
     /\ i.level = "broken" /\ i.viable # NoTrip =>
          /\ later # {} /\ i.viable = rows[Min(later)].trip
          /\ i.wait = Max({0, rows[Min(later)].dep - i.connDep})

\* Every impact of EvaluateDelay is one.
LEMMA Reported ==
  ASSUME NEW f \in Feeds, NEW g, BuiltFrom(g, f),
         NEW known \in [RtIds -> TrainDelays \cup {NoState}], NEW ev \in Arrivals,
         NEW i \in Impacts(g, known, ev)
  PROVE  Report(g, known, ev, i)
<1>1. ev.delay \in Int /\ ev.delay > 0
  BY TransferAssumption DEF Impacts
<1>2. PICK x \in GetTransfersFrom(g, ev.stop) :
        \E route \in GetRoutesAtStop(g, x.to) \ {ev.route} : i \in Judged(g, known, ev, x, route)
  BY DEF Impacts
<1>3. PICK route \in GetRoutesAtStop(g, x.to) \ {ev.route} : i \in Judged(g, known, ev, x, route)
  BY <1>2
<1> DEFINE rows == StopTimesAt(g, x.to)
           upcoming == Upcoming(g, x.to, route, i.frame + i.min)
           deps == GetNextDepartures(g, x.to, route, i.frame + i.min, 3)
           k == Min(deps)
<1>4. Verdict(g, known, ev, x, route, i)
  BY <1>3, JudgedIs
<1>5. /\ i.to = x.to /\ i.route = route /\ i.min = MinTime(x)
      /\ i.frame = EffectiveTod(g, x.to, route, ArrivalTod(ev))
      /\ deps # {} /\ i.conn = rows[k].trip /\ i.connDep = rows[k].dep
      /\ i.catch = i.frame + ev.delay + i.min
      /\ i.level = "broken" <=> Remaining(g, known, rows[k], i.frame, ev, x.to) < i.min
      /\ ~(Remaining(g, known, rows[k], i.frame, ev, x.to) >= i.min + AtRiskBuffer)
      /\ LET later == GetNextDepartures(g, x.to, route, i.catch, 1)
         IN i.level = "broken" /\ i.viable # NoTrip =>
              /\ later # {} /\ i.viable = rows[Min(later)].trip
              /\ i.wait = Max({0, rows[Min(later)].dep - rows[k].dep})
  BY <1>4, Zenon DEF Verdict
<1>6. i.frame \in Nat /\ i.frame \in Frames(ArrivalTod(ev))
  BY <1>5, FrameOf
<1>7. i.min \in Nat \ {0}
  BY <1>2, <1>5, TransferTimed
<1>8. k \in upcoming /\ \A j \in upcoming : k <= j
  <2>1. PICK m \in Nat : DOMAIN rows = 1..m
    BY TimetableLists, TransferAssumption DEF Lists
  <2>2. deps \subseteq upcoming /\ (upcoming # {} => k \in upcoming /\ \A j \in upcoming : k <= j)
    BY <2>1, NextDepartures
  <2>3. QED
    BY <2>2, <1>5
<1>9. Remaining(g, known, rows[k], i.frame, ev, x.to)
        = i.connDep - i.frame - ev.delay + DelayAt(g, known, i.conn, i.to)
  BY <1>5 DEF Remaining
<1> HIDE DEF rows, upcoming, deps, k
<1>10. QED
  BY <1>1, <1>2, <1>3, <1>5, <1>6, <1>7, <1>8, <1>9 DEF rows, upcoming, Report

-----------------------------------------------------------------------------
(* The evaluator's train.                                                  *)

\* The candidates the passenger could board, by position.
Boardable(g, known, i) ==
  {k \in GetNextDepartures(g, i.to, i.route, i.connDep, Lookahead) :
     LET r == StopTimesAt(g, i.to)[k] IN
     /\ r.dep <= i.catch + Window
     /\ Direction(g, i) \in {NoDirection, g.dir[r.trip]}
     /\ Realized(g, known, r, i.to) >= i.catch}

\* realizedWait takes the first of them.
LEMMA BoardedIs ==
  ASSUME NEW f \in Feeds, NEW g, BuiltFrom(g, f), NEW known, NEW i
  PROVE  IF Boardable(g, known, i) = {} THEN RealizedTrain(g, known, i) = NoTrip
         ELSE \E k \in Boardable(g, known, i) :
                /\ \A j \in Boardable(g, known, i) : k <= j
                /\ RealizedTrain(g, known, i) = StopTimesAt(g, i.to)[k].trip
<1> DEFINE rows == StopTimesAt(g, i.to)
           B == Boardable(g, known, i)
<1>1. RealizedTrain(g, known, i) = IF B = {} THEN NoTrip ELSE rows[Min(B)].trip
  BY DEF RealizedTrain, Boardable
<1>2. PICK m \in Nat : DOMAIN rows = 1..m
  BY TimetableLists, TransferAssumption DEF Lists
<1>3. B \in SUBSET (1..m)
  <2>1. Lookahead \in Nat \ {0}
    BY TransferAssumption
  <2>2. GetNextDepartures(g, i.to, i.route, i.connDep, Lookahead) \subseteq 1..m
    BY <1>2, <2>1, NextDepartures
  <2>3. QED
    BY <2>2 DEF Boardable
<1> HIDE DEF B
<1>4. B # {} => Min(B) \in B /\ \A j \in B : Min(B) <= j
  <2>1. IsFiniteSet(B) /\ B \in SUBSET Int
    BY <1>3, Segments
  <2>2. QED
    BY <2>1, MinIs
<1>5. QED
  BY <1>1, <1>4, Zenon DEF B

\* A trip calls at a station once.
CallsOnce(f) ==
  \A r, s \in Parsed(f) :
    r.trip = s.trip /\ Parent(f.parent, r.stop) = Parent(f.parent, s.stop) => r = s

\* Then its row in the station's list is the only one, and it is a trip.
LEMMA OneRow ==
  ASSUME NEW f \in Feeds, NEW g, BuiltFrom(g, f), NEW stop
  PROVE  LET rows == StopTimesAt(g, stop) IN
         /\ \A k \in DOMAIN rows : /\ rows[k].trip \in DOMAIN f.trips /\ rows[k].trip # NoTrip
                                  /\ rows[k].dep \in Nat
         /\ CallsOnce(f) => \A j, k \in DOMAIN rows :
              rows[j].trip = rows[k].trip => rows[j] = rows[k] /\ j = k
<1> DEFINE rows == StopTimesAt(g, stop)
           there == RowsAt(f, Date, Parent(f.parent, stop))
<1>0. Readable(f)
  BY TransferAssumption
<1>1. Lists(rows, there) /\ \A r \in there : r.dep \in Nat /\ r.trip \in DOMAIN f.trips
  BY <1>0, TimetableLists
<1>2. ASSUME NEW k \in DOMAIN rows
      PROVE  rows[k].trip \in DOMAIN f.trips /\ rows[k].trip # NoTrip /\ rows[k].dep \in Nat
  BY <1>0, <1>1, GraphAssumption DEF Lists, Readable
<1>3. ASSUME CallsOnce(f), NEW r \in there, NEW q \in there, r.trip = q.trip PROVE r = q
  <2>1. r \in Rows(f) /\ q \in Rows(f) /\ Parent(f.parent, r.stop) = Parent(f.parent, q.stop)
    BY <1>0, ActiveRowsAre DEF RowsAt
  <2>2. PICK s \in Parsed(f) : r = StopTime(s.trip, s.stop, s.arr, Leaves(s), s.seq)
    BY <1>0, <2>1, RowsParsed
  <2>3. PICK t \in Parsed(f) : q = StopTime(t.trip, t.stop, t.arr, Leaves(t), t.seq)
    BY <1>0, <2>1, RowsParsed
  <2>4. s.trip = t.trip /\ Parent(f.parent, s.stop) = Parent(f.parent, t.stop)
    BY <2>1, <2>2, <2>3, <1>3 DEF StopTime
  <2>5. s = t
    BY <2>4, <1>3 DEF CallsOnce
  <2>6. QED
    BY <2>2, <2>3, <2>5
<1>4. ASSUME CallsOnce(f), NEW j \in DOMAIN rows, NEW k \in DOMAIN rows, rows[j].trip = rows[k].trip
      PROVE  rows[j] = rows[k] /\ j = k
  BY <1>1, <1>3, <1>4 DEF Lists
<1>5. QED
  BY <1>2, <1>4

-----------------------------------------------------------------------------
(* What the detector promises.                                             *)

\* Boarding the connection takes a margin that a broken transfer has not.
LEMMA ConnectionNotBoarded ==
  ASSUME NEW f \in Feeds, CallsOnce(f), NEW g, BuiltFrom(g, f),
         NEW known \in [RtIds -> TrainDelays \cup {NoState}], NEW ev \in Arrivals,
         NEW i \in Impacts(g, known, ev), i.level = "broken"
  PROVE  RealizedTrain(g, known, i) # i.conn
<1> SUFFICES ASSUME RealizedTrain(g, known, i) = i.conn PROVE FALSE
  OBVIOUS
<1> DEFINE rows == StopTimesAt(g, i.to)
           late == DelayAt(g, known, i.conn, i.to)
<1>1. Report(g, known, ev, i)
  BY Reported
<1>2. /\ i.frame \in Nat /\ i.min \in Nat \ {0} /\ ev.delay \in Int
      /\ i.catch = i.frame + ev.delay + i.min
      /\ i.connDep - i.frame - ev.delay + late < i.min
  BY <1>1 DEF Report
<1>3. PICK k \in DOMAIN rows : i.conn = rows[k].trip /\ i.connDep = rows[k].dep
  BY <1>1 DEF Report, Upcoming
<1>4. rows[k].trip # NoTrip /\ rows[k].dep \in Nat /\ late \in Int
  BY <1>3, OneRow, DelayInt
<1>5. PICK b \in Boardable(g, known, i) : i.conn = rows[b].trip
  BY <1>3, <1>4, BoardedIs
<1>6. b \in DOMAIN rows /\ Realized(g, known, rows[b], i.to) >= i.catch
  BY <1>5 DEF Boardable, GetNextDepartures
<1>7. rows[b] = rows[k]
  <2>1. \A j, h \in DOMAIN rows : rows[j].trip = rows[h].trip => rows[j] = rows[h]
    BY OneRow
  <2>2. QED
    BY <1>3, <1>5, <1>6, <2>1
<1>8. Realized(g, known, rows[b], i.to) = i.connDep + late
  BY <1>3, <1>7 DEF Realized
<1> HIDE DEF late
<1>9. i.connDep \in Nat /\ late \in Int
  BY <1>3, <1>4
<1>10. i.connDep + late >= i.frame + ev.delay + i.min
  BY <1>2, <1>6, <1>8
<1>11. QED
  BY <1>2, <1>9, <1>10

\* MissedNotBoarded (detector.go:107-122, evaluator.go:313-326): with the delays the
\* detector saw, the evaluator never finds the passenger of a broken transfer on the
\* train that was missed, when a trip calls at a station once.
THEOREM MissedIsNotBoarded ==
  ASSUME \A f \in Feeds : CallsOnce(f)
  PROVE  TransferSpec => []MissedNotBoarded
<1>1. DetectorInv => MissedNotBoarded
  <2>1. SUFFICES ASSUME DetectorInv, stage = "finalized", ~moved
                 PROVE  boarded # impact.conn
    BY DEF MissedNotBoarded
  <2>2. /\ feed \in Feeds /\ BuiltFrom(graph, feed) /\ arrival \in Arrivals
        /\ delays \in [RtIds -> TrainDelays \cup {NoState}]
        /\ impact \in Impacts(graph, delays, arrival) /\ impact.level = "broken"
        /\ boarded = RealizedTrain(graph, delays, impact)
    BY <2>1 DEF DetectorInv, Broken
  <2>3. QED
    BY <2>2, ConnectionNotBoarded
<1>2. QED
  BY <1>1, DetectorInvariant, PTL

\* No station is a platform of another.
StationsOnTop(f) ==
  \A s \in DOMAIN f.parent :
    f.parent[s] \in DOMAIN f.parent => f.parent[f.parent[s]] = NoStop

\* Then a station is its own.
LEMMA ParentOfParent ==
  ASSUME NEW f, StationsOnTop(f), NEW stop
  PROVE  Parent(f.parent, Parent(f.parent, stop)) = Parent(f.parent, stop)
BY DEF StationsOnTop, Parent

\* The graph's transfers from a stop are those the feed lists.
LEMMA TransfersListed ==
  ASSUME feed \in Feeds, BuiltFrom(graph, feed), StationsOnTop(feed)
  PROVE  /\ \A x \in GetTransfersFrom(graph, arrival.stop) :
              /\ [to |-> x.to, min |-> MinTime(x)] \in ListedTransfers
              /\ Parent(feed.parent, x.to) = x.to
         /\ \A x \in ListedTransfers : \E y \in GetTransfersFrom(graph, arrival.stop) :
              y.to = x.to /\ MinTime(y) = x.min
<1> DEFINE Listed == {y \in feed.transfers : y.type # 3}
           Row(y) == [from |-> Parent(feed.parent, y.from), to |-> Parent(feed.parent, y.to),
                      min |-> y.min]
<1>1. graph.transfers = {Row(y) : y \in Listed} /\ graph.parent = feed.parent
  BY DEF BuiltFrom, BuildGraph, TransfersFrom
<1>2. \A y \in Listed : y.min \in Int
  BY TransferAssumption DEF Readable
<1>3. \A y \in Listed : MinTime(Row(y)) = IF y.min > 0 THEN y.min ELSE DefaultMin
  BY <1>2 DEF MinTime
<1>4. Station(graph, arrival.stop) = Parent(feed.parent, arrival.stop)
  BY <1>1 DEF Station
<1>5. ASSUME NEW x \in GetTransfersFrom(graph, arrival.stop)
      PROVE  /\ [to |-> x.to, min |-> MinTime(x)] \in ListedTransfers
             /\ Parent(feed.parent, x.to) = x.to
  <2>1. PICK y \in Listed : x = Row(y) /\ x.from = Station(graph, arrival.stop)
    BY <1>1 DEF GetTransfersFrom
  <2>2. Parent(feed.parent, y.from) = Parent(feed.parent, arrival.stop)
    BY <1>4, <2>1
  <2>3. [to |-> x.to, min |-> MinTime(x)]
          = [to |-> Parent(feed.parent, y.to), min |-> IF y.min > 0 THEN y.min ELSE DefaultMin]
    BY <1>3, <2>1
  <2>4. QED
    BY <2>1, <2>2, <2>3, ParentOfParent DEF ListedTransfers
<1>6. ASSUME NEW x \in ListedTransfers
      PROVE  \E y \in GetTransfersFrom(graph, arrival.stop) : y.to = x.to /\ MinTime(y) = x.min
  <2>1. PICK y \in Listed :
          /\ Parent(feed.parent, y.from) = Parent(feed.parent, arrival.stop)
          /\ x = [to |-> Parent(feed.parent, y.to), min |-> IF y.min > 0 THEN y.min ELSE DefaultMin]
    BY DEF ListedTransfers
  <2>2. Row(y) \in GetTransfersFrom(graph, arrival.stop)
    BY <1>1, <1>4, <2>1 DEF GetTransfersFrom
  <2>3. QED
    BY <1>3, <2>1, <2>2
<1>7. QED
  BY <1>5, <1>6

\* A station's list is what the feed lists for it.
LEMMA ListsListed ==
  ASSUME NEW f \in Feeds, NEW g, BuiltFrom(g, f), NEW stop, Parent(f.parent, stop) = stop, NEW route
  PROVE  LET rows == StopTimesAt(g, stop)
             own  == {k \in DOMAIN rows : g.route[rows[k].trip] = route}
         IN /\ ListedDepartures(f, Date, stop, route) =
                 {[trip |-> rows[k].trip, dep |-> rows[k].dep] : k \in own}
            /\ route \in GetRoutesAtStop(g, stop) <=>
                 /\ ListedDepartures(f, Date, stop, route) # {}
                 /\ route \in {f.trips[t].route : t \in DOMAIN f.trips}
<1> DEFINE rows == StopTimesAt(g, stop)
           there == RowsAt(f, Date, stop)
           own == {k \in DOMAIN rows : g.route[rows[k].trip] = route}
<1>0. Readable(f)
  BY TransferAssumption
<1>1. /\ Lists(rows, there) /\ GetRoutesAtStop(g, stop) = {f.trips[r.trip].route : r \in there}
      /\ \A r \in there : r.trip \in DOMAIN f.trips /\ g.route[r.trip] = f.trips[r.trip].route
  BY <1>0, TimetableLists
<1>2. ListedDepartures(f, Date, stop, route) =
        {[trip |-> r.trip, dep |-> r.dep] : r \in {q \in there : f.trips[q.trip].route = route}}
  BY <1>0, ListedAre
<1> HIDE DEF rows, there
<1>3. ListedDepartures(f, Date, stop, route) = {[trip |-> rows[k].trip, dep |-> rows[k].dep] : k \in own}
  BY <1>1, <1>2 DEF Lists
<1>4. route \in GetRoutesAtStop(g, stop) <=>
        /\ ListedDepartures(f, Date, stop, route) # {}
        /\ route \in {f.trips[t].route : t \in DOMAIN f.trips}
  BY <1>1, <1>2
<1>5. QED
  BY <1>3, <1>4 DEF rows

\* A trip in a station's list has a row there, so that the delay read for it is the
\* one stored.
LEMMA DelayIsStored ==
  ASSUME feed \in Feeds, BuiltFrom(graph, feed), NEW stop, NEW k \in DOMAIN StopTimesAt(graph, stop)
  PROVE  DelayAt(graph, delays, StopTimesAt(graph, stop)[k].trip, stop)
           = Stored(StopTimesAt(graph, stop)[k].trip)
<1> DEFINE r == StopTimesAt(graph, stop)[k]
           active == ActiveRows(feed, Date)
           own == {q \in active : q.trip = r.trip}
           seq == [q \in own |-> q.seq]
           calls == graph.byTrip[r.trip]
           nearby == {j \in DOMAIN calls : Station(graph, calls[j].stop) = Station(graph, stop)}
<1>0. Readable(feed)
  BY TransferAssumption
<1>1. /\ r \in active /\ Parent(feed.parent, r.stop) = Parent(feed.parent, stop)
      /\ Station(graph, stop) = Parent(feed.parent, stop)
  BY <1>0, TimetableLists DEF Lists, RowsAt
<1>2. /\ graph.parent = feed.parent /\ r.trip \in DOMAIN graph.byTrip
      /\ calls = SortedBy(own, seq)
  <2>1. PICK byStop \in StopOrders(feed, Date) : graph = BuildGraph(feed, Date, byStop)
    BY DEF BuiltFrom
  <2>2. /\ graph.parent = feed.parent
        /\ graph.byTrip = [t \in {q.trip : q \in active} |-> TripRows(active, t)]
    BY <2>1 DEF BuildGraph
  <2> HIDE DEF r, active
  <2>3. r.trip \in DOMAIN graph.byTrip /\ calls = TripRows(active, r.trip)
    BY <1>1, <2>2
  <2>4. QED
    BY <2>2, <2>3 DEF TripRows
<1>3. IsFiniteSet(own) /\ \A q \in own : seq[q] \in Int
  <2>1. own \subseteq Rows(feed)
    BY DEF ActiveRows
  <2>2. ASSUME NEW q \in own PROVE seq[q] \in Int
    <3>1. PICK s \in Parsed(feed) : q = StopTime(s.trip, s.stop, s.arr, Leaves(s), s.seq)
      BY <1>0, <2>1, RowsParsed
    <3>2. s.seq \in Nat
      BY <1>0 DEF Parsed, Readable
    <3>3. q.seq = s.seq
      BY <3>1 DEF StopTime
    <3>4. QED
      BY <3>2, <3>3
  <2>3. QED
    BY <1>0, <2>1, <2>2, RowsParsed, FS_Subset
<1>4. r \in own
  BY <1>1
<1> HIDE DEF r, own, seq, active, calls
<1>5. PICK n \in Nat : calls \in [1..n -> own] /\ \E j \in 1..n : calls[j] = r
  BY <1>2, <1>3, <1>4, SortedIs
<1>6. nearby # {}
  BY <1>1, <1>2, <1>5 DEF Station
<1>7. ResolveTripID(graph, r.trip) = r.trip /\ r.trip # NoTrip
  <2>1. r.trip # NoTrip
    BY OneRow DEF r
  <2>2. QED
    BY <1>2, <2>1 DEF ResolveTripID
<1>8. GetScheduledStopTime(graph, r.trip, stop) # {}
  BY <1>6, <1>7 DEF GetScheduledStopTime, calls
<1>9. DelayAt(graph, delays, r.trip, stop) = Stored(r.trip)
  BY <1>8 DEF DelayAt, Stored
<1>10. QED
  BY <1>9 DEF r

\* What a passenger on time catches are the rows of a station's list from some
\* time on, and the first of them the earliest.
LEMMA CatchableRows ==
  ASSUME feed \in Feeds, BuiltFrom(graph, feed),
         NEW station, Parent(feed.parent, station) = station,
         NEW route, NEW min \in Nat, NEW f \in Nat
  PROVE  LET rows == StopTimesAt(graph, station)
             upcoming == Upcoming(graph, station, route, f + min)
         IN /\ Catchable(station, route, min, f) =
                 {[trip |-> rows[h].trip, dep |-> rows[h].dep] : h \in upcoming}
            /\ \A k \in upcoming : (\A j \in upcoming : k <= j) =>
                 [trip |-> rows[k].trip, dep |-> rows[k].dep] \in Firsts(station, route, min, f)
<1> DEFINE rows == StopTimesAt(graph, station)
           upcoming == Upcoming(graph, station, route, f + min)
           own == {h \in DOMAIN rows : graph.route[rows[h].trip] = route}
           listed == ListedDepartures(feed, Date, station, route)
           tell(h) == [trip |-> rows[h].trip, dep |-> rows[h].dep]
<1>1. listed = {tell(h) : h \in own}
  BY ListsListed
<1>2. \A h : h \in upcoming <=> h \in own /\ rows[h].dep >= f + min
  BY DEF Upcoming
<1>3. PICK m \in Nat : /\ DOMAIN rows = 1..m
                       /\ \A j, h \in DOMAIN rows : j <= h => rows[j].dep <= rows[h].dep
  <2>1. Lists(rows, RowsAt(feed, Date, Parent(feed.parent, station)))
    BY TimetableLists, TransferAssumption
  <2>2. QED
    BY <2>1 DEF Lists
<1>4. \A h \in own : tell(h).dep = rows[h].dep
  OBVIOUS
<1> HIDE DEF rows, upcoming, listed, tell
<1>5. Catchable(station, route, min, f) = {tell(h) : h \in upcoming}
  BY <1>1, <1>2, <1>4 DEF Catchable, listed
<1>6. ASSUME NEW k \in upcoming, \A j \in upcoming : k <= j
      PROVE  tell(k) \in Firsts(station, route, min, f)
  <2>1. ASSUME NEW l \in Catchable(station, route, min, f) PROVE tell(k).dep <= l.dep
    <3>1. PICK h \in upcoming : l = tell(h)
      BY <1>5
    <3>2. rows[k].dep <= rows[h].dep
      BY <1>2, <1>3, <1>6
    <3>3. QED
      BY <1>2, <1>4, <3>1, <3>2
  <2>2. QED
    BY <1>5, <2>1 DEF Firsts
<1>7. QED
  BY <1>5, <1>6 DEF rows, upcoming, tell

\* What is reported is listed, and judged by the time left.
LEMMA ReportedIsListed ==
  ASSUME feed \in Feeds, BuiltFrom(graph, feed), StationsOnTop(feed),
         delays \in [RtIds -> TrainDelays \cup {NoState}], arrival \in Arrivals,
         NEW i \in Impacts(graph, delays, arrival)
  PROVE  LET conn == [trip |-> i.conn, dep |-> i.connDep] IN
         /\ i.route \in ListedRoutes(i.to) /\ [to |-> i.to, min |-> i.min] \in ListedTransfers
         /\ i.frame \in Frames(ArrivalTod(arrival))
         /\ conn \in Firsts(i.to, i.route, i.min, i.frame)
         /\ i.level = "broken" <=> TimeLeft(i.frame, conn) < i.min
         /\ TimeLeft(i.frame, conn) < i.min + AtRiskBuffer
<1> DEFINE rows == StopTimesAt(graph, i.to)
           upcoming == Upcoming(graph, i.to, i.route, i.frame + i.min)
           conn == [trip |-> i.conn, dep |-> i.connDep]
           late == DelayAt(graph, delays, i.conn, i.to)
<1>1. Report(graph, delays, arrival, i)
  BY Reported
<1>2. PICK x \in GetTransfersFrom(graph, arrival.stop) : i.to = x.to /\ i.min = MinTime(x)
  BY <1>1 DEF Report
<1>3. /\ [to |-> i.to, min |-> i.min] \in ListedTransfers
      /\ Parent(feed.parent, i.to) = i.to
  BY <1>2, TransfersListed
<1>4. PICK k \in upcoming : /\ \A j \in upcoming : k <= j
                            /\ i.conn = rows[k].trip /\ i.connDep = rows[k].dep
  BY <1>1 DEF Report
<1>5. /\ i.frame \in Frames(ArrivalTod(arrival)) /\ i.frame \in Nat /\ i.min \in Nat
      /\ arrival.delay \in Int
      /\ i.level = "broken" <=> i.connDep - i.frame - arrival.delay + late < i.min
      /\ ~(i.connDep - i.frame - arrival.delay + late >= i.min + AtRiskBuffer)
      /\ i.route \in GetRoutesAtStop(graph, i.to) \ {arrival.route}
  BY <1>1 DEF Report
<1>6. conn \in Firsts(i.to, i.route, i.min, i.frame)
  BY <1>3, <1>4, <1>5, CatchableRows
<1>7. late = Stored(i.conn) /\ late \in Int /\ i.connDep \in Nat
  BY <1>4, DelayIsStored, DelayInt, OneRow DEF Upcoming
<1>8. TimeLeft(i.frame, conn) = i.connDep + Stored(i.conn) - i.frame - arrival.delay
  BY DEF TimeLeft
<1> HIDE DEF late, conn
<1>9. /\ i.level = "broken" <=> TimeLeft(i.frame, conn) < i.min
      /\ TimeLeft(i.frame, conn) < i.min + AtRiskBuffer
  <2>1. TimeLeft(i.frame, conn) = i.connDep - i.frame - arrival.delay + late
        /\ TimeLeft(i.frame, conn) \in Int
    BY <1>5, <1>7, <1>8
  <2>2. AtRiskBuffer \in Nat
    BY TransferAssumption
  <2>3. QED
    BY <1>5, <2>1, <2>2
<1>10. i.route \in ListedRoutes(i.to)
  <2>1. /\ ListedDepartures(feed, Date, i.to, i.route) # {}
        /\ i.route \in {feed.trips[t].route : t \in DOMAIN feed.trips}
    BY <1>3, <1>5, ListsListed
  <2>2. QED
    BY <1>5, <2>1 DEF ListedRoutes
<1>11. QED
  BY <1>3, <1>5, <1>6, <1>9, <1>10 DEF conn

\* What is missed, or nearly, in every frame is reported.
LEMMA MissedIsReported ==
  ASSUME feed \in Feeds, BuiltFrom(graph, feed), StationsOnTop(feed),
         delays \in [RtIds -> TrainDelays \cup {NoState}], arrival \in Arrivals, arrival.delay > 0,
         NEW x \in ListedTransfers, NEW route \in ListedRoutes(x.to), NEW spare \in {0, AtRiskBuffer},
         \A f \in Frames(ArrivalTod(arrival)) :
           /\ Firsts(x.to, route, x.min, f) # {}
           /\ \A l \in Firsts(x.to, route, x.min, f) : TimeLeft(f, l) < x.min + spare
  PROVE  \E i \in Impacts(graph, delays, arrival) :
           /\ i.to = x.to /\ i.route = route /\ i.min = x.min
           /\ spare = 0 => i.level = "broken"
<1>1. PICK y \in GetTransfersFrom(graph, arrival.stop) : y.to = x.to /\ MinTime(y) = x.min
  BY TransfersListed
<1>2. Parent(feed.parent, x.to) = x.to /\ x.min \in Nat \ {0}
  <2>1. Parent(feed.parent, y.to) = y.to
    BY <1>1, TransfersListed
  <2>2. MinTime(y) \in Nat \ {0}
    BY <1>1, TransferTimed
  <2>3. QED
    BY <1>1, <2>1, <2>2
<1> DEFINE tod  == EffectiveTod(graph, x.to, route, ArrivalTod(arrival))
           rows == StopTimesAt(graph, x.to)
           upcoming == Upcoming(graph, x.to, route, tod + x.min)
           deps == GetNextDepartures(graph, x.to, route, tod + x.min, 3)
           k == Min(deps)
           first == [trip |-> rows[k].trip, dep |-> rows[k].dep]
           left == Remaining(graph, delays, rows[k], tod, arrival, x.to)
<1>3. tod \in Frames(ArrivalTod(arrival)) /\ tod \in Nat /\ arrival.delay \in Int
  BY FrameOf
<1>4. route \in GetRoutesAtStop(graph, x.to) \ {arrival.route}
  <2>1. /\ route # arrival.route /\ ListedDepartures(feed, Date, x.to, route) # {}
        /\ route \in {feed.trips[t].route : t \in DOMAIN feed.trips}
    BY DEF ListedRoutes
  <2>2. QED
    BY <1>2, <2>1, ListsListed
<1>5. upcoming # {}
  <2>1. Catchable(x.to, route, x.min, tod) # {}
    BY <1>3 DEF Firsts
  <2>2. QED
    BY <1>2, <1>3, <2>1, CatchableRows
<1>6. deps # {} /\ k \in upcoming /\ \A j \in upcoming : k <= j
  <2>1. PICK m \in Nat : DOMAIN rows = 1..m
    BY TimetableLists, TransferAssumption DEF Lists
  <2>2. upcoming # {} => deps # {} /\ k \in upcoming /\ \A j \in upcoming : k <= j
    BY <2>1, NextDepartures
  <2>3. QED
    BY <1>5, <2>2
<1>7. k \in DOMAIN rows
  BY <1>6 DEF Upcoming
<1>8. first \in Firsts(x.to, route, x.min, tod)
  <2> HIDE DEF k
  <2>1. QED
    BY <1>2, <1>3, <1>6, CatchableRows
<1>9. /\ left = TimeLeft(tod, first) /\ left \in Int
  <2> DEFINE late == DelayAt(graph, delays, rows[k].trip, x.to)
  <2>1. late = Stored(rows[k].trip) /\ late \in Int /\ rows[k].dep \in Nat
    BY <1>7, DelayIsStored, DelayInt, OneRow
  <2>2. left = rows[k].dep - tod - arrival.delay + late
    BY DEF Remaining
  <2>3. TimeLeft(tod, first) = rows[k].dep + Stored(rows[k].trip) - tod - arrival.delay
    BY DEF TimeLeft
  <2> HIDE DEF late, left, k, first, tod
  <2>4. QED
    BY <1>3, <2>1, <2>2, <2>3
<1>10. left < x.min + spare
  BY <1>3, <1>8, <1>9
<1> HIDE DEF left, k, first, tod, deps, upcoming, rows
<1>11. /\ ~(left >= x.min + AtRiskBuffer)
       /\ spare = 0 => left < x.min
  <2>1. AtRiskBuffer \in Nat
    BY TransferAssumption
  <2>2. QED
    BY <1>2, <1>9, <1>10, <2>1
<1>12. \E i : i \in Judged(graph, delays, arrival, y, route)
  BY <1>1, <1>6, <1>11, Zenon DEF Judged, tod, rows, deps, left, k
<1>13. PICK i : i \in Judged(graph, delays, arrival, y, route)
  BY <1>12
<1>14. /\ i.to = x.to /\ i.route = route /\ i.min = x.min
       /\ spare = 0 => i.level = "broken"
  <2>1. Verdict(graph, delays, arrival, y, route, i)
    BY <1>13, JudgedIs
  <2>2. i.to = x.to /\ i.route = route /\ i.min = x.min /\ i.frame = tod
    BY <1>1, <2>1 DEF Verdict, tod
  <2>3. i.level = "broken" <=>
          Remaining(graph, delays, rows[k], i.frame, arrival, x.to) < i.min
    BY <1>1, <2>1, <2>2, Zenon DEF Verdict, rows, deps, k
  <2>4. QED
    BY <1>11, <2>2, <2>3 DEF left
<1>15. i \in Impacts(graph, delays, arrival)
  <2>1. ~(arrival.delay <= 0)
    BY <1>3
  <2>2. route \in GetRoutesAtStop(graph, y.to) \ {arrival.route}
    BY <1>1, <1>4
  <2>3. QED
    BY <1>1, <1>13, <2>1, <2>2 DEF Impacts
<1>16. QED
  BY <1>14, <1>15

\* ImpactsMatchFeed (detector.go:53-133): what EvaluateDelay reports is a transfer the
\* feed lists, judged by the time its first connection really leaves; what leaves too
\* little time in each frame of the arrival is reported, whatever the files spell it
\* with, when no station is a platform of another.
THEOREM ImpactsFollowFeed ==
  ASSUME \A f \in Feeds : StationsOnTop(f)
  PROVE  TransferSpec => []ImpactsMatchFeed
<1>1. DetectorInv => ImpactsMatchFeed
  <2>1. SUFFICES ASSUME DetectorInv, stage = "evaluated", ~moved, arrival.delay > 0
                 PROVE  ImpactsMatchFeed
    BY DEF ImpactsMatchFeed
  <2>2. /\ feed \in Feeds /\ BuiltFrom(graph, feed) /\ StationsOnTop(feed)
        /\ delays \in [RtIds -> TrainDelays \cup {NoState}]
        /\ arrival \in Arrivals /\ impacts = Impacts(graph, delays, arrival)
    BY <2>1 DEF DetectorInv
  <2>3. ASSUME NEW i \in impacts
        PROVE  LET conn == [trip |-> i.conn, dep |-> i.connDep] IN
               /\ i.route \in ListedRoutes(i.to) /\ [to |-> i.to, min |-> i.min] \in ListedTransfers
               /\ i.frame \in Frames(ArrivalTod(arrival))
               /\ conn \in Firsts(i.to, i.route, i.min, i.frame)
               /\ i.level = "broken" <=> TimeLeft(i.frame, conn) < i.min
               /\ TimeLeft(i.frame, conn) < i.min + AtRiskBuffer
    BY <2>2, ReportedIsListed
  <2>4. ASSUME NEW x \in ListedTransfers, NEW route \in ListedRoutes(x.to),
               NEW spare \in {0, AtRiskBuffer},
               \A f \in Frames(ArrivalTod(arrival)) :
                 /\ Firsts(x.to, route, x.min, f) # {}
                 /\ \A l \in Firsts(x.to, route, x.min, f) : TimeLeft(f, l) < x.min + spare
        PROVE  \E i \in impacts : /\ i.to = x.to /\ i.route = route /\ i.min = x.min
                                  /\ spare = 0 => i.level = "broken"
    BY <2>1, <2>2, <2>4, MissedIsReported
  <2>5. QED
    BY <2>1, <2>3, <2>4 DEF ImpactsMatchFeed
<1>2. QED
  BY <1>1, DetectorInvariant, PTL

-----------------------------------------------------------------------------
(* The wait.                                                               *)

\* Trains that run on time are nowhere delayed.
LEMMA OnTimeNoDelay ==
  ASSUME NEW g, NEW known, \A id \in RtIds : known[id] \in {NoState, 0}, NEW trip, NEW station
  PROVE  DelayAt(g, known, trip, station) = 0
BY DEF DelayAt

\* Distinct positions of a list tell distinct departures, when trips call once.
LEMMA PositionsTold ==
  ASSUME NEW rows, NEW J, IsFiniteSet(J),
         \A j, k \in J : rows[j].trip = rows[k].trip => j = k
  PROVE  LET told == {[trip |-> rows[j].trip, dep |-> rows[j].dep] : j \in J}
         IN IsFiniteSet(told) /\ Cardinality(told) = Cardinality(J)
<1> DEFINE tell == [j \in J |-> [trip |-> rows[j].trip, dep |-> rows[j].dep]]
           told == {[trip |-> rows[j].trip, dep |-> rows[j].dep] : j \in J}
<1>1. tell \in [J -> told]
  OBVIOUS
<1>2. \A j, k \in J : tell[j] = tell[k] => j = k
  <2>1. \A j \in J : tell[j].trip = rows[j].trip
    OBVIOUS
  <2> HIDE DEF tell
  <2>2. QED
    BY <2>1
<1>3. \A t \in told : \E j \in J : tell[j] = t
  OBVIOUS
<1> HIDE DEF tell, told
<1>4. tell \in Bijection(J, told)
  BY <1>1, <1>2, <1>3 DEF Bijection, Injection, Surjection, IsInjective
<1>5. ExistsBijection(J, told)
  BY <1>4 DEF ExistsBijection
<1>6. IsFiniteSet(told) /\ Cardinality(told) = Cardinality(J)
  BY <1>5, FS_Bijection
<1>7. QED
  BY <1>6 DEF told

\* The next viable departure of a broken transfer: the first that a passenger as late
\* as the arriving train catches, after the connection.
LEMMA ViableIs ==
  ASSUME NEW f \in Feeds, NEW g, BuiltFrom(g, f),
         NEW known, \A id \in RtIds : known[id] \in {NoState, 0},
         NEW ev, NEW i, Report(g, known, ev, i), i.level = "broken", i.viable # NoTrip
  PROVE  LET rows == StopTimesAt(g, i.to) IN
         /\ i.catch \in Int /\ i.connDep \in Nat /\ i.connDep < i.catch
         /\ \E v \in Upcoming(g, i.to, i.route, i.catch) :
              /\ \A k \in Upcoming(g, i.to, i.route, i.catch) : v <= k
              /\ i.viable = rows[v].trip
              /\ i.wait = Max({0, rows[v].dep - i.connDep})
<1> DEFINE rows == StopTimesAt(g, i.to)
           later == GetNextDepartures(g, i.to, i.route, i.catch, 1)
           found == Upcoming(g, i.to, i.route, i.catch)
<1>1. /\ i.frame \in Nat /\ i.min \in Nat \ {0} /\ ev.delay \in Int
      /\ i.catch = i.frame + ev.delay + i.min
      /\ i.connDep - i.frame - ev.delay + DelayAt(g, known, i.conn, i.to) < i.min
  BY DEF Report
<1>2. later # {} /\ i.viable = rows[Min(later)].trip /\ i.wait = Max({0, rows[Min(later)].dep - i.connDep})
  BY DEF Report
<1>3. DelayAt(g, known, i.conn, i.to) = 0
  BY OnTimeNoDelay
<1>4. i.connDep \in Nat
  <2>1. PICK k \in DOMAIN rows : i.connDep = rows[k].dep
    BY DEF Report, Upcoming
  <2>2. QED
    BY <2>1, OneRow
<1>5. i.catch \in Int /\ i.connDep < i.catch
  BY <1>1, <1>3, <1>4
<1>6. PICK m \in Nat : DOMAIN rows = 1..m
  BY TimetableLists, TransferAssumption DEF Lists
<1>7. Min(later) \in found /\ \A k \in found : Min(later) <= k
  <2>1. later \subseteq found
        /\ (found # {} => Min(later) \in found /\ \A k \in found : Min(later) <= k)
    BY <1>6, NextDepartures
  <2>2. QED
    BY <1>2, <2>1
<1>8. QED
  BY <1>2, <1>4, <1>5, <1>7

\* The evaluator boards the passenger there, unless it looks no further.
LEMMA ViableBoarded ==
  ASSUME NEW f \in Feeds, NEW g, BuiltFrom(g, f),
         NEW known, \A id \in RtIds : known[id] \in {NoState, 0},
         NEW i, i.viable # NoTrip, i.catch \in Int, i.connDep \in Nat, i.connDep < i.catch,
         NEW v \in Upcoming(g, i.to, i.route, i.catch),
         \A k \in Upcoming(g, i.to, i.route, i.catch) : v <= k,
         i.viable = StopTimesAt(g, i.to)[v].trip
  PROVE  LET rows  == StopTimesAt(g, i.to)
             found == Upcoming(g, i.to, i.route, i.connDep)
         IN /\ v \in found
            /\ IF RealizedTrain(g, known, i) # NoTrip THEN RealizedTrain(g, known, i) = i.viable
               ELSE \/ rows[v].dep > i.catch + Window
                    \/ Cardinality({j \in found : j < v}) >= Lookahead
<1> DEFINE rows == StopTimesAt(g, i.to)
           found == Upcoming(g, i.to, i.route, i.connDep)
           deps == GetNextDepartures(g, i.to, i.route, i.connDep, Lookahead)
           B == Boardable(g, known, i)
<1>1. PICK m \in Nat : /\ DOMAIN rows = 1..m
                       /\ \A h \in DOMAIN rows : rows[h].dep \in Nat /\ rows[h].trip # NoTrip
                       /\ \A j, h \in DOMAIN rows : j <= h => rows[j].dep <= rows[h].dep
  <2>1. Lists(rows, RowsAt(f, Date, Parent(f.parent, i.to)))
    BY TimetableLists, TransferAssumption
  <2>2. \A h \in DOMAIN rows : rows[h].dep \in Nat /\ rows[h].trip # NoTrip
    BY OneRow
  <2>3. QED
    BY <2>1, <2>2 DEF Lists
<1>2. v \in DOMAIN rows /\ rows[v].dep >= i.catch /\ g.route[rows[v].trip] = i.route
  BY DEF Upcoming
<1>3. v \in found
  BY <1>1, <1>2 DEF Upcoming
<1>4. /\ deps \subseteq found
      /\ \A k \in deps, j \in found : j <= k => j \in deps
      /\ \A k \in found \ deps : Cardinality({j \in found : j < k}) >= Lookahead
  BY <1>1, NextDepartures, TransferAssumption
<1>5. \A k \in DOMAIN rows : Realized(g, known, rows[k], i.to) = rows[k].dep
  <2>1. \A k \in DOMAIN rows : DelayAt(g, known, rows[k].trip, i.to) = 0
    BY OnTimeNoDelay
  <2>2. QED
    BY <1>1, <2>1 DEF Realized
<1>6. \A k : k \in B <=> /\ k \in deps /\ rows[k].dep <= i.catch + Window
                        /\ Direction(g, i) \in {NoDirection, g.dir[rows[k].trip]}
                        /\ Realized(g, known, rows[k], i.to) >= i.catch
  BY DEF Boardable
<1>7. ASSUME NEW k \in B PROVE k \in found /\ k \in DOMAIN rows /\ v <= k /\ rows[v].dep <= rows[k].dep
  <2>1. k \in found /\ k \in DOMAIN rows /\ g.route[rows[k].trip] = i.route
    BY <1>4, <1>6 DEF Upcoming
  <2>2. rows[k].dep >= i.catch
    BY <1>5, <1>6, <2>1
  <2>3. v <= k
    BY <2>1, <2>2 DEF Upcoming
  <2>4. QED
    BY <1>1, <1>2, <2>1, <2>3
<1>8. v \in deps /\ rows[v].dep <= i.catch + Window => v \in B
  <2>1. Direction(g, i) = g.dir[rows[v].trip]
    BY DEF Direction
  <2>2. QED
    BY <1>2, <1>5, <1>6, <2>1
<1>9. IF B = {} THEN RealizedTrain(g, known, i) = NoTrip
      ELSE \E k \in B : (\A j \in B : k <= j) /\ RealizedTrain(g, known, i) = rows[k].trip
  BY BoardedIs
<1> HIDE DEF rows, found, deps, B
<1>10. CASE RealizedTrain(g, known, i) # NoTrip
  <2>1. PICK k \in B : (\A j \in B : k <= j) /\ RealizedTrain(g, known, i) = rows[k].trip
    BY <1>9, <1>10
  <2>2. k \in deps /\ v <= k /\ rows[v].dep <= i.catch + Window
    <3>1. k \in deps /\ v <= k /\ rows[v].dep <= rows[k].dep /\ rows[k].dep <= i.catch + Window
          /\ k \in DOMAIN rows
      BY <1>6, <1>7, <2>1
    <3>2. rows[v].dep \in Nat /\ rows[k].dep \in Nat /\ i.catch + Window \in Int
      BY <1>1, <1>2, <3>1, TransferAssumption
    <3>3. QED
      BY <3>1, <3>2
  <2>3. v \in B
    BY <1>3, <1>4, <1>8, <2>2
  <2>4. k \in 1..m /\ v \in 1..m /\ k <= v
    BY <1>1, <1>2, <1>7, <2>1, <2>3
  <2>5. k = v
    BY <2>2, <2>4
  <2>6. QED
    BY <1>3, <1>10, <2>1, <2>5 DEF rows, found
<1>11. CASE RealizedTrain(g, known, i) = NoTrip
  <2>1. B = {}
    <3>1. \A k \in B : rows[k].trip # NoTrip
      BY <1>1, <1>7
    <3>2. QED
      BY <1>9, <1>11, <3>1
  <2>2. CASE v \in deps
    <3>1. rows[v].dep \in Nat /\ i.catch + Window \in Int /\ ~(rows[v].dep <= i.catch + Window)
      BY <1>1, <1>2, <1>8, <2>1, <2>2, TransferAssumption
    <3>2. rows[v].dep > i.catch + Window
      BY <3>1
    <3>3. QED
      BY <1>3, <1>11, <3>2 DEF rows, found
  <2>3. CASE v \notin deps
    <3>1. Cardinality({j \in found : j < v}) >= Lookahead
      BY <1>3, <1>4, <2>3
    <3>2. QED
      BY <1>3, <1>11, <3>1 DEF rows, found
  <2>4. QED
    BY <2>2, <2>3
<1>12. QED
  BY <1>10, <1>11

\* A trip that calls once leaves the station when its row says.
LEMMA DepartureIs ==
  ASSUME feed \in Feeds, BuiltFrom(graph, feed), CallsOnce(feed), NEW station,
         NEW k \in DOMAIN StopTimesAt(graph, station)
  PROVE  DepartureOf(StopTimesAt(graph, station)[k].trip, station) = StopTimesAt(graph, station)[k].dep
<1> DEFINE rows == StopTimesAt(graph, station)
<1>1. \A j \in DOMAIN rows : rows[j].trip = rows[k].trip => rows[j] = rows[k]
  BY OneRow
<1>2. ToSet(rows) = {rows[j] : j \in DOMAIN rows}
  BY DEF ToSet
<1>3. DepartureOf(rows[k].trip, station) =
        CHOOSE d \in {r.dep : r \in ToSet(rows)} :
          \E r \in ToSet(rows) : r.trip = rows[k].trip /\ r.dep = d
  BY DEF DepartureOf
<1> HIDE DEF rows
<1>4. rows[k].dep \in {r.dep : r \in ToSet(rows)}
      /\ \E r \in ToSet(rows) : r.trip = rows[k].trip /\ r.dep = rows[k].dep
  BY <1>2 DEF rows
<1>5. \A d : (\E r \in ToSet(rows) : r.trip = rows[k].trip /\ r.dep = d) => d = rows[k].dep
  BY <1>1, <1>2
<1>6. DepartureOf(rows[k].trip, station) = rows[k].dep
  BY <1>3, <1>4, <1>5
<1>7. QED
  BY <1>6 DEF rows

\* The positions up to a departure tell as many departures of the feed.
LEMMA ListedUpto ==
  ASSUME NEW f \in Feeds, NEW g, BuiltFrom(g, f), CallsOnce(f),
         NEW station, Parent(f.parent, station) = station, NEW route, NEW from \in Nat,
         NEW v \in Upcoming(g, station, route, from), NEW n \in Nat,
         Cardinality({j \in Upcoming(g, station, route, from) : j < v}) >= n
  PROVE  Cardinality({l \in ListedDepartures(f, Date, station, route) :
                        from <= l.dep /\ l.dep <= StopTimesAt(g, station)[v].dep}) > n
<1> DEFINE rows == StopTimesAt(g, station)
           found == Upcoming(g, station, route, from)
           before == {j \in found : j < v}
           J == before \cup {v}
           own == {h \in DOMAIN rows : g.route[rows[h].trip] = route}
           Told(P) == {[trip |-> rows[h].trip, dep |-> rows[h].dep] : h \in P}
           listed == ListedDepartures(f, Date, station, route)
           among == {l \in listed : from <= l.dep /\ l.dep <= rows[v].dep}
<1>1. PICK m \in Nat : /\ DOMAIN rows = 1..m
                       /\ \A h \in DOMAIN rows : rows[h].dep \in Nat
                       /\ \A j, h \in DOMAIN rows : j <= h => rows[j].dep <= rows[h].dep
                       /\ \A j, h \in DOMAIN rows : rows[j].trip = rows[h].trip => j = h
  <2>1. Lists(rows, RowsAt(f, Date, Parent(f.parent, station)))
    BY TimetableLists, TransferAssumption
  <2>2. /\ \A h \in DOMAIN rows : rows[h].dep \in Nat
        /\ \A j, h \in DOMAIN rows : rows[j].trip = rows[h].trip => j = h
    BY OneRow
  <2>3. QED
    BY <2>1, <2>2 DEF Lists
<1>2. listed = Told(own)
  BY ListsListed
<1>3. \A h : h \in found <=> h \in own /\ rows[h].dep >= from
  BY DEF Upcoming
<1>4. own \in SUBSET (1..m) /\ J \in SUBSET own
  BY <1>1, <1>3
<1>5. IsFiniteSet(own) /\ IsFiniteSet(J) /\ IsFiniteSet(before)
  <2>1. own \in SUBSET (1..m) /\ J \in SUBSET (1..m) /\ before \in SUBSET (1..m)
    BY <1>4
  <2> HIDE DEF own, J, before
  <2>2. QED
    BY <2>1, Segments
<1>6. Told(J) \subseteq among
  <2>1. ASSUME NEW j \in J PROVE from <= rows[j].dep /\ rows[j].dep <= rows[v].dep
    <3>1. j \in found /\ v \in found /\ j \in 1..m /\ v \in 1..m
      BY <1>3, <1>4
    <3>2. j <= v
      BY <3>1
    <3>3. rows[j].dep >= from /\ rows[j].dep <= rows[v].dep /\ rows[j].dep \in Nat
      BY <1>1, <1>3, <3>1, <3>2
    <3>4. QED
      BY <3>3
  <2>2. QED
    BY <1>2, <1>4, <2>1
<1>7. IsFiniteSet(listed)
  <2>1. \A j, h \in own : rows[j].trip = rows[h].trip => j = h
    BY <1>1
  <2> HIDE DEF own, rows
  <2>2. IsFiniteSet(Told(own))
    BY <1>5, <2>1, PositionsTold
  <2>3. QED
    BY <1>2, <2>2
<1>8. Cardinality(Told(J)) = Cardinality(J)
  <2>1. \A j, h \in J : rows[j].trip = rows[h].trip => j = h
    BY <1>1, <1>4
  <2> HIDE DEF J, rows
  <2>2. QED
    BY <1>5, <2>1, PositionsTold
<1>9. Cardinality(J) = Cardinality(before) + 1 /\ Cardinality(before) \in Nat
  <2>1. v \notin before
    BY <1>1, <1>3
  <2> HIDE DEF before
  <2>2. QED
    BY <1>5, <2>1, FS_AddElement, FS_CardinalityType
<1>10. Cardinality(Told(J)) <= Cardinality(among) /\ Cardinality(among) \in Nat
  <2>1. IsFiniteSet(among)
    <3>1. among \subseteq listed
      OBVIOUS
    <3> HIDE DEF among, listed
    <3>2. QED
      BY <1>7, <3>1, FS_Subset
  <2> HIDE DEF among, Told
  <2>2. QED
    BY <1>6, <2>1, FS_Subset, FS_CardinalityType
<1> HIDE DEF J, among, Told, before
<1>11. Cardinality(before) >= n
  BY DEF before
<1>12. Cardinality(among) > n
  BY <1>8, <1>9, <1>10, <1>11
<1>13. QED
  BY <1>12 DEF among

\* AnnouncedWaitRealized (detector.go:118-133, evaluator.go:296-327): the wait announced
\* is the wait realized when the connecting trains run on time, and no outcome is found
\* only beyond the horizon or the lookahead, when a trip calls at a station once and no
\* station is a platform of another.
THEOREM AnnouncedIsRealized ==
  ASSUME \A f \in Feeds : CallsOnce(f) /\ StationsOnTop(f)
  PROVE  TransferSpec => []AnnouncedWaitRealized
<1>1. DetectorInv => AnnouncedWaitRealized
  <2> SUFFICES ASSUME DetectorInv, stage = "finalized", impact.viable # NoTrip, TrainsOnTime
               PROVE  LET viableDep == DepartureOf(impact.viable, impact.to) IN
                      IF boarded # NoTrip
                      THEN DepartureOf(boarded, impact.to) - impact.connDep = impact.wait
                      ELSE \/ viableDep > impact.catch + Window
                           \/ Cardinality({l \in ListedDepartures(feed, Date, impact.to, impact.route) :
                                 impact.connDep <= l.dep /\ l.dep <= viableDep}) > Lookahead
    BY DEF AnnouncedWaitRealized
  <2> DEFINE rows == StopTimesAt(graph, impact.to)
             found == Upcoming(graph, impact.to, impact.route, impact.connDep)
  <2>1. /\ feed \in Feeds /\ BuiltFrom(graph, feed) /\ CallsOnce(feed) /\ StationsOnTop(feed)
        /\ delays \in [RtIds -> TrainDelays \cup {NoState}] /\ arrival \in Arrivals
        /\ impact \in Impacts(graph, delays, arrival) /\ impact.level = "broken"
        /\ boarded = RealizedTrain(graph, delays, impact)
        /\ \A id \in RtIds : delays[id] \in {NoState, 0}
    BY DEF DetectorInv, Broken, TrainsOnTime
  <2>2. Report(graph, delays, arrival, impact)
    BY <2>1, Reported
  <2>3. /\ impact.catch \in Int /\ impact.connDep \in Nat /\ impact.connDep < impact.catch
        /\ \E w \in Upcoming(graph, impact.to, impact.route, impact.catch) :
             /\ \A k \in Upcoming(graph, impact.to, impact.route, impact.catch) : w <= k
             /\ impact.viable = rows[w].trip
             /\ impact.wait = Max({0, rows[w].dep - impact.connDep})
    BY <2>1, <2>2, ViableIs
  <2>4. PICK v \in Upcoming(graph, impact.to, impact.route, impact.catch) :
             /\ \A k \in Upcoming(graph, impact.to, impact.route, impact.catch) : v <= k
             /\ impact.viable = rows[v].trip
             /\ impact.wait = Max({0, rows[v].dep - impact.connDep})
    BY <2>3
  <2>5. /\ v \in found
        /\ IF boarded # NoTrip THEN boarded = impact.viable
           ELSE \/ rows[v].dep > impact.catch + Window
                \/ Cardinality({j \in found : j < v}) >= Lookahead
    BY <2>1, <2>3, <2>4, ViableBoarded
  <2>6. v \in DOMAIN rows /\ rows[v].dep >= impact.catch /\ rows[v].dep \in Nat
    <3>1. v \in DOMAIN rows /\ rows[v].dep >= impact.catch
      BY <2>4 DEF Upcoming
    <3>2. QED
      BY <2>1, <3>1, OneRow
  <2>7. DepartureOf(impact.viable, impact.to) = rows[v].dep
    BY <2>1, <2>4, <2>6, DepartureIs
  <2>8. CASE boarded # NoTrip
    <3>1. DepartureOf(boarded, impact.to) = rows[v].dep
      BY <2>5, <2>7, <2>8
    <3>2. PICK w \in Int : w = rows[v].dep - impact.connDep /\ w > 0
      BY <2>3, <2>6
    <3>3. Max({0, w}) = w
      <4>1. {0, w} \in SUBSET Int /\ IsFiniteSet({0, w})
        <5>1. {0, w} \in SUBSET Int
          BY <3>2
        <5>2. IsFiniteSet({0, w})
          BY PairFinite
        <5>3. QED
          BY <5>1, <5>2
      <4>2. Max({0, w}) \in {0, w} /\ Max({0, w}) >= w
        BY <4>1, MaxIs
      <4>3. QED
        BY <3>2, <4>2
    <3>4. QED
      BY <2>4, <2>8, <3>1, <3>2, <3>3
  <2>9. CASE boarded = NoTrip
    <3>1. CASE rows[v].dep > impact.catch + Window
      BY <2>7, <2>9, <3>1
    <3>2. CASE Cardinality({j \in found : j < v}) >= Lookahead
      <4>1. Parent(feed.parent, impact.to) = impact.to
        <5>1. \E x \in GetTransfersFrom(graph, arrival.stop) : impact.to = x.to
          BY <2>2 DEF Report
        <5>2. QED
          BY <2>1, <5>1, TransfersListed
      <4>2. Lookahead \in Nat
        BY TransferAssumption
      <4>3. Cardinality({l \in ListedDepartures(feed, Date, impact.to, impact.route) :
                           impact.connDep <= l.dep /\ l.dep <= rows[v].dep}) > Lookahead
        BY <2>1, <2>3, <2>5, <3>2, <4>1, <4>2, ListedUpto
      <4>4. QED
        BY <2>7, <2>9, <4>3
    <3>3. QED
      BY <2>5, <2>9, <3>1, <3>2
  <2>10. QED
    BY <2>8, <2>9
<1>2. QED
  BY <1>1, DetectorInvariant, PTL

-----------------------------------------------------------------------------
(* Trip ids.                                                               *)

Tails == {RtTail[t] : t \in DOMAIN RtTail}
Owners(trips, id) == {t \in trips : RtTail[t] = id}
Indices == [Tails -> DOMAIN RtTail \cup {NoTrip, Ambiguous}]

\* An index that tells whether an id is the tail of no trip, of one or of several.
Tells(index, trips, id) ==
  /\ Owners(trips, id) = {} => index[id] = NoTrip
  /\ \A t : Owners(trips, id) = {t} => index[id] = t
  /\ \A t, u \in Owners(trips, id) : t # u => index[id] = Ambiguous

\* One more trip.
LEMMA IndexedTells ==
  ASSUME NEW trips \in SUBSET (DOMAIN RtTail), NEW id \in Tails \ {NoId},
         NEW index \in Indices, NEW t \in trips, Tells(index, trips \ {t}, id)
  PROVE  Indexed(t, index) \in Indices /\ Tells(Indexed(t, index), trips, id)
<1> DEFINE old == Owners(trips \ {t}, id)
           new == Owners(trips, id)
<1>1. Indexed(t, index) \in Indices
  BY DEF Indexed, Indices, Tails
<1>2. CASE RtTail[t] # id
  <2>1. new = old
    BY <1>2 DEF Owners
  <2>2. Indexed(t, index)[id] = index[id]
    BY <1>2 DEF Indexed, Indices, Tails
  <2>3. QED
    BY <1>1, <2>1, <2>2 DEF Tells
<1>3. CASE RtTail[t] = id
  <2>1. new = old \cup {t} /\ t \notin old
    BY <1>3 DEF Owners
  <2>2. Indexed(t, index)[id] = IF index[id] = NoTrip THEN t ELSE Ambiguous
    BY <1>3 DEF Indexed, Indices, Tails
  <2>3. CASE old = {}
    <3>1. Indexed(t, index)[id] = t
      BY <2>2, <2>3 DEF Tells
    <3>2. new = {t}
      BY <2>1, <2>3
    <3>3. QED
      BY <1>1, <3>1, <3>2 DEF Tells
  <2>4. CASE old # {}
    <3>1. PICK u \in old : TRUE
      BY <2>4
    <3>2. index[id] # NoTrip
      <4>1. CASE old = {u}
        <5>1. index[id] = u /\ u \in DOMAIN RtTail
          BY <4>1 DEF Tells, Owners
        <5>2. QED
          BY <5>1, GraphAssumption
      <4>2. CASE old # {u}
        <5>1. PICK v \in old : v # u
          BY <3>1, <4>2
        <5>2. index[id] = Ambiguous
          BY <5>1, <3>1 DEF Tells
        <5>3. QED
          BY <5>2, GraphAssumption
      <4>3. QED
        BY <4>1, <4>2
    <3>3. Indexed(t, index)[id] = Ambiguous
      BY <2>2, <3>2
    <3>4. u \in new /\ t \in new /\ u # t
      BY <2>1, <3>1
    <3>5. QED
      BY <1>1, <3>3, <3>4 DEF Tells
  <2>5. QED
    BY <2>3, <2>4
<1>4. QED
  BY <1>2, <1>3

\* The index of BuildGraph tells it of every id, in whatever order it takes the trips.
LEMMA SuffixTells ==
  ASSUME NEW trips \in SUBSET (DOMAIN RtTail), IsFiniteSet(trips), NEW id \in Tails \ {NoId}
  PROVE  TripSuffix(trips) \in Indices /\ Tells(TripSuffix(trips), trips, id)
<1> DEFINE base == [d \in Tails |-> NoTrip]
           Is(g) == g = [s \in SUBSET trips |-> IF s = {} THEN base
                           ELSE Indexed(CHOOSE x \in s : TRUE, g[s \ {CHOOSE x \in s : TRUE}])]
<1>0. base \in Indices
  BY DEF Indices
<1>1. TripSuffix(trips) = (CHOOSE g : Is(g))[trips]
  BY DEF TripSuffix, FoldSet, MapThenFoldSet, Tails
<1>2. \E g : Is(g)
  <2> DEFINE op == [t \in trips |-> [a \in Indices |-> Indexed(t, a)]]
             c == [s \in SUBSET trips |-> Pick(s)]
  <2>1. op \in [trips -> [Indices -> Indices]]
    <3>1. ASSUME NEW t \in trips, NEW a \in Indices PROVE Indexed(t, a) \in Indices
      BY DEF Indexed, Indices, Tails
    <3>2. QED
      BY <3>1
  <2>2. \A s \in SUBSET trips : s # {} => Pick(s) \in s /\ c[s] = Pick(s)
    BY DEF Pick
  <2>0. \A s \in SUBSET trips : s # {} => c[s] \in s
    BY <2>2
  <2> HIDE DEF op, c, base
  <2>3. /\ FoldOf(op, base, c, trips, Indices) \in [SUBSET trips -> Indices]
        /\ Folds(FoldOf(op, base, c, trips, Indices), op, base, c, trips)
    BY <1>0, <2>1, <2>0, FoldExists
  <2> DEFINE g == FoldOf(op, base, c, trips, Indices)
  <2> HIDE DEF g
  <2>4. ASSUME NEW s \in SUBSET trips, s # {}
        PROVE  op[c[s]][g[s \ {c[s]}]]
                 = Indexed(CHOOSE x \in s : TRUE, g[s \ {CHOOSE x \in s : TRUE}])
    <3>1. c[s] = Pick(s) /\ Pick(s) \in trips /\ g[s \ {Pick(s)}] \in Indices
      BY <2>2, <2>3, <2>4 DEF g
    <3>2. op[c[s]][g[s \ {c[s]}]] = Indexed(Pick(s), g[s \ {Pick(s)}])
      BY <3>1 DEF op
    <3>3. QED
      BY <3>2 DEF Pick
  <2>5. Is(g)
    BY <2>3, <2>4 DEF Folds, g
  <2>6. QED
    BY <2>5
<1>3. PICK g : Is(g) /\ TripSuffix(trips) = g[trips]
  BY <1>1, <1>2
<1> DEFINE Good(s) == g[s] \in Indices /\ Tells(g[s], s, id)
           H == {n \in Nat : \A s \in SUBSET trips : Cardinality(s) = n => Good(s)}
<1>4. 0 \in H
  <2>1. ASSUME NEW s \in SUBSET trips, Cardinality(s) = 0 PROVE Good(s)
    <3>1. s = {}
      BY <2>1, FS_Subset, FS_EmptySet
    <3>2. g[s] = base
      BY <3>1, <1>3
    <3>3. Owners(s, id) = {}
      BY <3>1 DEF Owners
    <3>4. QED
      BY <1>0, <3>2, <3>3 DEF Tells
  <2>2. QED
    BY <2>1
<1>5. ASSUME NEW n \in H PROVE n + 1 \in H
  <2>0. n \in Nat
    OBVIOUS
  <2>1. ASSUME NEW s \in SUBSET trips, Cardinality(s) = n + 1 PROVE Good(s)
    <3> DEFINE t == CHOOSE x \in s : TRUE
    <3>1. s # {} /\ IsFiniteSet(s)
      BY <2>1, <2>0, FS_Subset, FS_EmptySet
    <3>2. t \in s
      BY <3>1
    <3>3. Cardinality(s \ {t}) = n
      <4>1. Cardinality(s \ {t}) = Cardinality(s) - 1
        BY <3>1, <3>2, FS_RemoveElement
      <4>2. QED
        BY <4>1, <2>1, <2>0
    <3>4. Good(s \ {t})
      BY <3>3
    <3>5. g[s] = Indexed(t, g[s \ {t}])
      BY <3>1, <1>3
    <3> HIDE DEF t
    <3>6. QED
      BY <3>2, <3>4, <3>5, IndexedTells
  <2>2. QED
    BY <2>0, <2>1
<1> HIDE DEF H
<1>6. H = Nat
  <2>1. H \in SUBSET Nat
    BY DEF H
  <2>2. QED
    BY <1>4, <1>5, <2>1, InductionOnSet
<1>7. Cardinality(trips) \in H
  BY <1>6, FS_CardinalityType
<1>8. QED
  BY <1>3, <1>7 DEF H

\* ResolveTripID finds what the index tells.
LEMMA ResolvesTails ==
  ASSUME NEW f \in Feeds, NEW g, BuiltFrom(g, f)
  PROVE  TailsResolve(g, f, Date)
<1> DEFINE trips == RunningTrips(f, Date)
<1>0. Readable(f)
  BY TransferAssumption
<1>1. trips = {r.trip : r \in ActiveRows(f, Date)}
  BY <1>0, ActiveRowsAre
<1>2. g.suffix = TripSuffix(trips) /\ DOMAIN g.byTrip = trips
  BY <1>1 DEF BuiltFrom, BuildGraph
<1>3. IsFiniteSet(trips) /\ trips \in SUBSET (DOMAIN RtTail)
  <2>1. IsFiniteSet(ActiveRows(f, Date))
    <3>1. ActiveRows(f, Date) \subseteq Rows(f)
      BY <1>0, ActiveRowsAre
    <3>2. QED
      BY <1>0, <3>1, RowsParsed, FS_Subset
  <2> DEFINE tripOf == [r \in ActiveRows(f, Date) |-> r.trip]
  <2>2. trips = {tripOf[r] : r \in ActiveRows(f, Date)}
    BY <1>1
  <2> HIDE DEF tripOf, trips
  <2>3. IsFiniteSet(trips)
    BY <2>1, <2>2, ValuesFinite
  <2>4. trips \in SUBSET (DOMAIN RtTail)
    BY <1>0 DEF trips, RunningTrips, Readable
  <2>5. QED
    BY <2>3, <2>4
<1> HIDE DEF trips
<1>4. ASSUME NEW id \in Tails \ {NoId}, id \notin trips
      PROVE  \/ \E t \in Owners(trips, id) : Owners(trips, id) = {t} /\ ResolveTripID(g, id) = t
             \/ Cardinality(Owners(trips, id)) # 1 /\ ResolveTripID(g, id) = NoTrip
  <2>1. g.suffix \in Indices /\ Tells(g.suffix, trips, id)
    BY <1>2, <1>3, SuffixTells
  <2>2. ResolveTripID(g, id) = IF g.suffix[id] # Ambiguous THEN g.suffix[id] ELSE NoTrip
    BY <1>2, <1>4, <2>1 DEF ResolveTripID, Indices
  <2>3. CASE Owners(trips, id) = {}
    <3>1. ResolveTripID(g, id) = NoTrip
      BY <2>1, <2>2, <2>3 DEF Tells
    <3>2. Cardinality(Owners(trips, id)) = 0
      BY <2>3, FS_EmptySet
    <3>3. QED
      BY <3>1, <3>2
  <2>4. CASE \E t : Owners(trips, id) = {t}
    <3>1. PICK t : Owners(trips, id) = {t}
      BY <2>4
    <3>2. t \in DOMAIN RtTail /\ g.suffix[id] = t
      BY <1>3, <2>1, <3>1 DEF Tells, Owners
    <3>3. QED
      BY <2>2, <3>1, <3>2, GraphAssumption
  <2>5. CASE Owners(trips, id) # {} /\ ~\E t : Owners(trips, id) = {t}
    <3>1. PICK t \in Owners(trips, id), u \in Owners(trips, id) : t # u
      BY <2>5
    <3>2. g.suffix[id] = Ambiguous
      BY <2>1, <3>1 DEF Tells
    <3>3. IsFiniteSet(Owners(trips, id))
      BY <1>3, FS_Subset DEF Owners
    <3>4. Cardinality(Owners(trips, id)) # 1
      BY <2>5, <3>3, FS_Singleton
    <3>5. QED
      BY <2>2, <3>2, <3>4
  <2>6. QED
    BY <2>3, <2>4, <2>5
<1>5. QED
  BY <1>4 DEF TailsResolve, Tails, Owners, trips

\* TripsResolve (graph.go:146-158, 312-326): a realtime id resolves to the running
\* trip it is the tail of, and to none when several share it, however many.
THEOREM TripIdsResolve == TransferSpec => []TripsResolve
<1>1. DetectorInv => TripsResolve
  <2>1. SUFFICES ASSUME DetectorInv, stage = "ready" PROVE TailsResolve(graph, feed, Date)
    BY DEF TripsResolve
  <2>2. feed \in Feeds /\ BuiltFrom(graph, feed)
    BY <2>1 DEF DetectorInv
  <2>3. QED
    BY <2>2, ResolvesTails
<1>2. QED
  BY <1>1, DetectorInvariant, PTL

-----------------------------------------------------------------------------
(* Headways.                                                               *)

\* The times of the departures at some positions of a list, and those after which
\* the next one of the hour follows by a gap that counts.
Times(order, own) == {order[i].dep : i \in own}

Begins(leaves, hour) ==
  {t \in leaves : t \div Hour = hour /\ \E u \in leaves : t < u /\ u <= t + MaxGap}

NextGap(leaves, t) == Min({u \in leaves : u > t}) - t

\* Where the gap before a departure begins.
Start(order, own, i) == order[Previous(own, i)].dep

\* Each gap counted is the one after one of these times, and each time has its gap.
GapsAndTimes(order, own, hour) ==
  LET leaves  == Times(order, own)
      counted == HourGaps(order, own, hour)
  IN /\ \A i \in counted :
          /\ Start(order, own, i) \in Begins(leaves, hour)
          /\ GapBefore(order, own, i) \in Int
          /\ GapBefore(order, own, i) = NextGap(leaves, Start(order, own, i))
     /\ \A i, j \in counted : i # j => Start(order, own, i) # Start(order, own, j)
     /\ \A t \in Begins(leaves, hour) : \E i \in counted : Start(order, own, i) = t

\* So it is in every list in order.
LEMMA GapsBegin ==
  ASSUME NEW m \in Nat, NEW order, \A i \in 1..m : order[i].dep \in Nat,
         \A i, j \in 1..m : i <= j => order[i].dep <= order[j].dep,
         NEW own \in SUBSET (1..m), NEW hour \in Int, hour <= MaxHeadwayHour
  PROVE  GapsAndTimes(order, own, hour)
<1> DEFINE leaves == Times(order, own)
           counted == HourGaps(order, own, hour)
           dep(i) == order[i].dep
<1>1. MaxGap \in Nat /\ own \in SUBSET Int /\ \A S \in SUBSET own : IsFiniteSet(S)
  <2>1. \A S \in SUBSET own : S \in SUBSET (1..m)
    OBVIOUS
  <2>2. QED
    BY <2>1, Segments, GraphAssumption
\* What a position that has one before it tells.
<1>2. ASSUME NEW i \in own, \E j \in own : j < i
      PROVE  /\ Previous(own, i) \in own /\ Previous(own, i) < i
             /\ \A j \in own : j < i => j <= Previous(own, i)
  <2> DEFINE S == {j \in own : j < i}
  <2>1. S \in SUBSET Int /\ S # {} /\ IsFiniteSet(S)
    BY <1>1, <1>2
  <2> HIDE DEF S
  <2>2. Max(S) \in S /\ \A j \in S : Max(S) >= j
    BY <2>1, MaxIs
  <2>3. Previous(own, i) = Max(S)
    BY DEF Previous, S
  <2>4. ASSUME NEW j \in own, j < i PROVE j <= Previous(own, i)
    <3>1. j \in S /\ j \in Int /\ Max(S) \in Int
      BY <1>1, <2>1, <2>2, <2>4 DEF S
    <3>2. QED
      BY <2>2, <2>3, <3>1
  <2>5. QED
    BY <2>2, <2>3, <2>4 DEF S
<1>3. ASSUME NEW i \in own PROVE i \in 1..m /\ dep(i) \in Nat /\ dep(i) \in leaves
  BY DEF Times
<1>4. ASSUME NEW u \in leaves PROVE \E i \in own : dep(i) = u
  BY DEF Times
\* A counted position: the one before it, and the time of the next.
<1>5. ASSUME NEW i \in counted
      PROVE  LET p == Previous(own, i) IN
             /\ i \in own /\ p \in own /\ p < i /\ \A j \in own : j < i => j <= p
             /\ dep(p) < dep(i) /\ dep(i) <= dep(p) + MaxGap /\ dep(p) \div Hour = hour
             /\ GapBefore(order, own, i) = dep(i) - dep(p) /\ Start(order, own, i) = dep(p)
             /\ \A u \in leaves : u > dep(p) => u >= dep(i)
  <2>1. i \in own /\ \E j \in own : j < i
    BY DEF HourGaps
  <2>2. PICK p \in own : p = Previous(own, i) /\ p < i /\ \A j \in own : j < i => j <= p
    BY <1>2, <2>1
  <2>3. /\ GapBefore(order, own, i) = dep(i) - dep(p) /\ Start(order, own, i) = dep(p)
        /\ GapBefore(order, own, i) \in 1..MaxGap /\ dep(p) \div Hour = hour
    BY <2>2 DEF HourGaps, GapBefore, Start
  <2>4. dep(i) \in Nat /\ dep(p) \in Nat
    BY <1>3, <2>1
  <2>5. dep(p) < dep(i) /\ dep(i) <= dep(p) + MaxGap
    BY <1>1, <2>3, <2>4
  <2>6. ASSUME NEW u \in leaves, u > dep(p) PROVE u >= dep(i)
    <3>1. PICK j \in own : dep(j) = u
      BY <1>4
    <3>2. j \in 1..m /\ p \in 1..m /\ i \in 1..m /\ u \in Nat
      BY <1>3, <2>1, <3>1
    <3>3. CASE j < i
      <4>1. j <= p
        BY <2>2, <3>3
      <4>2. dep(j) <= dep(p)
        BY <3>2, <4>1
      <4>3. QED
        BY <2>4, <2>6, <3>1, <3>2, <4>2
    <3>4. CASE ~(j < i)
      <4>1. i <= j
        BY <3>2, <3>4
      <4>2. dep(i) <= dep(j)
        BY <3>2, <4>1
      <4>3. QED
        BY <2>4, <3>1, <3>2, <4>2
    <3>5. QED
      BY <3>3, <3>4
  <2> HIDE DEF dep, leaves, counted
  <2>7. QED
    BY <2>1, <2>2, <2>3, <2>5, <2>6
<1> HIDE DEF counted
<1>6. ASSUME NEW i \in counted
      PROVE  /\ Start(order, own, i) \in Begins(leaves, hour)
             /\ GapBefore(order, own, i) \in Int
             /\ GapBefore(order, own, i) = NextGap(leaves, Start(order, own, i))
  <2>1. PICK p \in own : p = Previous(own, i)
    BY <1>5
  <2>2. /\ i \in own /\ dep(p) < dep(i) /\ dep(i) <= dep(p) + MaxGap /\ dep(p) \div Hour = hour
        /\ GapBefore(order, own, i) = dep(i) - dep(p) /\ Start(order, own, i) = dep(p)
        /\ \A u \in leaves : u > dep(p) => u >= dep(i)
    BY <1>5, <2>1
  <2>3. dep(i) \in leaves /\ dep(p) \in leaves /\ dep(i) \in Nat /\ dep(p) \in Nat
    BY <1>3, <2>2
  <2> DEFINE S == {u \in leaves : u > dep(p)}
  <2>4. dep(i) \in S /\ \A u \in S : dep(i) <= u
    <3>1. ASSUME NEW u \in S PROVE dep(i) <= u
      <4>1. u >= dep(i) /\ u \in Nat
        BY <1>3, <1>4, <2>2
      <4>2. QED
        BY <2>3, <4>1
    <3>2. QED
      BY <2>2, <2>3, <3>1
  <2>5. \A u \in S : u \in Int
    BY <1>3, <1>4
  <2> HIDE DEF S
  <2>6. Min(S) = dep(i)
    <3>1. S \in SUBSET Int /\ S # {}
      BY <2>4, <2>5
    <3>2. \E x \in S : \A y \in S : x <= y
      BY <2>4
    <3>3. Min(S) \in S /\ \A y \in S : Min(S) <= y
      BY <3>2, Zenon DEF Min
    <3>4. Min(S) <= dep(i) /\ dep(i) <= Min(S) /\ Min(S) \in Int /\ dep(i) \in Int
      BY <2>4, <2>5, <3>3
    <3>5. QED
      BY <3>4
  <2>7. NextGap(leaves, dep(p)) = dep(i) - dep(p)
    BY <2>6 DEF NextGap, S
  <2>8. dep(p) \in Begins(leaves, hour)
    BY <2>2, <2>3 DEF Begins
  <2> HIDE DEF dep, leaves
  <2>9. dep(i) - dep(p) \in Int
    BY <2>3
  <2>10. QED
    BY <2>2, <2>7, <2>8, <2>9
<1>7. ASSUME NEW i \in counted, NEW j \in counted, i < j
      PROVE  Start(order, own, i) # Start(order, own, j)
  <2>1. PICK p \in own : p = Previous(own, i)
    BY <1>5
  <2>2. PICK q \in own : q = Previous(own, j)
    BY <1>5
  <2>3. i \in own /\ dep(p) < dep(i) /\ Start(order, own, i) = dep(p)
    BY <1>5, <2>1
  <2>4. j \in own /\ (\A h \in own : h < j => h <= q) /\ Start(order, own, j) = dep(q)
    BY <1>5, <2>2
  <2>5. i <= q
    BY <1>7, <2>3, <2>4
  <2>6. dep(i) <= dep(q) /\ dep(i) \in Nat /\ dep(p) \in Nat /\ dep(q) \in Nat
    BY <1>3, <2>3, <2>5
  <2> HIDE DEF dep
  <2>7. QED
    BY <2>3, <2>4, <2>6
<1>8. ASSUME NEW i \in counted, NEW j \in counted, i # j
      PROVE  Start(order, own, i) # Start(order, own, j)
  <2>1. i \in Int /\ j \in Int
    BY <1>1, <1>5
  <2>2. i < j \/ j < i
    BY <1>8, <2>1
  <2>3. QED
    BY <1>7, <2>2
<1>9. ASSUME NEW t \in Begins(leaves, hour) PROVE \E i \in counted : Start(order, own, i) = t
  <2>1. t \in leaves /\ t \div Hour = hour
    BY DEF Begins
  <2>2. PICK u \in leaves : t < u /\ u <= t + MaxGap
    BY DEF Begins
  <2>3. PICK a \in own : dep(a) = t
    BY <1>4, <2>1
  <2>4. PICK b \in own : dep(b) = u
    BY <1>4
  <2> DEFINE S == {j \in own : dep(j) > t}
  <2>5. S \in SUBSET Nat /\ b \in S
    <3>1. dep(b) > t
      BY <1>3, <2>2, <2>3, <2>4
    <3>2. ASSUME NEW j \in own PROVE j \in Nat
      <4>1. j \in 1..m
        BY <1>3
      <4>2. QED
        BY <4>1
    <3> HIDE DEF dep
    <3>3. QED
      BY <3>1, <3>2
  <2>6. PICK i \in S : \A j \in S : i <= j
    <3> HIDE DEF S
    <3>1. QED
      BY <2>5, Least
  <2>7. i \in own /\ dep(i) > t /\ i \in 1..m /\ a \in 1..m /\ b \in 1..m
        /\ t \in Nat /\ u \in Nat /\ dep(i) \in Nat
    BY <1>3, <2>3, <2>4, <2>6
  <2>8. a < i
    <3>1. ~(i <= a)
      <4>1. SUFFICES ASSUME i <= a PROVE FALSE
        OBVIOUS
      <4>2. dep(i) <= dep(a)
        BY <2>7, <4>1
      <4>3. QED
        BY <2>3, <2>7, <4>2
    <3>2. QED
      BY <2>7, <3>1
  <2>9. PICK p \in own : p = Previous(own, i) /\ p < i /\ \A j \in own : j < i => j <= p
    BY <1>2, <2>3, <2>7, <2>8
  <2>10. p \in 1..m /\ a <= p /\ dep(p) \in Nat
    BY <1>3, <2>3, <2>8, <2>9
  <2>11. dep(a) <= dep(p)
    BY <2>7, <2>10
  <2>12. ~(dep(p) > t)
    <3>1. SUFFICES ASSUME dep(p) > t PROVE FALSE
      OBVIOUS
    <3>2. p \in S
      BY <3>1
    <3>3. i <= p
      BY <2>6, <3>2
    <3>4. QED
      BY <2>7, <2>9, <2>10, <3>3
  <2>13. dep(p) = t
    BY <2>3, <2>7, <2>10, <2>11, <2>12
  <2>14. dep(i) <= u
    <3>1. i <= b
      BY <2>5, <2>6
    <3>2. QED
      BY <2>4, <2>7, <3>1
  <2>15. GapBefore(order, own, i) = dep(i) - t /\ Start(order, own, i) = t
    BY <2>9, <2>13 DEF GapBefore, Start
  <2> HIDE DEF dep, leaves, S
  <2>16. dep(i) - t \in 1..MaxGap
    <3>1. dep(i) - t \in Int /\ 1 <= dep(i) - t /\ dep(i) - t <= MaxGap
      BY <1>1, <2>2, <2>7, <2>14
    <3>2. QED
      BY <3>1
  <2>17. i \in counted
    BY <2>1, <2>7, <2>9, <2>13, <2>15, <2>16 DEF HourGaps, counted, dep
  <2>18. QED
    BY <2>15, <2>17
<1>10. QED
  BY <1>6, <1>8, <1>9 DEF counted, GapsAndTimes

\* A bucket of the index: where it is taken from, and how it is computed.
LEMMA Buckets ==
  ASSUME NEW f, Readable(f), NEW g, BuiltFrom(g, f), NEW b \in DOMAIN g.headways
  PROVE  \E order : LET own  == Departures(f, order, b.route, b.dir)
                        gaps == SortedGaps(order, own, b.hour)
                    IN /\ Lists(order, RowsAt(f, Date, b.station))
                       /\ \A r \in RowsAt(f, Date, b.station) : r.dep \in Nat
                       /\ b.hour \in Int /\ b.hour <= MaxHeadwayHour
                       /\ gaps # <<>> /\ g.headways[b] = TwiceMedian(gaps)
<1>1. PICK byStop \in StopOrders(f, Date) : g = BuildGraph(f, Date, byStop)
  BY DEF BuiltFrom
<1>2. g.headways = HeadwayIndex(f, byStop)
  BY <1>1 DEF BuildGraph
<1> DEFINE Gaps(x) == SortedGaps(byStop[x.station], Departures(f, byStop[x.station], x.route, x.dir), x.hour)
<1>3. /\ b.station \in DOMAIN byStop /\ b.hour \in 0..MaxHeadwayHour
      /\ Gaps(b) # <<>> /\ g.headways[b] = TwiceMedian(Gaps(b))
  BY <1>2 DEF HeadwayIndex
<1> HIDE DEF Gaps
<1>4. byStop[b.station] \in Orders(RowsAt(f, Date, b.station))
  BY <1>1, <1>3 DEF StopOrders
<1> DEFINE rows == RowsAt(f, Date, b.station)
<1>5. IsFiniteSet(rows) /\ \A r \in rows : r.dep \in Nat
  <2>1. rows \subseteq Rows(f)
    BY ActiveRowsAre DEF RowsAt
  <2>2. IsFiniteSet(rows)
    BY <2>1, RowsParsed, FS_Subset
  <2>3. \A r \in rows : r.dep \in Nat
    BY <2>1, RowsParsed
  <2>4. QED
    BY <2>2, <2>3
<1> HIDE DEF rows
<1>6. Lists(byStop[b.station], rows)
  BY <1>4, <1>5, OrdersList DEF rows
<1>7. b.hour \in Int /\ b.hour <= MaxHeadwayHour
  BY <1>3, GraphAssumption
<1>8. QED
  BY <1>3, <1>5, <1>6, <1>7 DEF Gaps, rows

\* The times at which the feed lists a bucket's departures.
ListedTimes(f, b) ==
  {l.dep : l \in {x \in ListedDepartures(f, Date, b.station, b.route) :
                    f.trips[x.trip].dir = b.dir}}

\* The times of a bucket's departures are those the feed lists.
LEMMA BucketTimes ==
  ASSUME NEW f, Readable(f), NEW b, NEW order, Lists(order, RowsAt(f, Date, b.station))
  PROVE  Times(order, Departures(f, order, b.route, b.dir)) = ListedTimes(f, b)
<1> DEFINE rows == RowsAt(f, Date, b.station)
           There == {q \in rows : f.trips[q.trip].route = b.route}
           Listed == ListedDepartures(f, Date, b.station, b.route)
           own == Departures(f, order, b.route, b.dir)
<1>1. Listed = {[trip |-> r.trip, dep |-> r.dep] : r \in There}
  BY ListedAre
<1>2. /\ \A i \in DOMAIN order : order[i] \in rows
      /\ \A r \in rows : \E i \in DOMAIN order : order[i] = r
  BY DEF Lists
<1> HIDE DEF Listed, rows
<1>3. ASSUME NEW i \in own
      PROVE  \E l \in Listed : f.trips[l.trip].dir = b.dir /\ l.dep = order[i].dep
  <2>1. /\ i \in DOMAIN order /\ f.trips[order[i].trip].route = b.route
        /\ f.trips[order[i].trip].dir = b.dir
    BY DEF Departures
  <2>2. PICK r \in There : r = order[i]
    BY <1>2, <2>1
  <2>3. PICK l \in Listed : l = [trip |-> r.trip, dep |-> r.dep]
    BY <1>1
  <2>4. l.trip = r.trip /\ l.dep = r.dep
    BY <2>3
  <2>5. QED
    BY <2>1, <2>2, <2>4
<1>4. ASSUME NEW l \in Listed, f.trips[l.trip].dir = b.dir
      PROVE  \E i \in own : order[i].dep = l.dep
  <2>1. PICK r \in There : l = [trip |-> r.trip, dep |-> r.dep]
    BY <1>1
  <2>2. PICK i \in DOMAIN order : order[i] = r
    BY <1>2
  <2>3. i \in own
    BY <1>4, <2>1, <2>2 DEF Departures
  <2>4. QED
    BY <2>1, <2>2, <2>3
<1> HIDE DEF own
<1>5. Times(order, own) = {l.dep : l \in {x \in Listed : f.trips[x.trip].dir = b.dir}}
  BY <1>3, <1>4 DEF Times
<1>6. QED
  BY <1>5 DEF Listed, own, ListedTimes

\* Twice the median of a list, by its middle ones.
LEMMA MedianAt ==
  ASSUME NEW n \in Nat \ {0}, NEW s, Len(s) = n, \A i \in 1..n : s[i] \in Int,
         NEW half \in Int, half = (n + 1) \div 2
  PROVE  TwiceMedian(s) = s[half] + s[n + 1 - half]
<1>1. CASE n % 2 = 1
  <2>1. half = n \div 2 + 1 /\ n + 1 - half = half /\ half \in 1..n
    BY <1>1
  <2>2. TwiceMedian(s) = 2 * s[half]
    BY <1>1, <2>1 DEF TwiceMedian
  <2>3. s[half] \in Int
    BY <2>1
  <2>4. 2 * s[half] = s[half] + s[half]
    BY <2>3
  <2>5. QED
    BY <2>1, <2>2, <2>4
<1>2. CASE n % 2 # 1
  <2>1. half = n \div 2 /\ n + 1 - half = n \div 2 + 1
    BY <1>2
  <2>2. QED
    BY <1>2, <2>1 DEF TwiceMedian
<1>3. QED
  BY <1>1, <1>2

\* What the property says of a bucket.
MedianOf(begins, leaves) ==
  LET AtMost(n)  == Cardinality({t \in begins : NextGap(leaves, t) <= n})
      AtLeast(n) == Cardinality({t \in begins : NextGap(leaves, t) >= n})
      half == (Cardinality(begins) + 1) \div 2
      low  == Min({NextGap(leaves, t) : t \in {u \in begins : AtMost(NextGap(leaves, u)) >= half}})
      high == Max({NextGap(leaves, t) : t \in {u \in begins : AtLeast(NextGap(leaves, u)) >= half}})
  IN low + high

\* The list of the sorted gaps has the median of the gaps in the middle.
LEMMA GapsMedian ==
  ASSUME NEW m \in Nat, NEW order, \A i \in 1..m : order[i].dep \in Nat,
         \A i, j \in 1..m : i <= j => order[i].dep <= order[j].dep,
         NEW own \in SUBSET (1..m), NEW hour \in Int, hour <= MaxHeadwayHour,
         SortedGaps(order, own, hour) # <<>>
  PROVE  LET begins == Begins(Times(order, own), hour) IN
         /\ begins # {}
         /\ TwiceMedian(SortedGaps(order, own, hour)) = MedianOf(begins, Times(order, own))
<1> DEFINE leaves == Times(order, own)
           begins == Begins(leaves, hour)
           some == HourGaps(order, own, hour)
           gap == [i \in some |-> GapBefore(order, own, i)]
           gaps == SortedGaps(order, own, hour)
<1>1. /\ \A i \in some : /\ Start(order, own, i) \in begins
                         /\ GapBefore(order, own, i) \in Int
                         /\ GapBefore(order, own, i) = NextGap(leaves, Start(order, own, i))
      /\ \A i, j \in some : i # j => Start(order, own, i) # Start(order, own, j)
      /\ \A t \in begins : \E i \in some : Start(order, own, i) = t
  <2>1. GapsAndTimes(order, own, hour)
    BY GapsBegin, Zenon
  <2>2. QED
    BY <2>1 DEF GapsAndTimes
<1>2. IsFiniteSet(some)
  <2>1. some \in SUBSET (1..m)
    BY DEF HourGaps
  <2> HIDE DEF some
  <2>2. QED
    BY <2>1, Segments
<1>3. PICK at : at = SortedBy(some, gap)
  OBVIOUS
<1>4. gaps = [i \in DOMAIN at |-> gap[at[i]]]
  BY <1>3 DEF SortedGaps
<1> HIDE DEF leaves, begins, some, gaps
<1>5. \A i \in some : gap[i] \in Int /\ gap[i] = NextGap(leaves, Start(order, own, i))
  BY <1>1
<1>6. PICK n \in Nat : n = Cardinality(some)
  BY <1>2, FS_CardinalityType
<1> HIDE DEF gap
<1>7. /\ at \in [1..n -> some]
      /\ \A i, j \in 1..n : i # j => at[i] # at[j]
      /\ \A x \in some : \E i \in 1..n : at[i] = x
      /\ \A i, j \in 1..n : i <= j => gap[at[i]] <= gap[at[j]]
  BY <1>2, <1>3, <1>5, <1>6, SortedIs
<1>8. gaps = [i \in 1..n |-> gap[at[i]]]
  BY <1>4, <1>7
<1>9. n # 0
  <2>1. SUFFICES ASSUME n = 0 PROVE FALSE
    OBVIOUS
  <2>2. gaps = [i \in 1..0 |-> gap[at[i]]]
    BY <1>8, <2>1
  <2>3. gaps = <<>>
    BY <2>2
  <2>4. QED
    BY <2>3 DEF gaps
<1> DEFINE F == [i \in 1..n |-> Start(order, own, at[i])]
           next == [t \in begins |-> NextGap(leaves, t)]
<1>10. F \in [1..n -> begins] /\ \A i, j \in 1..n : i # j => F[i] # F[j]
  BY <1>1, <1>7
<1>11. \A t \in begins : \E i \in 1..n : F[i] = t
  BY <1>1, <1>7
<1>12. \A i \in 1..n : next[F[i]] = gap[at[i]] /\ gap[at[i]] \in Int
  <2>1. ASSUME NEW i \in 1..n PROVE next[F[i]] = gap[at[i]] /\ gap[at[i]] \in Int
    <3>1. at[i] \in some /\ F[i] \in begins /\ F[i] = Start(order, own, at[i])
      BY <1>7, <1>10
    <3>2. gap[at[i]] = NextGap(leaves, F[i]) /\ gap[at[i]] \in Int
      BY <1>5, <3>1
    <3>3. QED
      BY <3>1, <3>2
  <2>2. QED
    BY <2>1
<1> HIDE DEF F
<1>13. \A t \in begins : next[t] \in Int /\ next[t] = NextGap(leaves, t)
  <2>1. ASSUME NEW t \in begins PROVE next[t] \in Int
    <3>1. PICK i \in 1..n : F[i] = t
      BY <1>11
    <3>2. QED
      BY <1>12, <3>1
  <2>2. QED
    BY <2>1
<1> HIDE DEF next
<1>14. \A i, j \in 1..n : i <= j => next[F[i]] <= next[F[j]]
  BY <1>7, <1>12
<1>15. PICK half \in Int : half = (n + 1) \div 2
  OBVIOUS
<1> DEFINE low  == LowMiddle(begins, next, half)
           high == HighMiddle(begins, next, half)
<1> HIDE DEF low, high
<1>16. /\ Cardinality(begins) = n /\ half \in 1..n /\ n + 1 - half \in 1..n
       /\ low = next[F[half]] /\ high = next[F[n + 1 - half]]
  <2>1. n \in Nat \ {0}
    BY <1>9
  <2>2. ListedBy(n, F, begins, next)
    BY <1>10, <1>11, <1>13, <1>14 DEF ListedBy
  <2>4. /\ Cardinality(begins) = n /\ half \in 1..n /\ n + 1 - half \in 1..n
        /\ LowMiddle(begins, next, half) = next[F[half]]
        /\ HighMiddle(begins, next, half) = next[F[n + 1 - half]]
    BY <1>15, <2>1, <2>2, MiddleOnes
  <2>5. QED
    BY <2>4 DEF low, high
<1>17. low + high = MedianOf(begins, leaves)
  <2>1. \A u \in begins : /\ {t \in begins : next[t] <= next[u]}
                              = {t \in begins : NextGap(leaves, t) <= NextGap(leaves, u)}
                          /\ {t \in begins : next[t] >= next[u]}
                              = {t \in begins : NextGap(leaves, t) >= NextGap(leaves, u)}
    BY <1>13
  <2> DEFINE Low(u)  == Cardinality({t \in begins : NextGap(leaves, t) <= NextGap(leaves, u)}) >= half
             High(u) == Cardinality({t \in begins : NextGap(leaves, t) >= NextGap(leaves, u)}) >= half
  <2>2. low = Min({NextGap(leaves, t) : t \in {u \in begins : Low(u)}})
    <3>1. {u \in begins : Cardinality({t \in begins : next[t] <= next[u]}) >= half}
            = {u \in begins : Low(u)}
      BY <2>1
    <3> HIDE DEF Low
    <3>2. {next[t] : t \in {u \in begins : Low(u)}} = {NextGap(leaves, t) : t \in {u \in begins : Low(u)}}
      BY <1>13
    <3>3. QED
      BY <3>1, <3>2 DEF low, LowMiddle
  <2>3. high = Max({NextGap(leaves, t) : t \in {u \in begins : High(u)}})
    <3>1. {u \in begins : Cardinality({t \in begins : next[t] >= next[u]}) >= half}
            = {u \in begins : High(u)}
      BY <2>1
    <3> HIDE DEF High
    <3>2. {next[t] : t \in {u \in begins : High(u)}} = {NextGap(leaves, t) : t \in {u \in begins : High(u)}}
      BY <1>13
    <3>3. QED
      BY <3>1, <3>2 DEF high, HighMiddle
  <2>4. half = (Cardinality(begins) + 1) \div 2
    BY <1>15, <1>16
  <2>5. QED
    BY <2>2, <2>3, <2>4 DEF MedianOf
<1>18. TwiceMedian(gaps) = gaps[half] + gaps[n + 1 - half]
  <2>1. Len(gaps) = n /\ \A i \in 1..n : gaps[i] \in Int
    BY <1>8, <1>12
  <2>2. QED
    BY <1>9, <1>15, <2>1, MedianAt
<1>19. gaps[half] = next[F[half]] /\ gaps[n + 1 - half] = next[F[n + 1 - half]]
  BY <1>8, <1>12, <1>16
<1>20. begins # {}
  BY <1>10, <1>16
<1>21. QED
  BY <1>16, <1>17, <1>18, <1>19, <1>20 DEF gaps, begins, leaves

\* HeadwayIsMedian (headway.go:29-68, 97-106): the index's headway is the median of
\* the gaps between the running trips' departures that begin in the bucket's hour.
THEOREM HeadwaysMedian == TransferSpec => []HeadwayIsMedian
<1>1. ASSUME NEW f \in Feeds, NEW g, BuiltFrom(g, f) PROVE HeadwaysAreMedians(g, f, Date)
  <2>1. SUFFICES ASSUME NEW b \in DOMAIN g.headways
                 PROVE  LET leaves == ListedTimes(f, b)
                            begins == Begins(leaves, b.hour)
                        IN begins # {} /\ g.headways[b] = MedianOf(begins, leaves)
    BY Zenon DEF HeadwaysAreMedians, ListedTimes, Begins, MedianOf, NextGap
  <2>2. Readable(f)
    BY TransferAssumption
  <2>3. PICK order :
          LET own  == Departures(f, order, b.route, b.dir)
              gaps == SortedGaps(order, own, b.hour)
          IN /\ Lists(order, RowsAt(f, Date, b.station))
             /\ \A r \in RowsAt(f, Date, b.station) : r.dep \in Nat
             /\ b.hour \in Int /\ b.hour <= MaxHeadwayHour
             /\ gaps # <<>> /\ g.headways[b] = TwiceMedian(gaps)
    BY <1>1, <2>2, Buckets
  <2> DEFINE own == Departures(f, order, b.route, b.dir)
  <2>4. PICK m \in Nat : DOMAIN order = 1..m
    BY <2>3 DEF Lists
  <2>5. /\ \A i \in 1..m : order[i].dep \in Nat
        /\ \A i, j \in 1..m : i <= j => order[i].dep <= order[j].dep
    BY <2>3, <2>4 DEF Lists
  <2>6. own \in SUBSET (1..m)
    BY <2>4 DEF Departures
  <2>7. Times(order, own) = ListedTimes(f, b)
    <3>1. Lists(order, RowsAt(f, Date, b.station))
      BY <2>3
    <3>2. QED
      BY <2>2, <3>1, BucketTimes
  <2>8. /\ Begins(Times(order, own), b.hour) # {}
        /\ TwiceMedian(SortedGaps(order, own, b.hour))
             = MedianOf(Begins(Times(order, own), b.hour), Times(order, own))
    <3> HIDE DEF own
    <3>1. SortedGaps(order, own, b.hour) # <<>> /\ b.hour \in Int /\ b.hour <= MaxHeadwayHour
      BY <2>3 DEF own
    <3>2. QED
      BY <2>5, <2>6, <3>1, GapsMedian
  <2>9. QED
    BY <2>3, <2>7, <2>8
<1>2. DetectorInv => HeadwayIsMedian
  BY <1>1 DEF DetectorInv, HeadwayIsMedian
<1>3. QED
  BY <1>2, DetectorInvariant, PTL

-----------------------------------------------------------------------------
(* Types.                                                                  *)

\* The files refer to each other: the stops of rows and transfers are stops of
\* stops.txt.
StopsListed(f) ==
  /\ \A s \in f.stopTimes : s.stop \in DOMAIN f.parent
  /\ \A x \in f.transfers : {x.from, x.to} \subseteq DOMAIN f.parent

\* The rows of running trips are rows of the graph.
LEMMA RowIndexed ==
  ASSUME NEW f, Readable(f), StopsListed(f), NEW g, BuiltFrom(g, f)
  PROVE  /\ DOMAIN g.byTrip \subseteq DOMAIN f.trips
         /\ ActiveRows(f, Date) \subseteq IndexedRow(g)
<1> DEFINE active == ActiveRows(f, Date)
<1>1. DOMAIN g.byTrip = {r.trip : r \in active} /\ g.parent = f.parent
  BY DEF BuiltFrom, BuildGraph
<1>2. \A r \in active : r \in Rows(f) /\ r.trip \in DOMAIN f.trips
  BY DEF ActiveRows
<1>3. ASSUME NEW r \in active PROVE r \in IndexedRow(g)
  <2>1. PICK s \in Parsed(f) : r = StopTime(s.trip, s.stop, s.arr, Leaves(s), s.seq)
    BY <1>2, RowsParsed
  <2>2. s.arr \in Nat /\ s.stop \in DOMAIN f.parent /\ s.seq \in Nat
    BY DEF Parsed, Readable, StopsListed
  <2>3. r.trip = s.trip /\ r.dep = Leaves(s) /\ r.dep \in Nat
    BY <1>2, <2>1, RowsParsed DEF StopTime
  <2>4. s.trip \in DOMAIN g.byTrip
    BY <1>1, <2>3
  <2> HIDE DEF active
  <2>5. QED
    BY <1>1, <2>1, <2>2, <2>3, <2>4 DEF StopTime, IndexedRow
<1>4. QED
  BY <1>1, <1>2, <1>3

\* Every gap that counts is positive, and so is their median.
LEMMA MedianNat ==
  ASSUME NEW m \in Nat, NEW order, NEW own \in SUBSET (1..m), NEW hour,
         SortedGaps(order, own, hour) # <<>>
  PROVE  TwiceMedian(SortedGaps(order, own, hour)) \in Nat
<1> DEFINE some == HourGaps(order, own, hour)
           gap == [i \in some |-> GapBefore(order, own, i)]
           gaps == SortedGaps(order, own, hour)
<1>1. IsFiniteSet(some) /\ \A i \in some : gap[i] \in 1..MaxGap
  <2>1. some \in SUBSET (1..m) /\ \A i \in some : gap[i] \in 1..MaxGap
    BY DEF HourGaps
  <2> HIDE DEF some
  <2>2. QED
    BY <2>1, Segments
<1>2. PICK at : at = SortedBy(some, gap)
  OBVIOUS
<1>3. gaps = [i \in DOMAIN at |-> gap[at[i]]]
  BY <1>2 DEF SortedGaps
<1> HIDE DEF some, gap, gaps
<1>4. \A i \in some : gap[i] \in Int
  BY <1>1, GraphAssumption
<1>5. PICK n \in Nat : at \in [1..n -> some]
  BY <1>1, <1>2, <1>4, SortedIs
<1>6. gaps = [i \in 1..n |-> gap[at[i]]]
  BY <1>3, <1>5
<1>7. n # 0
  <2>1. SUFFICES ASSUME n = 0 PROVE FALSE
    OBVIOUS
  <2>2. gaps = [i \in 1..0 |-> gap[at[i]]]
    BY <1>6, <2>1
  <2>3. gaps = <<>>
    BY <2>2
  <2>4. QED
    BY <2>3 DEF gaps
<1>8. Len(gaps) = n /\ \A i \in 1..n : gaps[i] \in Nat
  BY <1>1, <1>5, <1>6, GraphAssumption
<1>9. PICK half \in 1..n : half = (n + 1) \div 2
  BY <1>7
<1>10. TwiceMedian(gaps) = gaps[half] + gaps[n + 1 - half]
  BY <1>7, <1>8, <1>9, MedianAt
<1>11. n + 1 - half \in 1..n
  BY <1>9
<1>12. gaps[half] \in Nat /\ gaps[n + 1 - half] \in Nat
  BY <1>8, <1>11
<1>13. QED
  BY <1>10, <1>12 DEF gaps

\* Every graph BuildGraph makes is well formed.
LEMMA GraphWellFormed ==
  ASSUME NEW f, Readable(f), StopsListed(f), NEW g, BuiltFrom(g, f)
  PROVE  WellFormed(g)
<1>1. PICK byStop \in StopOrders(f, Date) : g = BuildGraph(f, Date, byStop)
  BY DEF BuiltFrom
<1> DEFINE active == ActiveRows(f, Date)
           R == IndexedRow(g)
<1>2. /\ DOMAIN g.byTrip = {r.trip : r \in active} /\ DOMAIN g.route = DOMAIN f.trips
      /\ g.byStop = byStop /\ g.transfers = TransfersFrom(f)
      /\ \A t \in DOMAIN g.byTrip : g.byTrip[t] = TripRows(active, t)
  BY <1>1 DEF BuildGraph
<1>3. active \subseteq R /\ IsFiniteSet(active) /\ DOMAIN g.byTrip \subseteq DOMAIN g.route
  <2>1. active \subseteq Rows(f)
    BY DEF ActiveRows
  <2>2. IsFiniteSet(active)
    BY <2>1, RowsParsed, FS_Subset
  <2>3. QED
    BY <1>2, <2>2, RowIndexed
<1>4. /\ DOMAIN byStop = ServedStations(f, Date)
      /\ \A s \in ServedStations(f, Date) : byStop[s] \in Orders(RowsAt(f, Date, s))
  BY <1>1 DEF StopOrders
<1> HIDE DEF active, R
<1>5. ASSUME NEW s \in DOMAIN g.byStop PROVE g.byStop[s] \in Seq(R)
  <2>1. g.byStop[s] \in SetToSeqs(RowsAt(f, Date, s))
    BY <1>2, <1>4 DEF Orders
  <2>2. RowsAt(f, Date, s) \subseteq R /\ IsFiniteSet(RowsAt(f, Date, s))
    <3>1. RowsAt(f, Date, s) \subseteq active
      BY DEF RowsAt, active
    <3>2. QED
      BY <1>3, <3>1, FS_Subset
  <2>3. PICK n \in Nat : n = Cardinality(RowsAt(f, Date, s))
    BY <2>2, FS_CardinalityType
  <2>4. g.byStop[s] \in [1..n -> RowsAt(f, Date, s)]
    BY <2>1, <2>3 DEF SetToSeqs
  <2>5. g.byStop[s] \in [1..n -> R]
    BY <2>2, <2>4
  <2>6. QED
    BY <2>5
<1>6. ASSUME NEW t \in DOMAIN g.byTrip PROVE g.byTrip[t] \in Seq(R)
  <2> DEFINE own == {r \in active : r.trip = t}
             seq == [r \in own |-> r.seq]
  <2>1. g.byTrip[t] = SortedBy(own, seq)
    BY <1>2 DEF TripRows
  <2>2. IsFiniteSet(own) /\ own \subseteq R
    <3>1. own \subseteq active
      OBVIOUS
    <3> HIDE DEF own
    <3>2. QED
      BY <1>3, <3>1, FS_Subset
  <2>3. \A r \in own : seq[r] \in Int
    <3>1. \A r \in R : r.seq \in Nat
      BY DEF R, IndexedRow
    <3>2. QED
      BY <2>2, <3>1
  <2> HIDE DEF own, seq
  <2>4. PICK n \in Nat : SortedBy(own, seq) \in [1..n -> own]
    BY <2>2, <2>3, SortedIs
  <2>5. g.byTrip[t] \in [1..n -> R]
    BY <2>1, <2>2, <2>4
  <2>6. QED
    BY <2>5
<1>7. ASSUME NEW x \in g.transfers
      PROVE  x.min \in Int /\ {x.from, x.to} \subseteq {Parent(g.parent, s) : s \in DOMAIN g.parent}
  <2>1. PICK y \in f.transfers :
          x = [from |-> Parent(f.parent, y.from), to |-> Parent(f.parent, y.to), min |-> y.min]
    BY <1>2 DEF TransfersFrom
  <2>2. y.min \in Int /\ y.from \in DOMAIN f.parent /\ y.to \in DOMAIN f.parent
    BY DEF Readable, StopsListed
  <2>3. g.parent = f.parent
    BY <1>1 DEF BuildGraph
  <2>4. QED
    BY <2>1, <2>2, <2>3
<1>8. ASSUME NEW b \in DOMAIN g.headways PROVE g.headways[b] \in Nat
  <2>1. PICK order :
          LET own  == Departures(f, order, b.route, b.dir)
              gaps == SortedGaps(order, own, b.hour)
          IN /\ Lists(order, RowsAt(f, Date, b.station))
             /\ gaps # <<>> /\ g.headways[b] = TwiceMedian(gaps)
    BY Buckets
  <2>2. PICK m \in Nat : DOMAIN order = 1..m
    BY <2>1 DEF Lists
  <2>3. Departures(f, order, b.route, b.dir) \in SUBSET (1..m)
    BY <2>2 DEF Departures
  <2>4. QED
    BY <2>1, <2>3, MedianNat
<1>9. QED
  BY <1>3, <1>5, <1>6, <1>7, <1>8 DEF WellFormed, R

\* The impacts of an event have their type.
LEMMA ImpactsTyped ==
  ASSUME feed \in Feeds, BuiltFrom(graph, feed), StationsOnTop(feed), WellFormed(graph),
         NEW known \in [RtIds -> TrainDelays \cup {NoState}], NEW ev \in Arrivals
  PROVE  Impacts(graph, known, ev) \subseteq TransferImpact
<1> SUFFICES ASSUME NEW i \in Impacts(graph, known, ev) PROVE i \in TransferImpact
  OBVIOUS
<1> DEFINE g == graph
<1>1. PICK x \in GetTransfersFrom(g, ev.stop) :
        \E route \in GetRoutesAtStop(g, x.to) : i \in Judged(g, known, ev, x, route)
  BY DEF Impacts
<1>2. PICK route \in GetRoutesAtStop(g, x.to) : i \in Judged(g, known, ev, x, route)
  BY <1>1
<1> DEFINE rows  == StopTimesAt(g, x.to)
           deps  == GetNextDepartures(g, x.to, route, i.frame + i.min, 3)
           after == GetNextDepartures(g, x.to, route, i.catch, 1)
           conn  == rows[Min(deps)]
           next  == rows[Min(after)]
<1>3. \E level \in Levels, later \in {after, {}} :
        /\ i = [to |-> x.to, route |-> route, min |-> i.min, frame |-> i.frame, level |-> level,
                conn |-> conn.trip, connDep |-> conn.dep, catch |-> i.catch,
                viable |-> IF later = {} THEN NoTrip ELSE next.trip,
                wait |-> IF later = {} THEN 0 ELSE Max({0, next.dep - conn.dep})]
        /\ deps # {}
  BY <1>2 DEF Judged, LevelOf, Levels
<1>4. Report(g, known, ev, i)
  BY Reported
<1>5. /\ i.min \in Nat \ {0} /\ i.catch \in Int
      /\ i.frame = EffectiveTod(g, x.to, route, ArrivalTod(ev))
  <2>1. i.frame = EffectiveTod(g, x.to, route, ArrivalTod(ev))
    <3>1. Verdict(g, known, ev, x, route, i)
      BY <1>2, JudgedIs
    <3>2. QED
      BY <3>1, Zenon DEF Verdict
  <2>2. i.min \in Nat \ {0} /\ i.frame \in Nat /\ ev.delay \in Int /\ i.catch = i.frame + ev.delay + i.min
    BY <1>4 DEF Report
  <2>3. QED
    BY <2>1, <2>2
<1>6. i.frame \in 0..(Day + Overnight - 1)
  <2>1. ArrivalTod(ev) \in 0..(Day - 1)
    BY TransferAssumption, GraphAssumption DEF ArrivalTod
  <2>2. i.frame \in Frames(ArrivalTod(ev))
    BY <1>5, FrameOf
  <2>3. QED
    BY <2>1, <2>2, GraphAssumption DEF Frames
<1>7. PICK n \in Nat : DOMAIN rows = 1..n
  BY TimetableLists, TransferAssumption DEF Lists
<1>8. \A k \in DOMAIN rows : rows[k].trip \in DOMAIN g.byTrip /\ rows[k].dep \in Nat
  <2>1. rows \in Seq(IndexedRow(g))
    BY DEF StopTimesAt, WellFormed
  <2>2. \A k \in DOMAIN rows : rows[k] \in IndexedRow(g)
    BY <2>1
  <2>3. QED
    BY <2>2 DEF IndexedRow
<1>9. /\ deps # {} => Min(deps) \in DOMAIN rows
      /\ after # {} => Min(after) \in DOMAIN rows
  <2>1. \A time : Upcoming(g, x.to, route, time) \subseteq DOMAIN rows
    BY DEF Upcoming
  <2>2. deps # {} => Min(deps) \in Upcoming(g, x.to, route, i.frame + i.min)
    BY <1>7, NextDepartures
  <2>3. after # {} => Min(after) \in Upcoming(g, x.to, route, i.catch)
    BY <1>7, NextDepartures
  <2>4. QED
    BY <2>1, <2>2, <2>3
<1>10. x.to \in DOMAIN g.byStop
  <2>1. g.transfers = TransfersFrom(feed) /\ g.parent = feed.parent
    BY DEF BuiltFrom, BuildGraph
  <2>2. PICK y \in feed.transfers : x.to = Parent(feed.parent, y.to)
    BY <2>1 DEF GetTransfersFrom, TransfersFrom
  <2>3. Station(g, x.to) = x.to
    BY <2>1, <2>2, ParentOfParent DEF Station
  <2>4. rows # <<>>
    BY <1>3, <1>9
  <2>5. QED
    BY <2>3, <2>4 DEF StopTimesAt
<1>11. route \in Range(g.route)
  <2>1. PICK r \in RowsAt(feed, Date, Parent(feed.parent, x.to)) : route = feed.trips[r.trip].route
    BY TimetableLists, TransferAssumption
  <2>2. r.trip \in DOMAIN feed.trips /\ g.route[r.trip] = route
    BY <2>1, TimetableLists, TransferAssumption
  <2>3. DOMAIN g.route = DOMAIN feed.trips
    BY DEF BuiltFrom, BuildGraph
  <2>4. QED
    BY <2>2, <2>3 DEF Range
<1>12. ASSUME after # {} PROVE Max({0, next.dep - conn.dep}) \in Nat
  <2>1. next.dep \in Nat /\ conn.dep \in Nat
    BY <1>3, <1>8, <1>9, <1>12
  <2>2. PICK d \in Int : d = next.dep - conn.dep
    BY <2>1
  <2>3. IsFiniteSet({0, d}) /\ {0, d} \in SUBSET Int
    <3>1. IsFiniteSet({0, d})
      BY PairFinite
    <3>2. QED
      BY <3>1
  <2>4. Max({0, d}) \in {0, d} /\ Max({0, d}) >= 0
    BY <2>3, MaxIs
  <2>5. QED
    BY <2>2, <2>4
<1>13. PICK level \in Levels, later \in {after, {}} :
        i = [to |-> x.to, route |-> route, min |-> i.min, frame |-> i.frame, level |-> level,
             conn |-> conn.trip, connDep |-> conn.dep, catch |-> i.catch,
             viable |-> IF later = {} THEN NoTrip ELSE next.trip,
             wait |-> IF later = {} THEN 0 ELSE Max({0, next.dep - conn.dep})]
  BY <1>3
<1>14. /\ conn.trip \in DOMAIN g.byTrip /\ conn.dep \in Nat
       /\ (IF later = {} THEN NoTrip ELSE next.trip) \in DOMAIN g.byTrip \cup {NoTrip}
       /\ (IF later = {} THEN 0 ELSE Max({0, next.dep - conn.dep})) \in Nat
  BY <1>3, <1>8, <1>9, <1>12
<1> HIDE DEF rows, deps, after, conn, next
<1>15. QED
  BY <1>5, <1>6, <1>10, <1>11, <1>13, <1>14 DEF TransferImpact


\* The types, and when nothing is reported or finalized yet.
TypeInv ==
  /\ TransferTypeOK
  /\ stage \in {"down", "ready"} => impacts = {}
  /\ stage # "finalized" => impact = NoImpact

\* Initially the types are right.
LEMMA TypesStart == TransferInit => TypeInv
BY DEF TransferInit, TypeInv, TransferTypeOK

\* Every step keeps them, in a process whose graph is one of the feed's.
LEMMA TypesStep ==
  ASSUME \A f \in Feeds : StationsOnTop(f) /\ StopsListed(f)
  PROVE  TypeInv /\ DetectorInv /\ DetectorInv' /\ [TransferNext]_transferVars => TypeInv'
<1> SUFFICES ASSUME TypeInv, DetectorInv, DetectorInv', [TransferNext]_transferVars
             PROVE  TypeInv'
  OBVIOUS
<1> USE DEF TypeInv, TransferTypeOK
<1>1. CASE Load
  <2>1. /\ feed' = feed /\ arrival' = arrival /\ delays' = delays /\ impacts' = {}
        /\ impact' = NoImpact /\ moved' = moved /\ stage' = "ready" /\ impact = NoImpact
    BY <1>1 DEF Load
  <2>2. feed \in Feeds /\ BuiltFrom(graph', feed)
    BY <1>1 DEF Load, BuiltFrom
  <2>3. WellFormed(graph')
    BY <2>2, GraphWellFormed, TransferAssumption
  <2>4. QED
    BY <2>1, <2>2, <2>3
<1>2. CASE EvaluateDelay
  <2>1. /\ feed' = feed /\ graph' = graph /\ moved' = moved /\ impact' = impact
        /\ impact = NoImpact /\ stage = "ready" /\ stage' = "evaluated"
        /\ arrival' \in Arrivals /\ delays' \in [RtIds -> TrainDelays \cup {NoState}]
        /\ impacts' = Impacts(graph, delays', arrival')
    BY <1>2 DEF EvaluateDelay
  <2>2. feed \in Feeds /\ BuiltFrom(graph, feed) /\ WellFormed(graph)
    BY <2>1 DEF DetectorInv
  <2>3. impacts' \subseteq TransferImpact
    BY <2>1, <2>2, ImpactsTyped
  <2>4. TransferImpact' = TransferImpact
    BY <2>1 DEF TransferImpact
  <2>5. QED
    BY <2>1, <2>2, <2>3, <2>4
<1>3. CASE TrainObserved
  <2>1. /\ feed' = feed /\ graph' = graph /\ stage' = stage /\ arrival' = arrival
        /\ impacts' = impacts /\ impact' = impact /\ moved' = TRUE
    BY <1>3 DEF TrainObserved
  <2>2. delays' \in [RtIds -> TrainDelays \cup {NoState}]
    BY <1>3 DEF TrainObserved
  <2>3. TransferImpact' = TransferImpact
    BY <2>1 DEF TransferImpact
  <2>4. QED
    BY <2>1, <2>2, <2>3
<1>4. CASE Finalize
  <2>1. /\ feed' = feed /\ graph' = graph /\ arrival' = arrival /\ delays' = delays
        /\ impacts' = impacts /\ moved' = moved /\ stage' = "finalized" /\ stage = "evaluated"
        /\ impact' \in impacts /\ impact'.level = "broken"
    BY <1>4 DEF Finalize, Broken
  <2>2. TransferImpact' = TransferImpact
    BY <2>1 DEF TransferImpact
  <2>3. QED
    BY <2>1, <2>2
<1>5. CASE UNCHANGED transferVars
  <2>1. /\ feed' = feed /\ graph' = graph /\ arrival' = arrival /\ delays' = delays
        /\ impacts' = impacts /\ impact' = impact /\ moved' = moved /\ stage' = stage
    BY <1>5 DEF transferVars
  <2>2. TransferImpact' = TransferImpact
    BY <2>1 DEF TransferImpact
  <2>3. QED
    BY <2>1, <2>2
<1>6. QED
  BY <1>1, <1>2, <1>3, <1>4, <1>5, Zenon DEF TransferNext

\* TransferTypeOK (graph.go:74-211, detector.go:53-192): every graph built of a feed
\* whose files refer to each other is well formed, which is what the engine takes for
\* granted of its own, and every impact names a trip that runs and times that exist.
THEOREM TransfersTyped ==
  ASSUME \A f \in Feeds : StationsOnTop(f) /\ StopsListed(f)
  PROVE  TransferSpec => []TransferTypeOK
<1>1. TypeInv /\ DetectorInv /\ DetectorInv' /\ [TransferNext]_transferVars => TypeInv'
  BY TypesStep
<1>2. TypeInv => TransferTypeOK
  BY DEF TypeInv
<1>3. QED
  BY <1>1, <1>2, TypesStart, DetectorInvariant, PTL DEF TransferSpec
=============================================================================
