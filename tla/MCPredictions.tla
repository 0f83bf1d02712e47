---------------------------- MODULE MCPredictions ----------------------------
(***************************************************************************)
(* A small instance of Predictions: three lines that form a cycle of       *)
(* transfers.  L runs x-a-b-c, M crosses it at b and ends at e, and N      *)
(* leads from e back to x, by g, which M serves too.  Times, delays,       *)
(* thresholds and shares are the code's; a moment is half a day apart from *)
(* the next but one, at 8:10 and 9:10.                                     *)
(***************************************************************************)
EXTENDS Predictions

CONSTANTS L, M, N, x, x1, a, b, c, d, e, f, g,
          l1, l2, l3, l4, m1, m2, m3, n1, n2, n3, nt, daily

Trip(route, dir) == TripRow(route, daily, dir)
MCTrips == [t \in {l1, l2, l3, l4, m1, m2, m3, n1, n2, n3} |->
  CASE t \in {l1, l2, l3} -> Trip(L, 0) [] t = l4 -> Trip(L, 1)
    [] t \in {m1, m3}     -> Trip(M, 0) [] t = m2 -> Trip(M, 1)
    [] t \in {n1, n2}     -> Trip(N, 0) [] t = n3 -> Trip(N, 1)]

MCTail == [t \in DOMAIN MCTrips |-> IF t = n2 THEN nt ELSE NoId]

At(hour, minute) == 3600 * hour + 60 * minute

\* A trip stops every five minutes.
Run(t, path, start) ==
  {StopTime(t, path[i], start + 300 * (i - 1), start + 300 * (i - 1), i) : i \in DOMAIN path}

LPath == <<x1, a, b, c>>
MPath == <<g, d, b, f, e>>
NPath == <<e, a, g, x>>

Cross(from, to, min) == TransferRow(from, to, 2, min)

MCFeed ==
  [parent |-> [s \in {x, x1, a, b, c, d, e, f, g} |-> IF s = x1 THEN x ELSE NoStop],
   trips |-> MCTrips,
   stopTimes |-> Run(l1, LPath, At(8, 0)) \cup Run(l2, LPath, At(8, 20)) \cup Run(l3, LPath, At(9, 15))
     \cup Run(l4, Reverse(LPath), At(8, 0)) \cup Run(m1, MPath, At(8, 40))
     \cup Run(m2, Reverse(MPath), At(8, 12)) \cup Run(m3, MPath, At(9, 20))
     \cup Run(n1, NPath, At(8, 30)) \cup Run(n2, NPath, At(8, 50)) \cup Run(n3, Reverse(NPath), At(7, 0)),
   transfers |-> {Cross(b, b, 0), Cross(e, e, 180), Cross(a, a, 120), Cross(g, g, 120),
                  Cross(g, x, 120), Cross(c, f, 240)},
   calendar |-> {[service |-> daily, from |-> 0, until |-> 9, days |-> 0..6]},
   exceptions |-> <<>>]

\* The comparison makes TLC tabulate the graph once.
MCGraph ==
  CHOOSE graph \in {BuildGraph(MCFeed, 0, [s \in ServedStations(MCFeed, 0) |->
    SetToSortSeq(RowsAt(MCFeed, 0, s), LAMBDA r, q : r.dep < q.dep)])} : graph = graph

MCClock == [i \in 0..3 |-> IF i % 2 = 0 THEN At(8, 10) ELSE At(9, 10)]

\* One cascade of three lines fits the lowered limits; one outcome teaches a stop.
MCConfig == [p \in DOMAIN DefaultConfig |->
  CASE p = "maxDepth" -> 3 [] p = "maxImpacts" -> 12 [] p = "perStopMin" -> 1 [] OTHER -> 0]

MCKeys == <<[trip |-> l1, stop |-> x1, route |-> L], [trip |-> m2, stop |-> b, route |-> M],
            [trip |-> nt, stop |-> e, route |-> N]>>
MCDelays == {-300, 60, 300, 700, 1000}

-----------------------------------------------------------------------------
Late(delay) == IF delay = 0 THEN NoState ELSE [delay |-> delay, at |-> 0]
DelayState(l, m, n) == <<Late(l), Late(m), Late(n)>>

Broken(from, to, station, wait, viable) ==
  [kind |-> "broken", impact |-> [from |-> from, to |-> to, station |-> station,
                                  delay |-> 400, wait |-> wait, viable |-> viable, detected |-> 0]]

\* A long wait, one bounded by half a headway, none known, and a line's end.
LongWait == Broken(N, L, x, 1800, l2)
Breaks == {LongWait, Broken(N, L, x, 0, l2), Broken(N, L, a, 0, NoTrip), Broken(L, M, e, 900, m1)}

Ask(kind, field, value) == [kind |-> kind] @@ (field :> value)
Calls == {Ask("delays", "route", Everything), Ask("delays", "route", M), Ask("blast", "station", x),
          Ask("predict", "key", 1), Ask("predict", "key", 2), Ask("predict", "key", 3)}

Budget(menu, requests, writes, faults) ==
  [menu |-> menu, requests |-> requests, writes |-> writes, faults |-> faults]

Scenario(l, m, n, budget_) ==
  [stored |-> DelayState(l, m, n), budget |-> budget_]

\* Cascades under several delays, readers among writers, a tracker
\* among writers, and a pair that learns.
Walks    == {Scenario(l, m, n, Budget(Breaks, 1, 0, 0)) :
               <<l, m, n>> \in {<<0, 0, 0>>, <<0, 300, 0>>, <<1000, 0, 0>>, <<-300, 700, 60>>}}
Readers  == {Scenario(l, m, n, Budget(Calls, 1, 1, 1)) :
               <<l, m, n>> \in {<<300, 0, 0>>, <<-300, 700, 1000>>}}
Tracking == {Scenario(-300, 700, 60, Budget({LongWait}, 1, one[1], one[2])) : one \in {<<1, 0>>, <<0, 1>>}}
Learning == {Scenario(0, 0, 0, Budget({LongWait, Ask("reliability", "station", x) @@ ("hour" :> 8)}, n[1], 0, n[2])) :
               n \in {<<2, 0>>, <<1, 1>>}}

\* What PrimaryIsInitial rests on is true of this instance.
ASSUME FirstStopAssumption == FirstStopLeast

AllScenarios == Walks \cup Readers \cup Tracking \cup Learning
=============================================================================
