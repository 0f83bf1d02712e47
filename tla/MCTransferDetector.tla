-------------------------- MODULE MCTransferDetector --------------------------
(***************************************************************************)
(* Small instances of TransferDetector: the train of route A arrives at    *)
(* platform s1 of station S, and passengers change to station D, which A,  *)
(* B and C serve.  A service day has sixteen time units and four hours.    *)
(***************************************************************************)
EXTENDS TransferDetector

CONSTANTS A, B, C, S, s1, D, d1, d2, a1, b1, b2, b3, b4, q1, k, kc,
          daily, special, off

MCTail == [t \in {a1, b1, b2, b3, b4, q1} |->
  CASE t = a1 -> NoId [] t = q1 -> kc [] OTHER -> k]

Platforms == [x \in {s1, S, d1, D, d2} |->
  CASE x = s1 -> S [] x \in {d1, d2} -> D [] OTHER -> NoStop]

Today == 2
Calendar ==
  {[service |-> daily,   from |-> 0, until |-> 9, days |-> 0..6],
   [service |-> off,     from |-> 0, until |-> 9, days |-> {3}],
   [service |-> special, from |-> 3, until |-> 9, days |-> 0..6]}

On(service, type) == [date |-> Today, service |-> service, type |-> type]

Change(min) == TransferRow(s1, d1, 2, min)
ATrip == TripRow(A, daily, 0)
ARows == {StopTime(a1, s1, 2, 2, 1), StopTime(a1, d2, 6, 6, 2)}

-----------------------------------------------------------------------------
\* Three trips of B at any times, past midnight included, in any directions.  The
\* trips are interchangeable, so they are taken in the order of departure, and so
\* are the directions: the first trip's is 0.
TimedFeed(dep, dir) ==
  [parent |-> Platforms,
   trips |-> [t \in {a1, b1, b2, b3} |-> IF t = a1 THEN ATrip ELSE TripRow(B, daily, dir[t])],
   stopTimes |-> ARows \cup {StopTime(t, d1, dep[t], dep[t], 1) : t \in {b1, b2, b3}},
   transfers |-> {Change(4)}, calendar |-> Calendar, exceptions |-> <<>>]

LastDeparture == 20
EvenTimes == {2 * i : i \in 0..(LastDeparture \div 2)}
Timetables == {dep \in [{b1, b2, b3} -> EvenTimes] : dep[b1] <= dep[b2] /\ dep[b2] <= dep[b3]}
Directions == {dir \in [{b1, b2, b3} -> {0, 1}] : dir[b1] = 0}
TimedFeeds == {TimedFeed(dep, dir) : dep \in Timetables, dir \in Directions}

\* Four trips of B and one of C on several services, with malformed times, and
\* transfers of several types, some without a minimum, between platforms.
SpelledFeed(service, dep, transfers, exceptions) ==
  [parent |-> Platforms,
   trips |-> [t \in {a1, b1, b2, b3, b4, q1} |->
     CASE t = a1 -> ATrip
       [] t = q1 -> TripRow(C, daily, 0)
       [] t = b4 -> TripRow(B, daily, 0)
       [] OTHER  -> TripRow(B, service[t], 0)],
   stopTimes |-> ARows \cup
     {StopTime(b1, d1, dep[1], dep[1], 1), StopTime(b2, d1, dep[2], Malformed, 1),
      StopTime(b3, d2, dep[3], dep[3], 1), StopTime(b4, d1, dep[4], dep[4], 1),
      StopTime(b4, s1, Malformed, dep[4], 2), StopTime(q1, d2, 8, 10, 1)},
   transfers |-> transfers, calendar |-> Calendar, exceptions |-> exceptions]

Spelled ==
  {SpelledFeed(service, dep, transfers, exceptions) :
     service \in [{b1, b2, b3} -> {daily, special, off}],
     dep \in {<<2, 4, 10, 12>>, <<4, 6, 7, 10>>, <<6, 8, 12, 18>>},
     transfers \in {{Change(4), TransferRow(s1, D, 3, 2)}, {TransferRow(S, d2, 0, 0)},
                    {Change(5), TransferRow(S, d2, 2, 2)}},
     exceptions \in {<<>>, <<On(special, 1), On(daily, 2)>>, <<On(special, 1), On(special, 2), On(off, 3)>>}}

SomeFeeds == TimedFeeds \cup Spelled
TimedOnly == TimedFeeds
SpelledOnly == Spelled

-----------------------------------------------------------------------------
At(scheduled, observed, delay) ==
  [route |-> A, stop |-> s1, scheduled |-> scheduled, observed |-> observed, delay |-> delay]

\* Early in the morning, the overnight window's end, in the middle of the day,
\* its end, and a train without a schedule; early, on time and late.
SomeArrivals == {At(2, 4, 4), At(4, 4, 2), At(2, 2, 0), At(6, 8, 4),
                 At(14, 15, 6), At(NoTime, 2, 2)}
Night        == {At(NoTime, 0, 2)}
Daytime      == {At(8, 8, 2)}
Midnight     == {At(0, 2, 2)}

LateTrains == {4}
EarlyLate  == {-4, 4}
StaticIds  == {b1, b2, b3}
TailIds    == {k, kc}
=============================================================================
