----------------------------- MODULE MCPipeline -----------------------------
(***************************************************************************)
(* Small instances of Pipeline: one trip, one stop scheduled ten seconds   *)
(* before midnight, and a feed that changes once to three times.           *)
(***************************************************************************)
EXTENDS Pipeline

CONSTANTS t1, s1

MCTrips     == {t1}
MCStops     == {s1}
MCTimetable == [k \in MCTrips \X MCStops |-> [arrival |-> 86390, departure |-> 86390]]

Arrives(d, t) == [skipped |-> FALSE, arrival |-> [delay |-> d, time |-> t], departure |-> NoTimes]
WithDelay(d) == Arrives(d, 86390 + d)
TimeOnly(t)  == Arrives(NoDelay, t)
Skipped      == [skipped |-> TRUE, arrival |-> NoTimes, departure |-> NoTimes]
AtStop(u)    == [s \in MCStops |-> u]

\* Jumps within the smoothing threshold (0 s, and 60 s as a time only), a skip
\* and a cancellation.
Calm == {Cancelled} \cup {AtStop(u) : u \in {WithDelay(0), TimeOnly(86450), Skipped}}
\* The same delay again after a cancellation.
Reinstated == {AtStop(WithDelay(60)), Cancelled}
\* Two delays around a cancellation.
CancelledAgain == {AtStop(WithDelay(0)), AtStop(WithDelay(60)), Cancelled}
\* A jump beyond the smoothing threshold.
Jump == {AtStop(WithDelay(0)), AtStop(WithDelay(600))}
\* A lagging snapshot between close readings.
Lagging == {AtStop(WithDelay(0)), AtStop(WithDelay(10)), AtStop(WithDelay(60))}

NoEvents     == [k \in FeedBudgetKinds |-> 0]
OneChange    == [NoEvents EXCEPT !["changes"] = 1]
TwoChanges   == [NoEvents EXCEPT !["changes"] = 2]
ThreeChanges == [NoEvents EXCEPT !["changes"] = 3]
LaggingFeed  == [TwoChanges EXCEPT !["faults"] = 1, !["staleFetches"] = 1]
FeedFaults   == [TwoChanges EXCEPT !["faults"] = 1, !["sendFailures"] = 1,
                   !["restarts"] = 1]
AnyFeedFault == [TwoChanges EXCEPT !["faults"] = 1, !["staleFetches"] = 1,
                   !["sendFailures"] = 1, !["duplicates"] = 1, !["restarts"] = 1]

ConsumerEvents == {"messages", "errors", "lostReplies", "timeouts",
                   "rebalances", "crashes", "expiries", "faults"}
NoFaults       == [k \in ConsumerEvents |-> 0]
Expiry         == [NoFaults EXCEPT !["expiries"] = 1, !["faults"] = 1]
ConsumerFaults == [Expiry EXCEPT !["crashes"] = 1, !["lostReplies"] = 1]
LostReply      == [ConsumerFaults EXCEPT !["lostReplies"] = 1]
=============================================================================
