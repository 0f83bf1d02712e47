------------------------------ MODULE MCIngest ------------------------------
(***************************************************************************)
(* A small instance of Ingest: one trip with two stops.                    *)
(***************************************************************************)
EXTENDS Ingest

CONSTANTS t1, s1, s2

MCTrips == {t1}
MCStops == {s1, s2}

Arrives(d, t) == [skipped |-> FALSE, arrival |-> [delay |-> d, time |-> t], departure |-> NoTimes]
WithDelay(d)  == Arrives(d, 1000 + d)
\* The arrival has neither a delay nor a time.
Departs(t)    == [Arrives(NoDelay, 0) EXCEPT !.departure = [delay |-> NoDelay, time |-> t]]
Skipped       == [skipped |-> TRUE, arrival |-> NoTimes, departure |-> NoTimes]

AtStops(u1, u2) == [s \in MCStops |-> IF s = s1 THEN u1 ELSE u2]

\* At s1, the delay drifts: 20 is within the threshold of 10 and of 30, and 30 is not
\* of 10.  1040 is a departure's time; one snapshot skips a stop, and one is a
\* cancellation.
MCUpdates ==
  {Cancelled, AtStops(WithDelay(10), Skipped), AtStops(WithDelay(20), Missing),
   AtStops(WithDelay(30), Missing), AtStops(Departs(1040), Missing)}

\* Any three faults of different kinds.
MCFeedBudget ==
  [k \in FeedBudgetKinds |->
     IF k \in FeedFaultKinds THEN 1 ELSE IF k = "changes" THEN 2 ELSE 3]
=============================================================================
