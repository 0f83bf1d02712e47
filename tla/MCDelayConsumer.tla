--------------------------- MODULE MCDelayConsumer ---------------------------
(***************************************************************************)
(* Small instances of DelayConsumer: one trip, two stops, and messages     *)
(* whose delays lie on both sides of the smoothing threshold.              *)
(***************************************************************************)
EXTENDS DelayConsumer

CONSTANTS t1, s1, s2

MCTrips == {t1}
MCStops == {s1, s2}
\* s1 is served at 24:59:50 by the timetable; s2 is not known to it.
MCTimetable == [k \in MCTrips \X MCStops |->
  IF k[2] = s1 THEN [arrival |-> 0, departure |-> 89990] ELSE [arrival |-> 0, departure |-> 0]]

At(kind, stop, delay, at) ==
  [kind |-> kind, trip |-> t1, stop |-> stop, delay |-> delay,
   predicted |-> 0, scheduled |-> 0, at |-> at]

\* A time-only observation: 60 s late at s1, at 1:00:50.
TimeOnly(stop, at) == [At("arrival", stop, 0, at) EXCEPT !.predicted = 3650]

\* At s1, jumps within the smoothing threshold (10 to 60) and beyond it (to
\* 605), with observation times in either order.
MCMessages ==
  {At("arrival", s1, 10, 1), At("arrival", s1, 605, 2), TimeOnly(s1, 2),
   At("departure", s2, 40, 1), At("skip", s1, 0, 1),
   At("cancel", TripWide, 0, 1), At("corrupt", s1, 0, 1)}

NoFaults   == [k \in BudgetKinds |-> 0]
\* Any three faults of different kinds.
AnyFaults  == [k \in BudgetKinds |-> IF k \in {"messages", "faults"} THEN 3 ELSE 1]
InOrder    == [NoFaults EXCEPT !["messages"] = 2]
ErrorsOnly == [NoFaults EXCEPT !["messages"] = 2, !["errors"] = 3, !["faults"] = 3]
=============================================================================
