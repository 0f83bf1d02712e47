------------------------------ MODULE Enrichment ------------------------------
(***************************************************************************)
(* The delay of a time-only event (cmd/processor/enrich.go): its predicted *)
(* time of day against the time the static schedule has for its stop, which*)
(* may lie on the other side of midnight.  Times are seconds; an epoch     *)
(* second counts from a midnight of the agency, and a day is as long as any*)
(* other.                                                                  *)
(***************************************************************************)
EXTENDS Integers

CONSTANT Day  \* seconds of a day

ASSUME DayAssumption == Day \in Nat \ {0}

\* A stop's times in service-day seconds, which may exceed a day; a stop the
\* schedule does not know has 0 for both.
StopTimes == [arrival : Nat, departure : Nat]

\* The time for the kind of event, or the other one when it is 0.
ScheduledTime(row, kind) ==
  LET own == IF kind = "departure" THEN row.departure ELSE row.arrival IN
  IF own # 0 THEN own ELSE IF row.arrival # 0 THEN row.arrival ELSE row.departure

SecsSinceMidnight(epoch) == epoch % Day

AbsSecs(x) == IF x < 0 THEN -x ELSE x

\* The raw difference, or one a day away that is smaller.
Nearest(raw) ==
  IF AbsSecs(raw - Day) < AbsSecs(raw) THEN raw - Day
  ELSE IF AbsSecs(raw + Day) < AbsSecs(raw) THEN raw + Day
  ELSE raw

EnrichedDelay(row, kind, predicted) ==
  Nearest(SecsSinceMidnight(predicted) - ScheduledTime(row, kind))
=============================================================================
