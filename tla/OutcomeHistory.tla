---------------------------- MODULE OutcomeHistory ----------------------------
(***************************************************************************)
(* The two stores of observed outcomes (internal/propagation/history.go    *)
(* and stopimpact.go): Redis sorted sets, scored by the time of recording. *)
(* A store maps a key to the set of its outcomes.                          *)
(***************************************************************************)
EXTENDS Integers, FiniteSetsExt

CONSTANT Retention  \* historyRetentionSecs

ASSUME HistoryAssumption == Retention \in Nat

\* Transfer pairs, and stops, each by the hour of the day.
PairKey(from, to, station, hour) == [from |-> from, to |-> to, station |-> station, hour |-> hour]
StopKey(route, station, hour) == [route |-> route, station |-> station, hour |-> hour]

NoOutcomes == {}

Outcomes(store, key) == IF key \in DOMAIN store THEN store[key] ELSE NoOutcomes

\* observation and stopOutcome: "At (nanoseconds) makes each member unique" in the
\* set; the score is in seconds.
Member(now, nanos, value) == [at |-> now, nanos |-> nanos, value |-> value]

\* ZADD and ZREMRANGEBYSCORE, in one pipeline.
Stored(store, key, now, member) ==
  LET kept == {o \in Outcomes(store, key) \cup {member} : o.at > now - Retention}
  IN [k \in DOMAIN store \cup {key} |-> IF k = key THEN kept ELSE store[k]]

\* Faulty variant: the member does not tell equal outcomes of a second apart.
RecordCollapsing(store, key, now, nanos, value) == Stored(store, key, now, Member(now, 0, value))

Record(store, key, now, nanos, value) == Stored(store, key, now, Member(now, nanos, value))

RecordObservation(pairs, from, to, station, hour, now, nanos, impact) ==
  Record(pairs, PairKey(from, to, station, hour), now, nanos, impact)

RecordStopOutcome(stops, route, station, hour, now, nanos, observed) ==
  Record(stops, StopKey(route, station, hour), now, nanos, observed)

\* ZRANGEBYSCORE; the average is kept as a sum and a count.
Recent(store, key, now) == {o \in Outcomes(store, key) : o.at >= now - Retention}

Evidence(store, key, now) ==
  [sum   |-> MapThenSumSet(LAMBDA o : o.value, Recent(store, key, now)),
   count |-> Cardinality(Recent(store, key, now))]

GetAverageImpact(pairs, from, to, station, hour, now) ==
  Evidence(pairs, PairKey(from, to, station, hour), now)

GetAverageStopImpact(stops, route, station, hour, now) ==
  Evidence(stops, StopKey(route, station, hour), now)

\* GetTransferStats: the pairs with evidence at a station in an hour.
TransferStats(store, station, hour, now) ==
  {[from |-> k.from, to |-> k.to, evidence |-> Evidence(store, k, now)] :
     k \in {p \in DOMAIN store : /\ p.station = station /\ p.hour = hour
                                 /\ Evidence(store, p, now).count > 0}}
=============================================================================
