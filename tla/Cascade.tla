------------------------------- MODULE Cascade -------------------------------
(***************************************************************************)
(* The propagation engine's model (internal/propagation/engine.go and      *)
(* config.go): what a broken transfer delays first, how the delay ripples  *)
(* down a route, and which further transfers it breaks.  Operators over    *)
(* the loaded graph, a snapshot of live delays and the outcome stores;     *)
(* Predictions.tla is the walk that uses them.                             *)
(*                                                                         *)
(* A confidence is a power of the decay factor and is kept as its          *)
(* exponent.  Shares are tenths or thousandths.                            *)
(***************************************************************************)
EXTENDS StaticGraph, OutcomeHistory

CONSTANTS
  LoadedGraph, \* what BuildGraph made at the start
  GivenConfig, \* the propagation block of the configuration, 0 for what it does
               \* not give, or NoConfig when the file cannot be read
  NoConfig,
  MinTrack,    \* minTrackConfidence, in tenths
  Shrinkage,   \* shrinkageK
  MaxConnAdd,  \* maxConnectingDelayAddSecs
  DefaultMin,  \* minimum transfer time when the feed gives none (120)
  ExponentCap, \* bound on exponents, for TLC: no confidence that counts has a larger one
  NoRoute

\* A definition, which TLC evaluates once.
Graph == LoadedGraph

DefaultConfig ==
  [baseDwell |-> 30, elasticity |-> 3, loadIncrease |-> 150, decay |-> 7,
   minConfidence |-> 2, minDelay |-> 15, maxDepth |-> 5, maxImpacts |-> 100,
   perStopMin |-> 5]

\* A parameter that is not given is zero.
WithDefaults(c) == [f \in DOMAIN DefaultConfig |-> IF c[f] = 0 THEN DefaultConfig[f] ELSE c[f]]

LoadConfig == WithDefaults(GivenConfig)

\* The server goes on without a file; the processor does not start.
Cfg == IF GivenConfig = NoConfig THEN DefaultConfig ELSE LoadConfig

ASSUME CascadeAssumption ==
  /\ GivenConfig \in [DOMAIN DefaultConfig -> Nat] \cup {NoConfig}
  /\ Cfg.elasticity <= 10 /\ Cfg.decay \in 1..9
  /\ ExponentCap \in Nat
  /\ \A tenths \in {Cfg.minConfidence, MinTrack} :
       10 * Cfg.decay ^ ExponentCap < tenths * 10 ^ ExponentCap
  /\ MinTrack \in 1..10 /\ Shrinkage \in Nat \ {0} /\ MaxConnAdd \in Nat
  /\ DefaultMin \in Nat /\ WellFormed(Graph)
  /\ NoRoute \notin {Graph.route[t] : t \in DOMAIN Graph.route}

\* The largest exponent whose confidence is at least so many tenths; certainty
\* counts whatever the threshold.
MaxExponent(tenths) ==
  Max({0} \cup {n \in 1..ExponentCap : 10 * Cfg.decay ^ n >= tenths * 10 ^ n})
MaxDecay   == MaxExponent(Cfg.minConfidence)
TrackDecay == MaxExponent(MinTrack)

-----------------------------------------------------------------------------
(* Delays.                                                                 *)

\* math.Round of a quotient, halves away from zero.
Rounded(a, b) == IF a >= 0 THEN (2 * a + b) \div (2 * b) ELSE -((b - 2 * a) \div (2 * b))

\* Faulty variant: the samples are not counted among the weights.
BlendedUncounted(evidence, thousandths) ==
  Rounded(1000 * evidence.sum + Shrinkage * thousandths, 1000 * Shrinkage)

\* Averages weigh in with their sample count.
Blended(evidence, thousandths) ==
  Rounded(1000 * evidence.sum + Shrinkage * thousandths, 1000 * (evidence.count + Shrinkage))

\* The delay a passenger has without any outcome known, in thousandths: on one's
\* own route the train's delay; else the wait, at least half a headway, or the
\* share of the source's delay that becomes dwell; plus the receiving route's
\* delay, capped.
ScheduleEstimate(impact, dir, connDelay, tod) ==
  LET headway == GetScheduledHeadway(Graph, impact.to, dir, impact.station, tod)
      waited  == Max({1000 * impact.wait} \cup {250 * h : h \in {headway} \ {NoHeadway}})
      rides   == IF waited > 0 THEN waited ELSE (impact.delay * Cfg.loadIncrease * Cfg.elasticity) \div 10
      cap     == IF headway = NoHeadway THEN 1000 * MaxConnAdd ELSE 500 * headway
  IN IF impact.from # NoRoute /\ impact.from = impact.to THEN 1000 * impact.delay
     ELSE rides + Min({1000 * connDelay, cap})

\* Engine's direction: the next viable trip's, 0 when it is unknown.
ImpactDirection(impact) ==
  IF impact.viable \in DOMAIN Graph.dir THEN Graph.dir[impact.viable] ELSE 0

\* snapshotLiveDelays: the largest active lateness of a route at a station.
LiveDelay(live, route, station) ==
  Max({0} \cup {s.delay : s \in {d \in live : d.route = route /\ Station(Graph, d.stop) = station}})

\* blendPerStop
PerStop(stops, route, station, hour, now, modelled) ==
  LET evidence == GetAverageStopImpact(stops, route, station, hour, now) IN
  IF evidence.count < Cfg.perStopMin THEN modelled ELSE Blended(evidence, 1000 * modelled)

ExtraDwell == Rounded(Cfg.baseDwell * Cfg.loadIncrease * Cfg.elasticity, 10000)

-----------------------------------------------------------------------------
(* The walk's items.                                                       *)

\* seedDownstream: the first stop whatever its delay, then each further stop up
\* to the first whose confidence or delay is too small.
Seed(stops, now, hour, route, station, dir, start, decay, hops, kind) ==
  LET rows == GetDownstreamStops(Graph, route, station, dir)
      Reaches(i) == decay + i <= MaxDecay /\ start + (i - 1) * ExtraDwell >= Cfg.minDelay
      At(i) == LET stop == Station(Graph, rows[i].stop) IN
        [route |-> route, stop |-> stop, hops |-> hops, kind |-> kind,
         delay |-> IF i = 1 THEN start
                   ELSE PerStop(stops, route, stop, hour, now, start + (i - 1) * ExtraDwell),
         decay |-> IF i = 1 THEN decay ELSE decay + i]
  IN {At(i) : i \in {j \in DOMAIN rows : \A k \in 2..j : Reaches(k)}}

PassedOn(delay) == (delay * Cfg.elasticity) \div 10

\* A transfer without a minimum time gets the default.
MinTime(x) == IF x.min <= 0 THEN DefaultMin ELSE x.min

\* Faulty variant: the connecting route's own delay is left out.
BrokenTransfersOnTime(item, visited, live) ==
  {b \in GetTransfersFrom(Graph, item.stop) \X {Graph.route[t] : t \in DOMAIN Graph.route} :
     /\ b[2] \in GetRoutesAtStop(Graph, b[1].to) \ {item.route}
     /\ <<b[2], b[1].to>> \notin visited
     /\ item.delay >= MinTime(b[1])
     /\ item.decay + 1 <= MaxDecay
     /\ PassedOn(item.delay) >= Cfg.minDelay}

\* propagateTransfers
BrokenTransfers(item, visited, live) ==
  {b \in GetTransfersFrom(Graph, item.stop) \X {Graph.route[t] : t \in DOMAIN Graph.route} :
     /\ b[2] \in GetRoutesAtStop(Graph, b[1].to) \ {item.route}
     /\ <<b[2], b[1].to>> \notin visited
     /\ item.delay >= MinTime(b[1]) + LiveDelay(live, b[2], b[1].to)
     /\ item.decay + 1 <= MaxDecay
     /\ PassedOn(item.delay) >= Cfg.minDelay}

Cascaded(item, visited, live) ==
  {[route |-> b[2], stop |-> b[1].to, delay |-> PassedOn(item.delay),
    decay |-> item.decay + 1, hops |-> item.hops + 1, kind |-> "transfer"]
     : b \in BrokenTransfers(item, visited, live)}

\* deriveDirection, as a set: the direction of the next train to leave.
NextDirections(route, station, tod) ==
  LET after == EffectiveTod(Graph, station, route, tod)
      next  == GetNextDepartures(Graph, station, route, after, 1)
  IN {Graph.dir[StopTimesAt(Graph, station)[k].trip] : k \in next}

\* A cascade onto a route ripples down the direction of its next departure.
Rippled(item, stops, now, hour, tod) ==
  IF item.kind # "transfer" THEN {}
  ELSE UNION {Seed(stops, now, hour, item.route, item.stop, dir, item.delay, item.decay,
                   item.hops, "cascadeDwell") :
                dir \in NextDirections(item.route, item.stop, tod)}

Expands(item) == item.hops < Cfg.maxDepth /\ item.delay >= Cfg.minDelay
=============================================================================
