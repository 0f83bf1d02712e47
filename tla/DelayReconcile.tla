--------------------------- MODULE DelayReconcile ---------------------------
(***************************************************************************)
(* How the delay-state manager (internal/state/manager.go) folds one delay *)
(* observation into the value it keeps for a trip at a stop: smoothing of  *)
(* large early jumps, confidence, and rejection of older observations.     *)
(*                                                                         *)
(* Delays are whole seconds, as in the code.  Confidence is counted in     *)
(* tenths (0.5 is 5), and the update counter, which the code only compares *)
(* with SmoothingMaxUpdates, saturates there.                              *)
(***************************************************************************)
EXTENDS Integers

CONSTANTS
  SmoothingThreshold,   \* a jump beyond this many seconds is dampened
  SmoothingMaxUpdates,  \* ... while fewer observations than this were stored
  CloseDelta,           \* an observation this close raises confidence
  NoState               \* the key is absent from Redis

ASSUME ReconcileAssumption ==
  /\ SmoothingThreshold \in Nat
  /\ SmoothingMaxUpdates \in Nat \ {0}
  /\ CloseDelta \in Nat

ConfidenceInit == 5
ConfidenceStep == 1
ConfidenceMax  == 10

\* The stored JSON value, without the identifying fields that repeat the key.
DelayState == [delay : Int, observedAt : Nat,
               confidence : ConfidenceInit..ConfidenceMax,
               updates : 1..SmoothingMaxUpdates]

AbsDiff(a, b) == IF a < b THEN b - a ELSE a - b
AtMost(n, cap) == IF n > cap THEN cap ELSE n

\* math.Round on a number of tenths: halves move away from zero.
RoundTenths(x) == IF x >= 0 THEN (x + 5) \div 10 ELSE -((5 - x) \div 10)

\* Faulty variant: the old value is subtracted instead of added.
BlendOvershoots(incoming, stored) == RoundTenths(13 * incoming - 3 * stored)

\* The 70/30 blend.
Blend(incoming, stored) == RoundTenths(7 * incoming + 3 * stored)

FirstObservation(ev) ==
  [delay |-> ev.delay, observedAt |-> ev.at,
   confidence |-> ConfidenceInit, updates |-> 1]

\* Faulty variant: older observations are accepted.
OutOfOrderNever(existing, ev) == FALSE

OutOfOrder(existing, ev) == existing # NoState /\ ev.at < existing.observedAt

SmoothedDelay(existing, ev) ==
  IF /\ AbsDiff(ev.delay, existing.delay) > SmoothingThreshold
     /\ existing.updates < SmoothingMaxUpdates
  THEN Blend(ev.delay, existing.delay)
  ELSE ev.delay

NextConfidence(existing, ev) ==
  IF AbsDiff(ev.delay, existing.delay) <= CloseDelta
  THEN AtMost(existing.confidence + ConfidenceStep, ConfidenceMax)
  ELSE ConfidenceInit

\* The value written for an observation that was not rejected.
Reconcile(existing, ev) ==
  IF existing = NoState
  THEN FirstObservation(ev)
  ELSE [delay |-> SmoothedDelay(existing, ev), observedAt |-> ev.at,
        confidence |-> NextConfidence(existing, ev),
        updates |-> AtMost(existing.updates + 1, SmoothingMaxUpdates)]
=============================================================================
