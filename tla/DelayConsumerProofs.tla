------------------------- MODULE DelayConsumerProofs -------------------------
(***************************************************************************)
(* Proofs about DelayConsumer, for any trips, stops, messages, faults and  *)
(* smoothing parameters: every variable keeps its type; once the group has *)
(* a committed offset, no committed offset ever covers an unprocessed      *)
(* message; as long as no write outlives its client, no stored observation *)
(* is replaced by an older one; what is stored for a key lies between two  *)
(* delays published for it; and however often messages are processed       *)
(* again, the drained log leaves what processing each once would leave.    *)
(***************************************************************************)
EXTENDS DelayConsumer, DataLemmas

USE DEF BudgetKinds, FaultKinds

Message == {ev \in Event : WellFormed(ev)}

\* A message in hand is in the log, and a claim that is down holds none.
HandOK ==
  /\ phase # "idle" => claim = "running" /\ position < Len(topic)
  /\ claim = "down" => marked = NoOffset

\* The log has more messages, and the same ones before these.
Extended ==
  /\ topic' \in Seq(Message) /\ Len(topic) <= Len(topic')
  /\ \A i \in 1..Len(topic) : topic'[i] = topic[i]

\* Whoever produces only extends the log; Produce is one way of it.
Grown ==
  /\ Extended
  /\ left' \in [BudgetKinds -> Nat] /\ left'["timeouts"] = left["timeouts"]
  /\ UNCHANGED <<committed, redis, late, claimVars, historyVars>>

-----------------------------------------------------------------------------
(* Lemmas about the operators.                                             *)

\* Spending a budget leaves a budget.
LEMMA SpendType ==
  ASSUME NEW what \in BudgetKinds, left \in [BudgetKinds -> Nat],
         Spend(what) \/ SpendFault(what)
  PROVE  left' \in [BudgetKinds -> Nat]
BY DEF Spend, SpendFault

\* Blending two delays gives a delay in whole seconds.
LEMMA BlendType ==
  ASSUME NEW a \in Int, NEW b \in Int
  PROVE  Blend(a, b) \in Int
BY DEF Blend, RoundTenths

\* What is stored for an observation is a delay state, and its time is the
\* observation's.
LEMMA ReconcileType ==
  ASSUME NEW existing \in DelayState \cup {NoState}, NEW ev \in Event
  PROVE  /\ Reconcile(existing, ev) \in DelayState
         /\ Reconcile(existing, ev).observedAt = ev.at
<1> USE ReconcileAssumption
<1>1. ev.delay \in Int /\ ev.at \in Nat
  BY DEF Event
<1>2. CASE existing = NoState
  BY <1>1, <1>2 DEF Reconcile, FirstObservation, DelayState, ConfidenceInit, ConfidenceMax
<1>3. CASE existing # NoState
  <2>1. existing \in DelayState
    BY <1>3
  <2>2. SmoothedDelay(existing, ev) \in Int
    BY <1>1, <2>1, BlendType DEF SmoothedDelay, DelayState
  <2>3. NextConfidence(existing, ev) \in ConfidenceInit..ConfidenceMax
    BY <2>1 DEF NextConfidence, AtMost, DelayState, ConfidenceInit, ConfidenceMax, ConfidenceStep
  <2>4. AtMost(existing.updates + 1, SmoothingMaxUpdates) \in 1..SmoothingMaxUpdates
    BY <2>1 DEF AtMost, DelayState
  <2> QED BY <1>1, <1>3, <2>2, <2>3, <2>4 DEF Reconcile, DelayState
<1> QED BY <1>2, <1>3

\* A wrapped delay is a whole number,
LEMMA NearestType ==
  ASSUME NEW raw \in Int
  PROVE  Nearest(raw) \in Int
BY DayAssumption DEF Nearest

\* and so is the delay the enrichment computes.
LEMMA EnrichedDelayType ==
  ASSUME NEW row \in StopTimes, NEW kind, NEW predicted \in Nat
  PROVE  EnrichedDelay(row, kind, predicted) \in Int
<1>1. ScheduledTime(row, kind) \in Nat
  BY DEF ScheduledTime, StopTimes
<1>2. SecsSinceMidnight(predicted) \in Int
  BY DayAssumption DEF SecsSinceMidnight
<1> QED BY <1>1, <1>2, NearestType DEF EnrichedDelay

\* A train less than half a day early or late gets its true delay, also when it
\* is scheduled on one side of midnight and predicted on the other: "pick the
\* delay candidate ... with the smallest magnitude" (enrich.go:42-46).
THEOREM LatenessAcrossMidnight ==
  ASSUME NEW sched \in Nat, NEW d \in Int, NEW tod \in Nat, NEW days \in {-1, 0, 1},
         tod = sched + d - days * Day, 2 * d < Day, -Day < 2 * d
  PROVE  Nearest(tod - sched) = d
<1> Day \in Nat \ {0}
  BY DayAssumption
<1>1. CASE days = 0
  <2>1. tod - sched = d
    BY <1>1
  <2> QED BY <2>1 DEF Nearest, AbsSecs
<1>2. CASE days = 1
  <2>1. tod - sched = d - Day
    BY <1>2
  <2> QED BY <2>1 DEF Nearest, AbsSecs
<1>3. CASE days = -1
  <2>1. tod - sched = d + Day
    BY <1>3
  <2> QED BY <2>1 DEF Nearest, AbsSecs
<1> QED BY <1>1, <1>2, <1>3

\* Enrichment changes neither the kind, the key nor the time of an event.
LEMMA EnrichedType ==
  ASSUME NEW ev \in Message
  PROVE  /\ Enriched(ev) \in Message
         /\ Enriched(ev).kind = ev.kind /\ Enriched(ev).at = ev.at
         /\ KeyOf(Enriched(ev)) = KeyOf(ev)
<1>1. CASE Enriched(ev) = ev
  BY <1>1
<1>2. CASE Enriched(ev) # ev
  <2>1. TimeOnlyEvent(ev)
    BY <1>2 DEF Enriched
  <2>2. KeyOf(ev) \in Keys
    BY <2>1, ConsumerAssumption
       DEF TimeOnlyEvent, Message, Event, WellFormed, KeyOf, Keys, DelayKinds
  <2>3. Timetable[KeyOf(ev)] \in StopTimes /\ ev.predicted \in Nat
    BY <2>2, ConsumerAssumption DEF Message, Event
  <2>4. EnrichedDelay(Timetable[KeyOf(ev)], ev.kind, ev.predicted) \in Int
    BY <2>3, EnrichedDelayType
  <2>5. PICK d \in Int, n \in Int :
          Enriched(ev) = [ev EXCEPT !.delay = d, !.scheduled = n]
    <3>1. \A d \in Int : ev.predicted - d \in Int
      BY <2>3
    <3>2. Enriched(ev) = Retimed(ev, EnrichedDelay(Timetable[KeyOf(ev)], ev.kind, ev.predicted))
      BY <2>1 DEF Enriched
    <3> QED BY <2>4, <3>1, <3>2 DEF Retimed
  <2>6. /\ Enriched(ev) \in Event
        /\ Enriched(ev).kind = ev.kind /\ Enriched(ev).at = ev.at
        /\ Enriched(ev).stop = ev.stop /\ Enriched(ev).trip = ev.trip
    BY <2>5 DEF Message, Event
  <2> QED BY <2>6 DEF Message, WellFormed, KeyOf
<1> QED BY <1>1, <1>2

\* The key of an event that names a stop is a key of Redis.
LEMMA KeyType ==
  ASSUME NEW ev \in Message, ev.kind # "cancel"
  PROVE  KeyOf(ev) \in Keys
BY DEF Message, Event, WellFormed, KeyOf, Keys

\* The message in hand.
LEMMA InHandType ==
  ASSUME TypeOK, HandOK, phase # "idle"
  PROVE  InHand \in Message
<1>1. topic \in Seq(Message) /\ position + 1 \in 1..Len(topic)
  BY DEF TypeOK, HandOK, Message
<1>2. topic[position + 1] \in Message
  BY <1>1
<1> QED BY <1>2, EnrichedType DEF InHand

\* What ProcessEvent is about to write.
LEMMA WriteType ==
  ASSUME TypeOK, HandOK, phase = "write"
  PROVE  /\ WriteOf(InHand) \in [keys : SUBSET Keys, value : DelayState \cup {NoState}]
         /\ Executed(WriteOf(InHand)) \in [Keys -> DelayState \cup {NoState}]
<1> USE DEF TypeOK
<1>1. InHand \in Message
  BY InHandType
<1>2. Reconcile(held, InHand) \in DelayState
  BY <1>1, ReconcileType DEF Message
<1>3. InHand.kind # "cancel" => KeyOf(InHand) \in Keys
  BY <1>1, KeyType
<1>4. WriteOf(InHand) \in [keys : SUBSET Keys, value : DelayState \cup {NoState}]
  BY <1>2, <1>3 DEF WriteOf, DelayKinds
<1> QED BY <1>4 DEF Executed

-----------------------------------------------------------------------------
(* Types.                                                                  *)

\* The inductive invariant behind type correctness: the message in hand must be
\* in the log for what is computed from it to have a type.
ConsumerInv == TypeOK /\ HandOK

\* At the start nothing is claimed, stored or late.
LEMMA InitType == Init => ConsumerInv
BY ConsumerAssumption DEF Init, ConsumerInv, TypeOK, HandOK, NoOffset, Phases

\* Ending a claim, or another attempt, keeps the claim's types.
LEMMA EndClaimType ==
  ASSUME ConsumerInv, EndClaim \/ (RetryOrGiveUp /\ phase \in {"call", "write"}),
         topic' = topic
  PROVE  /\ claim' \in {"down", "running"} /\ position' \in Nat
         /\ marked' \in Nat \cup {NoOffset} /\ committed' \in Nat \cup {NoOffset}
         /\ phase' \in Phases /\ attempts' \in 0..RetryAttempts
         /\ held' \in DelayState \cup {NoState} /\ scanned' \in SUBSET Keys
         /\ HandOK'
<1> USE ConsumerAssumption DEF ConsumerInv, TypeOK, HandOK, Phases
<1>1. CASE EndClaim
  BY <1>1 DEF EndClaim, FlushedOffset
<1>2. CASE /\ attempts < RetryAttempts /\ phase \in {"call", "write"}
           /\ attempts' = attempts + 1
           /\ phase' = "call" /\ held' = NoState /\ scanned' = {}
           /\ UNCHANGED <<claim, position, marked, committed>>
  <2>1. attempts' \in 0..RetryAttempts
    BY <1>2
  <2>2. HandOK'
    BY <1>2
  <2> QED BY <1>2, <2>1, <2>2
<1> QED BY <1>1, <1>2 DEF RetryOrGiveUp

\* A step of the module is the claim's, or makes the log grow.
LEMMA NextGrows ==
  ASSUME TypeOK, [Next]_vars
  PROVE  Consume \/ Grown
<1>1. topic \in Seq(Message) /\ left \in [BudgetKinds -> Nat]
  BY DEF TypeOK, Message
<1>2. CASE Produce
  <2>1. PICK ev \in Messages : topic' = Append(topic, ev)
    BY <1>2 DEF Produce
  <2>2. ev \in Message
    BY ConsumerAssumption DEF Message
  <2>3. Extended
    BY <1>1, <2>1, <2>2 DEF Extended
  <2>4. left' \in [BudgetKinds -> Nat] /\ left'["timeouts"] = left["timeouts"]
    BY <1>1, <1>2 DEF Produce, Spend
  <2> QED BY <1>2, <2>3, <2>4 DEF Produce, Grown
<1>3. CASE UNCHANGED vars
  BY <1>1, <1>3 DEF vars, Grown, Extended
<1> QED BY <1>2, <1>3 DEF Next

\* The log only ever grows.
LEMMA LogGrows ==
  ASSUME TypeOK, Consume \/ Grown
  PROVE  Extended
<1>1. CASE Consume
  <2>1. topic' = topic
    BY <1>1 DEF Consume, Progress, Faults, StartClaim, SkipCorrupt, Receive, Read, Write,
                Mark, CommandFails, ReplyLost, WriteTimesOut, SessionEnds, Crash, AutoCommit,
                LateWrite, Expire
  <2>2. topic \in Seq(Message)
    BY DEF TypeOK, Message
  <2> QED BY <2>1, <2>2 DEF Extended
<1>2. CASE Grown
  BY <1>2 DEF Grown
<1> QED BY <1>1, <1>2

\* Every step keeps the types and keeps the message in hand in the log.
LEMMA TypeStep ==
  ASSUME ConsumerInv, Consume \/ Grown
  PROVE  ConsumerInv'
<1> USE DEF ConsumerInv
<1>1. CASE StartClaim
  BY <1>1 DEF StartClaim, StartPosition, TypeOK, HandOK, historyVars
<1>2. CASE SkipCorrupt
  BY <1>2 DEF SkipCorrupt, TypeOK, HandOK, historyVars
<1>3. CASE Receive
  <2>1. 1 \in 0..RetryAttempts /\ "call" \in Phases
    BY ConsumerAssumption DEF Phases
  <2>2. attempts' \in 0..RetryAttempts /\ phase' \in Phases /\ received' \in SUBSET Nat
    BY <1>3, <2>1 DEF Receive, TypeOK
  <2> QED BY <1>3, <2>2 DEF Receive, TypeOK, HandOK
<1>4. CASE Read
  <2>1. InHand \in Message
    BY <1>4, InHandType DEF Read
  <2>2. /\ phase' \in Phases
        /\ held' \in DelayState \cup {NoState} /\ scanned' \in SUBSET Keys
    BY <1>4, <2>1, KeyType
    DEF Read, ReadDelay, ReadSkip, ScanTrip, TripKeys, TypeOK, Phases, DelayKinds
  <2> QED BY <1>4, <2>2 DEF Read, TypeOK, HandOK
<1>5. CASE Write
  BY <1>5, WriteType DEF Write, TypeOK, HandOK, Phases
<1>6. CASE Mark
  BY <1>6, ConsumerAssumption DEF Mark, TypeOK, HandOK, Phases, historyVars
<1>7. CASE CommandFails
  BY <1>7, EndClaimType, SpendType DEF CommandFails, TypeOK, historyVars
<1>8. CASE ReplyLost
  BY <1>8, EndClaimType, SpendType, WriteType DEF ReplyLost, TypeOK, historyVars
<1>9. CASE WriteTimesOut
  BY <1>9, EndClaimType, SpendType, WriteType DEF WriteTimesOut, TypeOK, historyVars
<1>10. CASE SessionEnds
  BY <1>10, EndClaimType, SpendType DEF SessionEnds, TypeOK, historyVars
<1>11. CASE Crash
  <2>1. 0 \in 0..RetryAttempts
    BY ConsumerAssumption
  <2>2. HandOK'
    BY <1>11 DEF Crash, HandOK
  <2> QED BY <1>11, <2>1, <2>2, SpendType DEF Crash, TypeOK, Phases, historyVars
<1>12. CASE AutoCommit
  BY <1>12 DEF AutoCommit, TypeOK, HandOK, claimVars, historyVars
<1>13. CASE LateWrite
  <2>1. PICK w \in late : redis' = Executed(w) /\ late' = late \ {w}
    BY <1>13 DEF LateWrite
  <2>2. redis' \in [Keys -> DelayState \cup {NoState}]
    BY <2>1 DEF Executed, TypeOK
  <2> QED BY <1>13, <2>1, <2>2 DEF LateWrite, TypeOK, HandOK, claimVars, historyVars
<1>14. CASE Grown
  BY <1>14 DEF Grown, Extended, Message, TypeOK, HandOK, claimVars, historyVars
<1>15. CASE Expire
  BY <1>15, SpendType DEF Expire, TypeOK, HandOK, claimVars
<1> QED
  BY <1>1, <1>2, <1>3, <1>4, <1>5, <1>6, <1>7, <1>8, <1>9, <1>10, <1>11, <1>12,
     <1>13, <1>14, <1>15
  DEF Consume, Progress, Faults

\* The inductive invariant holds of every behaviour: a claim that works on a
\* message has one, whatever failed before.
THEOREM ConsumerInvariant == Spec => []ConsumerInv
<1>1. ConsumerInv /\ [Next]_vars => ConsumerInv'
  BY TypeStep, NextGrows DEF ConsumerInv
<1> QED BY InitType, <1>1, PTL DEF Spec

\* Type correctness of the claim, its partition and the delay keys
\* (cmd/processor/main.go:214-299, manager.go:84-164), for any messages and faults.
THEOREM TypeCorrect == Spec => []TypeOK
BY ConsumerInvariant, PTL DEF ConsumerInv

-----------------------------------------------------------------------------
(* No committed offset covers an unprocessed message.                      *)

Settled(n) == \A o \in 0..(n - 1) : o \in applied \/ IsCorrupt(o)

\* Every offset that is or may come to be committed is settled.
CommitInv ==
  /\ committed # NoOffset /\ Settled(committed)
  /\ claim = "running" => Settled(position)
  /\ marked # NoOffset => Settled(marked)
  /\ phase = "done" => position \in applied

\* Messages stay applied and corrupt ones stay corrupt, as the log only grows.
LEMMA SettledStable ==
  ASSUME ConsumerInv, NEW n \in Nat, Settled(n), applied \subseteq applied', Extended
  PROVE  Settled(n)'
<1>1. ASSUME NEW o \in 0..(n - 1), IsCorrupt(o) PROVE IsCorrupt(o)'
  <2>1. o < Len(topic) /\ o + 1 \in 1..Len(topic) /\ topic[o + 1].kind = "corrupt"
    BY <1>1 DEF IsCorrupt, ConsumerInv, TypeOK
  <2>2. topic'[o + 1] = topic[o + 1] /\ o < Len(topic')
    BY <2>1 DEF Extended
  <2> QED BY <2>1, <2>2 DEF IsCorrupt
<1> QED BY <1>1 DEF Settled

\* Every step keeps what is marked or committed behind what is settled.
LEMMA CommitStep ==
  ASSUME ConsumerInv, CommitInv, Consume \/ Grown
  PROVE  CommitInv'
<1> USE DEF ConsumerInv, TypeOK, HandOK
<1>1. applied \subseteq applied'
  BY DEF Consume, Progress, Faults, StartClaim, SkipCorrupt, Receive, Read, Write, Mark,
         CommandFails, ReplyLost, WriteTimesOut, SessionEnds, Crash, AutoCommit, LateWrite,
         Expire, Grown, historyVars
<1>2. Extended
  BY LogGrows
<1>3. ASSUME NEW n \in Nat, Settled(n) PROVE Settled(n)'
  BY <1>1, <1>2, <1>3, SettledStable
<1>4. CASE StartClaim
  BY <1>3, <1>4 DEF StartClaim, StartPosition, CommitInv, historyVars
<1>5. CASE SkipCorrupt
  <2>1. Settled(position + 1)
    BY <1>5 DEF SkipCorrupt, CommitInv, Settled, IsCorrupt
  <2> QED BY <1>3, <1>5, <2>1 DEF SkipCorrupt, CommitInv, historyVars
<1>6. CASE Receive
  BY <1>3, <1>6 DEF Receive, CommitInv
<1>7. CASE Read
  BY <1>3, <1>7 DEF Read, CommitInv
<1>8. CASE Write
  BY <1>3, <1>8 DEF Write, CommitInv
<1>9. CASE Mark
  <2>1. Settled(position + 1)
    BY <1>9 DEF Mark, CommitInv, Settled
  <2> QED BY <1>3, <1>9, <2>1 DEF Mark, CommitInv, historyVars
<1>10. CASE CommandFails \/ ReplyLost \/ WriteTimesOut \/ SessionEnds
  BY <1>3, <1>10
  DEF CommandFails, ReplyLost, WriteTimesOut, SessionEnds, RetryOrGiveUp, EndClaim,
      FlushedOffset, CommitInv, historyVars
<1>11. CASE Crash
  BY <1>3, <1>11 DEF Crash, CommitInv, historyVars
<1>12. CASE AutoCommit
  BY <1>3, <1>12 DEF AutoCommit, CommitInv, claimVars, historyVars
<1>13. CASE LateWrite \/ Expire \/ Grown
  BY <1>3, <1>13 DEF LateWrite, Expire, Grown, CommitInv, claimVars, historyVars
<1> QED
  BY <1>4, <1>5, <1>6, <1>7, <1>8, <1>9, <1>10, <1>11, <1>12, <1>13
  DEF Consume, Progress, Faults

\* A group that has a committed offset never loses a message to a crash, a
\* rebalance, a failed retry or a lost reply (cmd/processor/main.go:243-253).
THEOREM NoCommittedLoss ==
  ASSUME StartCommitted PROVE Spec => []CommittedApplied
<1>1. Init => CommitInv
  BY DEF Init, CommitInv, Settled, NoOffset
<1>2. ConsumerInv /\ CommitInv /\ [Next]_vars => CommitInv'
  BY CommitStep, NextGrows DEF ConsumerInv
<1>3. CommitInv => CommittedApplied
  BY DEF CommitInv, CommittedApplied, Settled
<1> QED BY <1>1, <1>2, <1>3, ConsumerInvariant, PTL DEF Spec

-----------------------------------------------------------------------------
(* Stored observations never go back.                                      *)

\* Between its GET and its SET a claim holds the stored state, unless that has
\* expired, which the message in hand does not predate; no write is in flight.
HeldCurrent ==
  /\ late = {}
  /\ phase = "write" /\ InHand.kind \in DelayKinds =>
       /\ ~OutOfOrder(held, InHand)
       /\ \/ held = redis[KeyOf(InHand)]
          \/ redis[KeyOf(InHand)] = NoState /\ KeyOf(InHand) \in expired

\* That is so until a command outlives its client.
HeldInv ==
  /\ Budget["timeouts"] \in Nat /\ left["timeouts"] <= Budget["timeouts"]
  /\ NoLateCommand => HeldCurrent

\* The budget of timeouts is only ever spent, by a timeout.
LEMMA TimeoutsSpent ==
  ASSUME ConsumerInv, Consume \/ Grown
  PROVE  /\ left'["timeouts"] <= left["timeouts"]
         /\ WriteTimesOut => left'["timeouts"] < left["timeouts"]
BY DEF ConsumerInv, TypeOK, BudgetKinds, Consume, Progress, Faults, StartClaim,
       SkipCorrupt, Receive, Read, Write, Mark, CommandFails, ReplyLost, WriteTimesOut,
       SessionEnds, Crash, AutoCommit, LateWrite, Expire, Grown, SpendFault

\* The message in hand stays the same while the log grows.
LEMMA InHandStable ==
  ASSUME ConsumerInv, phase # "idle", position' = position, Extended
  PROVE  InHand' = InHand
<1>1. position + 1 \in 1..Len(topic)
  BY DEF ConsumerInv, TypeOK, HandOK
<1>2. topic'[position + 1] = topic[position + 1]
  BY <1>1 DEF Extended
<1> QED BY <1>2 DEF InHand, Enriched

\* Every step keeps the held state equal to the stored one, if that lives.
LEMMA HeldStep ==
  ASSUME ConsumerInv, HeldCurrent, Consume \/ Grown, ~WriteTimesOut
  PROVE  HeldCurrent'
<1> USE DEF ConsumerInv, HeldCurrent
<1>1. CASE StartClaim \/ SkipCorrupt \/ Receive \/ Mark
  BY <1>1 DEF StartClaim, SkipCorrupt, Receive, Mark, HandOK
<1>2. CASE Read
  <2>1. InHand' = InHand
    BY <1>2, InHandStable, LogGrows DEF Read
  <2>2. phase' = "write" /\ InHand.kind \in DelayKinds =>
          held' = redis[KeyOf(InHand)] /\ ~OutOfOrder(held', InHand)
    BY <1>2 DEF Read, ReadDelay, ReadSkip, ScanTrip, DelayKinds
  <2>3. UNCHANGED <<redis, late, expired>>
    BY <1>2 DEF Read
  <2>4. ~OutOfOrder(held', InHand) => ~OutOfOrder(held, InHand)'
    BY <2>1 DEF OutOfOrder
  <2> QED BY <2>1, <2>2, <2>3, <2>4
<1>3. CASE Write \/ SessionEnds \/ Crash \/ CommandFails \/ ReplyLost
  BY <1>3 DEF Write, SessionEnds, Crash, CommandFails, ReplyLost, RetryOrGiveUp,
              EndClaim, TypeOK, historyVars
<1>4. CASE LateWrite
  BY <1>4 DEF LateWrite
<1>5. CASE AutoCommit \/ Grown
  <2>1. UNCHANGED <<claimVars, redis, late, expired>>
    BY <1>5 DEF AutoCommit, Grown, historyVars
  <2>2. phase # "idle" => InHand' = InHand
    BY <2>1, InHandStable, LogGrows DEF claimVars
  <2> QED BY <2>1, <2>2 DEF claimVars, OutOfOrder
<1>6. CASE Expire
  <2>1. PICK k \in Keys : redis' = [redis EXCEPT ![k] = NoState] /\ expired' = expired \cup {k}
    BY <1>6 DEF Expire
  <2>2. UNCHANGED <<claimVars, late>>
    BY <1>6 DEF Expire
  <2>3. phase # "idle" => InHand' = InHand
    BY <1>6, <2>2, InHandStable, LogGrows DEF claimVars
  <2>4. \A j \in Keys : redis'[j] = redis[j] \/ (redis'[j] = NoState /\ j \in expired')
    BY <2>1 DEF TypeOK
  <2>5. phase = "write" /\ InHand.kind \in DelayKinds => KeyOf(InHand) \in Keys
    BY InHandType, KeyType DEF DelayKinds
  <2> QED BY <2>1, <2>2, <2>3, <2>4, <2>5 DEF claimVars, OutOfOrder
<1> QED BY <1>1, <1>2, <1>3, <1>4, <1>5, <1>6 DEF Consume, Progress, Faults

\* A step after which no command has outlived its client had none before.
LEMMA StillInTime ==
  ASSUME ConsumerInv, HeldInv, Consume \/ Grown, NoLateCommand'
  PROVE  NoLateCommand /\ HeldCurrent /\ ~WriteTimesOut
<1>1. left["timeouts"] \in Nat /\ left'["timeouts"] \in Nat
  BY TypeStep DEF ConsumerInv, TypeOK, BudgetKinds
<1> QED BY <1>1, TimeoutsSpent DEF HeldInv, NoLateCommand

\* What is held stays current until then.
LEMMA HeldInvStep ==
  ASSUME ConsumerInv, HeldInv, Consume \/ Grown
  PROVE  HeldInv'
<1>1. left["timeouts"] \in Nat /\ left'["timeouts"] \in Nat
  BY TypeStep DEF ConsumerInv, TypeOK, BudgetKinds
<1>2. left'["timeouts"] <= Budget["timeouts"]
  BY <1>1, TimeoutsSpent DEF HeldInv
<1>3. NoLateCommand' => HeldCurrent'
  BY StillInTime, HeldStep
<1> QED BY <1>2, <1>3 DEF HeldInv

\* It is at the start, so always.
LEMMA HeldInvariant == Spec => []HeldInv
<1>1. Init => HeldInv
  BY ConsumerAssumption DEF Init, HeldInv, HeldCurrent, BudgetKinds
<1>2. ConsumerInv /\ HeldInv /\ [Next]_vars => HeldInv'
  BY HeldInvStep, NextGrows DEF ConsumerInv
<1> QED BY <1>1, <1>2, ConsumerInvariant, PTL DEF Spec

\* A step that writes in time puts no older observation over a newer one.
LEMMA ForwardStep ==
  ASSUME ConsumerInv, HeldCurrent, Consume \/ Grown, ~WriteTimesOut
  PROVE  \A k \in Keys : redis[k] # NoState /\ redis'[k] # NoState
           => redis'[k].observedAt >= redis[k].observedAt
<1> USE DEF ConsumerInv, TypeOK
<1>1. CASE Write \/ ReplyLost
  <2>1. phase = "write" /\ redis' = Executed(WriteOf(InHand))
    BY <1>1 DEF Write, ReplyLost
  <2>2. InHand \in Message
    BY <2>1, InHandType
  <2>3. CASE InHand.kind \in DelayKinds
    <3>1. /\ held \in DelayState \cup {NoState}
          /\ redis[KeyOf(InHand)] = NoState \/ held = redis[KeyOf(InHand)]
          /\ ~OutOfOrder(held, InHand)
      BY <2>1, <2>3 DEF HeldCurrent
    <3>2. Reconcile(held, InHand).observedAt = InHand.at
      BY <2>2, <3>1, ReconcileType DEF Message
    <3>3. InHand.at \in Nat
      BY <2>2 DEF Message, Event
    <3>4. ASSUME NEW k \in Keys, redis[k] # NoState
          PROVE  redis'[k].observedAt >= redis[k].observedAt
      <4>1. redis[k].observedAt \in Nat
        BY <3>4 DEF DelayState
      <4>2. redis'[k] = IF k = KeyOf(InHand) THEN Reconcile(held, InHand) ELSE redis[k]
        BY <2>1, <2>3 DEF Executed, WriteOf
      <4> QED BY <3>1, <3>2, <3>3, <3>4, <4>1, <4>2 DEF OutOfOrder
    <3> QED BY <3>4
  <2>4. CASE InHand.kind \notin DelayKinds
    BY <2>1, <2>4 DEF Executed, WriteOf, DelayState
  <2> QED BY <2>3, <2>4
<1>2. CASE redis' = redis
  BY <1>2 DEF DelayState
<1>3. CASE LateWrite
  BY <1>3 DEF HeldCurrent, LateWrite
<1>4. CASE Expire
  BY <1>4 DEF Expire, DelayState
<1> QED BY <1>1, <1>2, <1>3, <1>4
        DEF Consume, Progress, Faults, StartClaim, SkipCorrupt, Receive, Read, Mark,
            CommandFails, SessionEnds, Crash, AutoCommit, Grown

\* Redelivery, retries and lost replies never put an older observation over a
\* newer one (manager.go:118-126), as long as no command has outlived its client.
THEOREM ObservationsMoveForward == Spec => NeverRegresses
<1>1. ConsumerInv /\ HeldInv /\ [Next]_vars =>
        [NoLateCommand' => \A k \in Keys : redis[k] # NoState /\ redis'[k] # NoState
                             => redis'[k].observedAt >= redis[k].observedAt]_vars
  BY NextGrows, StillInTime, ForwardStep DEF ConsumerInv
<1> QED BY <1>1, ConsumerInvariant, HeldInvariant, PTL DEF Spec, NeverRegresses

-----------------------------------------------------------------------------
(* Stored delays lie between published ones.                               *)

\* More days have no fewer seconds.
LEMMA DaysOrdered ==
  ASSUME NEW m \in Int, NEW n \in Int, m <= n
  PROVE  m * Day <= n * Day
<1>1. Day \in Nat
  BY DayAssumption
<1>2. QED
  BY <1>1

\* The candidate chosen is the remainder of the day, counted as late or as early.
LEMMA NearestRemainder ==
  ASSUME NEW excess \in 0..(Day - 1), NEW raw \in Int,
         raw \in {excess, excess - Day, excess - 2 * Day},
         -3 * Day <= 2 * raw
  PROVE  /\ Nearest(raw) \in {excess, excess - Day}
         /\ 2 * AbsSecs(Nearest(raw)) <= Day
<1>1. Day \in Nat \ {0}
  BY DayAssumption
<1>2. QED
  BY <1>1 DEF Nearest, AbsSecs

\* Division with remainder.
LEMMA Division ==
  ASSUME NEW d \in Nat \ {0}, NEW n \in Int
  PROVE  \E q \in Int, r \in 0..(d - 1) : n = q * d + r /\ r = n % d
<1>1. n % d = n - d * (n \div d)
  OBVIOUS
<1>2. PICK q \in Int : q = n \div d
  OBVIOUS
<1>3. PICK r \in 0..(d - 1) : r = n % d
  OBVIOUS
<1>4. n = d * q + r
  <2>1. PICK e \in Int : e = d * q
    OBVIOUS
  <2>2. r = n - e
    BY <1>1, <1>2, <1>3, <2>1
  <2>3. QED
    BY <2>1, <2>2
<1>5. d * q = q * d
  OBVIOUS
<1>6. n = q * d + r
  BY <1>4, <1>5
<1>7. QED
  BY <1>3, <1>6

\* The raw difference is the lateness, or one or two days less than it.
LEMMA RawRemainder ==
  ASSUME NEW predicted \in Nat, NEW sched \in Nat, 2 * sched <= 3 * Day
  PROVE  LET excess == (predicted - sched) % Day
             raw == SecsSinceMidnight(predicted) - sched
         IN /\ excess \in 0..(Day - 1) /\ raw \in Int /\ -3 * Day <= 2 * raw
            /\ raw \in {excess, excess - Day, excess - 2 * Day}
<1>1. Day \in Nat \ {0}
  BY DayAssumption
<1>2. PICK q \in Int, r \in 0..(Day - 1) : predicted = q * Day + r /\ r = predicted % Day
  BY <1>1, Division
<1>3. PICK over : over = predicted - sched
  OBVIOUS
<1>4. over \in Int
  BY <1>3
<1>5. PICK p \in Int, e \in 0..(Day - 1) : over = p * Day + e /\ e = over % Day
  BY <1>1, <1>4, Division
<1>6. PICK m \in Int : m = p - q
  OBVIOUS
<1>7. r - sched = m * Day + e
  <2>1. m * Day = p * Day - q * Day
    BY <1>1, <1>6
  <2>2. PICK x \in Int, y \in Int : x = p * Day /\ y = q * Day
    BY <1>1
  <2>3. QED
    BY <1>2, <1>3, <1>5, <2>1, <2>2
<1>8. PICK z \in Int : z = m * Day
  BY <1>1
<1>9. ~(m <= -3) /\ ~(1 <= m)
  <2>1. m <= -3 => z <= (-3) * Day
    BY <1>8, DaysOrdered
  <2>2. 1 <= m => 1 * Day <= z
    BY <1>8, DaysOrdered
  <2>3. QED
    BY <1>1, <1>2, <1>5, <1>7, <1>8, <2>1, <2>2
<1>10. m \in {-2, -1, 0}
  BY <1>9
<1>11. z \in {0, -Day, -2 * Day}
  BY <1>1, <1>8, <1>10
<1>12. PICK raw : raw = SecsSinceMidnight(predicted) - sched
  OBVIOUS
<1>13. raw = r - sched
  BY <1>2, <1>12 DEF SecsSinceMidnight
<1>14. raw = e + z
  BY <1>1, <1>2, <1>5, <1>7, <1>8, <1>13
<1>15. raw \in Int /\ -3 * Day <= 2 * raw
  BY <1>1, <1>2, <1>13
<1>16. raw \in {e, e - Day, e - 2 * Day}
  BY <1>1, <1>5, <1>11, <1>14
<1>17. e = (predicted - sched) % Day
  BY <1>3, <1>5
<1>18. QED
  BY <1>12, <1>15, <1>16, <1>17

\* No stop of the timetable is served after noon of the next day.
EndsByNoon ==
  \A k \in Keys : 2 * Timetable[k].arrival <= 3 * Day /\ 2 * Timetable[k].departure <= 3 * Day

\* What an event is stored as is how late its train is.
LEMMA EnrichedLateness ==
  ASSUME EndsByNoon, NEW ev \in Message, ev.kind \in DelayKinds
  PROVE  Enriched(ev).delay \in Latenesses(ev) /\ Enriched(ev).delay \in Int
<1>1. KeyOf(ev) \in Keys
  BY KeyType DEF DelayKinds
<1>2. CASE ~TimeOnlyEvent(ev)
  BY <1>2 DEF Enriched, Latenesses, Message, Event
<1>3. CASE TimeOnlyEvent(ev)
  <2>1. PICK row \in StopTimes : row = Timetable[KeyOf(ev)] /\ 2 * row.arrival <= 3 * Day
                                   /\ 2 * row.departure <= 3 * Day
    BY <1>1, ConsumerAssumption DEF EndsByNoon
  <2>2. PICK sched \in Nat : sched = ScheduledTime(row, ev.kind) /\ 2 * sched <= 3 * Day
    BY <2>1 DEF ScheduledTime, StopTimes
  <2>3. ev.predicted \in Nat
    BY DEF Message, Event
  <2>4. PICK raw \in Int : raw = SecsSinceMidnight(ev.predicted) - sched
    BY <2>2, <2>3, RawRemainder
  <2>5. PICK excess \in 0..(Day - 1) : excess = (ev.predicted - sched) % Day
    BY <2>2, <2>3, RawRemainder
  <2>6. /\ Nearest(raw) \in {excess, excess - Day}
        /\ 2 * AbsSecs(Nearest(raw)) <= Day
    BY <2>2, <2>3, <2>4, <2>5, RawRemainder, NearestRemainder
  <2>7. Enriched(ev).delay = Nearest(raw)
    BY <1>3, <2>1, <2>2, <2>4 DEF Enriched, Retimed, EnrichedDelay, Message, Event
  <2>8. Latenesses(ev) = {d \in {excess, excess - Day} : 2 * AbsSecs(d) <= Day}
    BY <1>3, <2>1, <2>2, <2>5 DEF Latenesses
  <2>9. Nearest(raw) \in Int
    BY <2>4, NearestType
  <2>10. QED
    BY <2>6, <2>7, <2>8, <2>9
<1>4. QED
  BY <1>2, <1>3

\* Dampening does not overshoot.
LEMMA BlendBetween ==
  ASSUME NEW a \in Int, NEW b \in Int, NEW low \in Int, NEW high \in Int,
         low <= a, a <= high, low <= b, b <= high
  PROVE  low <= Blend(a, b) /\ Blend(a, b) <= high
BY DEF Blend, RoundTenths

\* A state that may be stored for a key.
Fits(value, k) ==
  value = NoState \/ \E least, most \in Published(k) : least <= value.delay /\ value.delay <= most

\* What Redis holds for a key, what is about to be blended with an event of it, and
\* what late writes may still store, fit the events published for it.
FitInv ==
  /\ \A k \in Keys : Fits(redis[k], k)
  /\ phase = "write" /\ InHand.kind \in DelayKinds => Fits(held, KeyOf(InHand))
  /\ \A w \in late : \A k \in w.keys : Fits(w.value, k)

\* What is published stays published, so that what fits keeps fitting.
LEMMA FitsLater ==
  ASSUME TypeOK, Extended, NEW value, NEW k, Fits(value, k)
  PROVE  Fits(value, k)'
<1>1. Len(topic) \in Nat /\ Len(topic') \in Nat
  BY DEF TypeOK, Extended
<1>2. \A i \in 1..Len(topic) : i \in 1..Len(topic') /\ topic'[i] = topic[i]
  BY <1>1 DEF Extended
<1>3. Published(k) \subseteq Published(k)'
  BY <1>2 DEF Published
<1>4. QED
  BY <1>3 DEF Fits

\* The message in hand is as late as it was published.
LEMMA InHandPublished ==
  ASSUME ConsumerInv, EndsByNoon, phase # "idle", InHand.kind \in DelayKinds
  PROVE  /\ InHand.delay \in Published(KeyOf(InHand)) /\ InHand.delay \in Int
         /\ KeyOf(InHand) \in Keys
<1>1. position + 1 \in 1..Len(topic) /\ topic[position + 1] \in Message
  <2>1. topic \in Seq(Message) /\ position + 1 \in 1..Len(topic)
    BY DEF ConsumerInv, TypeOK, HandOK, Message
  <2>2. QED
    BY <2>1
<1>2. PICK ev \in Message : ev = topic[position + 1]
  BY <1>1
<1>3. /\ InHand = Enriched(ev) /\ InHand \in Message
      /\ InHand.kind = ev.kind /\ KeyOf(InHand) = KeyOf(ev)
  BY <1>2, EnrichedType DEF InHand
<1>4. InHand.delay \in Latenesses(ev) /\ InHand.delay \in Int
  BY <1>3, EnrichedLateness
<1>5. KeyOf(ev) \in Keys
  BY <1>3, KeyType DEF DelayKinds
<1>6. Latenesses(ev) \subseteq Published(KeyOf(ev))
  BY <1>1, <1>2, <1>3 DEF Published
<1>7. QED
  BY <1>3, <1>4, <1>5, <1>6

\* Published delays are whole seconds.
LEMMA PublishedType ==
  ASSUME ConsumerInv, EndsByNoon, NEW k
  PROVE  Published(k) \subseteq Int
<1>1. ASSUME NEW ev \in Message, ev.kind \in DelayKinds PROVE Latenesses(ev) \subseteq Int
  <2>1. KeyOf(ev) \in Keys
    BY <1>1, KeyType DEF DelayKinds
  <2>2. Timetable[KeyOf(ev)] \in StopTimes
    BY <2>1, ConsumerAssumption
  <2>3. PICK row \in StopTimes : row = Timetable[KeyOf(ev)]
    BY <2>2
  <2>4. ScheduledTime(row, ev.kind) \in Nat
    BY DEF ScheduledTime, StopTimes
  <2>5. ev.predicted - ScheduledTime(row, ev.kind) \in Int /\ ev.delay \in Int
    BY <2>4 DEF Message, Event
  <2>6. PICK over \in Int : over = ev.predicted - ScheduledTime(row, ev.kind)
    BY <2>5
  <2>7. Day \in Nat \ {0}
    BY DayAssumption
  <2>8. over % Day \in Int /\ (over % Day) - Day \in Int
    <3>1. PICK r \in 0..(Day - 1) : r = over % Day
      BY <2>7, Division
    <3>2. QED
      BY <2>7, <3>1
  <2>9. Latenesses(ev) \subseteq {ev.delay} \cup {over % Day, (over % Day) - Day}
    BY <2>3, <2>6 DEF Latenesses
  <2>10. QED
    BY <2>5, <2>8, <2>9
<1>2. \A i \in 1..Len(topic) : topic[i] \in Message
  BY DEF ConsumerInv, TypeOK, Message
<1>3. QED
  BY <1>1, <1>2 DEF Published

\* What ProcessEvent is about to write fits.
LEMMA WriteFits ==
  ASSUME ConsumerInv, EndsByNoon, FitInv, phase = "write"
  PROVE  \A k \in WriteOf(InHand).keys : Fits(WriteOf(InHand).value, k)
<1>1. CASE InHand.kind \notin DelayKinds
  BY <1>1 DEF WriteOf, Fits
<1>2. CASE InHand.kind \in DelayKinds
  <2>1. /\ InHand.delay \in Published(KeyOf(InHand)) /\ InHand.delay \in Int
        /\ KeyOf(InHand) \in Keys
    BY <1>2, InHandPublished
  <2>2. PICK k \in Keys : k = KeyOf(InHand)
    BY <2>1
  <2>3. held \in DelayState \cup {NoState} /\ Fits(held, k)
    BY <1>2, <2>2 DEF ConsumerInv, TypeOK, FitInv
  <2>4. Published(k) \subseteq Int
    BY PublishedType
  <2>5. CASE held = NoState
    <3>1. Reconcile(held, InHand).delay = InHand.delay
      BY <2>5 DEF Reconcile, FirstObservation
    <3>2. Fits(Reconcile(held, InHand), k)
      BY <2>1, <2>2, <2>4, <3>1 DEF Fits
    <3>3. QED
      BY <1>2, <2>2, <3>2 DEF WriteOf
  <2>6. CASE held # NoState
    <3>1. PICK least \in Published(k), most \in Published(k) :
            least <= held.delay /\ held.delay <= most
      BY <2>3, <2>6 DEF Fits
    <3>2. held.delay \in Int
      BY <2>3, <2>6 DEF DelayState
    <3>3. Reconcile(held, InHand).delay = SmoothedDelay(held, InHand)
      BY <2>6 DEF Reconcile
    <3>4. PICK low \in Published(k) : low <= held.delay /\ low <= InHand.delay
      <4>1. CASE least <= InHand.delay
        BY <3>1, <4>1
      <4>2. CASE ~(least <= InHand.delay)
        <5>1. InHand.delay <= held.delay
          BY <2>1, <2>4, <3>1, <3>2, <4>2
        <5>2. QED
          BY <2>1, <2>2, <5>1
      <4>3. QED
        BY <4>1, <4>2
    <3>5. PICK high \in Published(k) : held.delay <= high /\ InHand.delay <= high
      <4>1. CASE InHand.delay <= most
        BY <3>1, <4>1
      <4>2. CASE ~(InHand.delay <= most)
        <5>1. held.delay <= InHand.delay
          BY <2>1, <2>4, <3>1, <3>2, <4>2
        <5>2. QED
          BY <2>1, <2>2, <5>1
      <4>3. QED
        BY <4>1, <4>2
    <3>6. low \in Int /\ high \in Int
      BY <2>4
    <3>7. low <= Blend(InHand.delay, held.delay) /\ Blend(InHand.delay, held.delay) <= high
      BY <2>1, <3>2, <3>4, <3>5, <3>6, BlendBetween
    <3>8. low <= SmoothedDelay(held, InHand) /\ SmoothedDelay(held, InHand) <= high
      BY <3>4, <3>5, <3>7 DEF SmoothedDelay
    <3>9. Fits(Reconcile(held, InHand), k)
      BY <3>3, <3>8 DEF Fits
    <3>10. QED
      BY <1>2, <2>2, <3>9 DEF WriteOf
  <2>7. QED
    BY <2>5, <2>6
<1>3. QED
  BY <1>1, <1>2

\* Executing a write whose value fits keeps what is stored fitting.
LEMMA ExecutedFits ==
  ASSUME \A k \in Keys : Fits(redis[k], k), NEW w, \A k \in w.keys : Fits(w.value, k)
  PROVE  \A k \in Keys : Fits(Executed(w)[k], k)
BY DEF Executed

\* Every step keeps what is stored between what was published.
LEMMA FitStep ==
  ASSUME ConsumerInv, EndsByNoon, FitInv, Consume \/ Grown
  PROVE  FitInv'
<1>1. Extended
  BY LogGrows DEF ConsumerInv
<1>2. ASSUME NEW value, NEW k, Fits(value, k) PROVE Fits(value, k)'
  BY <1>1, <1>2, FitsLater DEF ConsumerInv
<1>3. \A k \in Keys : Fits(redis'[k], k)
  <2>1. CASE Write \/ ReplyLost
    <3>1. phase = "write" /\ redis' = Executed(WriteOf(InHand))
      BY <2>1 DEF Write, ReplyLost
    <3>2. QED
      BY <3>1, WriteFits, ExecutedFits DEF FitInv
  <2>2. CASE LateWrite
    <3>1. PICK w \in late : redis' = Executed(w)
      BY <2>2 DEF LateWrite
    <3>2. QED
      BY <3>1, ExecutedFits DEF FitInv
  <2>3. CASE redis' = redis
    BY <2>3 DEF FitInv
  <2>4. CASE Expire
    BY <2>4 DEF Expire, FitInv, Fits, ConsumerInv, TypeOK
  <2>5. QED
    BY <2>1, <2>2, <2>3, <2>4
       DEF Consume, Progress, Faults, StartClaim, SkipCorrupt, Receive, Read, Mark,
           CommandFails, WriteTimesOut, SessionEnds, Crash, AutoCommit, Grown
<1>4. \A w \in late' : \A k \in w.keys : Fits(w.value, k)
  <2>1. CASE WriteTimesOut
    <3>1. phase = "write" /\ late' = late \cup {WriteOf(InHand)}
      BY <2>1 DEF WriteTimesOut
    <3>2. QED
      BY <3>1, WriteFits DEF FitInv
  <2>2. CASE late' \subseteq late
    BY <2>2 DEF FitInv
  <2>3. QED
    BY <2>1, <2>2
       DEF Consume, Progress, Faults, StartClaim, SkipCorrupt, Receive, Read, Write, Mark,
           CommandFails, ReplyLost, SessionEnds, Crash, AutoCommit, LateWrite, Expire, Grown
<1>5. phase' = "write" /\ InHand'.kind \in DelayKinds => Fits(held', KeyOf(InHand'))
  <2>1. CASE Read
    <3>1. phase = "call" /\ InHand' = InHand
      BY <1>1, <2>1, InHandStable DEF Read
    <3>2. ASSUME InHand.kind \in DelayKinds PROVE Fits(held', KeyOf(InHand))
      <4>1. held' = redis[KeyOf(InHand)]
        BY <2>1, <3>2 DEF Read, ReadDelay, ReadSkip, ScanTrip, DelayKinds
      <4>2. KeyOf(InHand) \in Keys
        BY <3>1, <3>2, InHandPublished
      <4>3. QED
        BY <4>1, <4>2 DEF FitInv
    <3>3. QED
      BY <3>1, <3>2
  <2>2. CASE AutoCommit \/ LateWrite \/ Expire \/ Grown
    <3>1. UNCHANGED claimVars
      BY <2>2 DEF AutoCommit, LateWrite, Expire, Grown
    <3>2. phase # "idle" => InHand' = InHand
      BY <1>1, <3>1, InHandStable DEF claimVars
    <3>3. QED
      BY <3>1, <3>2 DEF FitInv, claimVars
  <2>3. CASE phase' # "write"
    BY <2>3
  <2>4. CASE StartClaim \/ SkipCorrupt
    BY <2>4 DEF StartClaim, SkipCorrupt, ConsumerInv, HandOK
  <2>5. QED
    BY <2>1, <2>2, <2>3, <2>4
       DEF Consume, Progress, Faults, Receive, Write, Mark,
           CommandFails, ReplyLost, WriteTimesOut, SessionEnds, Crash, RetryOrGiveUp, EndClaim
<1>6. QED
  BY <1>2, <1>3, <1>4, <1>5 DEF FitInv

\* For a timetable whose day ends by noon of the next, what is stored for a key lies
\* between two latenesses published for it, whatever is retried, replayed or late
\* (enrich.go:42-55, manager.go:118-147).
THEOREM StoredBetweenPublished ==
  ASSUME EndsByNoon PROVE Spec => []StoredWithinPublished
<1>1. Init => FitInv
  BY DEF Init, FitInv, Fits
<1>2. ConsumerInv /\ FitInv /\ [Next]_vars => FitInv'
  BY FitStep, NextGrows DEF ConsumerInv
<1>3. FitInv => StoredWithinPublished
  BY DEF FitInv, Fits, StoredWithinPublished
<1>4. QED
  BY <1>1, <1>2, <1>3, ConsumerInvariant, PTL DEF Spec
-----------------------------------------------------------------------------
(* Replays.  Of the messages of a log that concern a key, what counts is   *)
(* which stand - no cancellation or skip follows - and which of these is   *)
(* the latest; this says what a key holds without running through the log. *)

Tells(ev, k)  == ev.kind \in DelayKinds /\ KeyOf(ev) = k
Clears(ev, k) == \/ ev.kind = "skip" /\ KeyOf(ev) = k
                 \/ ev.kind = "cancel" /\ ev.trip = k[1]

\* The i-th of n messages tells of the key, and none after it clears the key.
Stands(e, n, k, i) ==
  i \in 1..n /\ Tells(e[i], k) /\ \A j \in (i + 1)..n : ~Clears(e[j], k)

\* The i-th message prevails over the j-th, also when that was processed before.
Prevails(e, i, j) == e[j].at < e[i].at \/ (e[j].at = e[i].at /\ j <= i)

Holding(value, ev) ==
  value # NoState /\ value.delay = ev.delay /\ value.observedAt = ev.at

\* What a key holds prevails over the messages up to c that stand; once the key has
\* expired, over those of them that do not come before it.  lost: the keys that expired.
Latest(value, e, n, k, c, lost) ==
  \/ value = NoState /\ (k \in lost \/ \A i \in 1..c : ~Stands(e, n, k, i))
  \/ \E i \in 1..n :
       /\ Stands(e, n, k, i) /\ Holding(value, e[i])
       /\ \A j \in 1..c : Stands(e, n, k, j) /\ (k \in lost => i <= j) => Prevails(e, i, j)

\* The claim may go on from c: what it left behind is cleared later or prevails.
UpTo(value, e, n, k, c, lost) ==
  (\A j \in (c + 1)..n : ~Clears(e[j], k)) => Latest(value, e, n, k, c, lost)

\* No two delays for the key are a dampened jump apart.
Gentle(e, n, k) ==
  \A i, j \in 1..n : Tells(e[i], k) /\ Tells(e[j], k)
    => AbsDiff(e[i].delay, e[j].delay) <= SmoothingThreshold

\* What processing a message does to a key.
Passed(value, ev, k) ==
  IF Tells(ev, k) THEN IF OutOfOrder(value, ev) THEN value ELSE Reconcile(value, ev)
  ELSE IF Clears(ev, k) THEN NoState ELSE value

\* A claim that may go on from a later offset may go on from an earlier one.
LEMMA Sooner ==
  ASSUME NEW n \in Nat, NEW d \in 0..n, NEW c \in 0..d, NEW value, NEW e, NEW k,
         NEW lost, UpTo(value, e, n, k, d, lost)
  PROVE  UpTo(value, e, n, k, c, lost)
<1> SUFFICES ASSUME \A j \in (c + 1)..n : ~Clears(e[j], k)
             PROVE  Latest(value, e, n, k, c, lost)
  BY DEF UpTo
<1>1. (d + 1)..n \subseteq (c + 1)..n /\ 1..c \subseteq 1..d
  OBVIOUS
<1>2. Latest(value, e, n, k, d, lost)
  BY <1>1 DEF UpTo
<1> QED BY <1>1, <1>2 DEF Latest

\* Messages more in the log: they clear the key later, or are not processed yet.
LEMMA Longer ==
  ASSUME NEW n \in Nat, NEW m \in Nat, n <= m, NEW c \in 0..n, NEW value, NEW e, NEW f,
         NEW k, NEW lost, \A i \in 1..n : f[i] = e[i],
         UpTo(value, e, n, k, c, lost)
  PROVE  UpTo(value, f, m, k, c, lost)
<1> SUFFICES ASSUME \A j \in (c + 1)..m : ~Clears(f[j], k)
             PROVE  Latest(value, f, m, k, c, lost)
  BY DEF UpTo
<1>1. \A j \in (c + 1)..n : j \in (c + 1)..m /\ f[j] = e[j]
  OBVIOUS
<1>2. Latest(value, e, n, k, c, lost)
  BY <1>1 DEF UpTo
<1>3. \A j \in (n + 1)..m : ~Clears(f[j], k)
  OBVIOUS
<1>4. ASSUME NEW i \in 1..n PROVE Stands(f, m, k, i) <=> Stands(e, n, k, i)
  <2>1. f[i] = e[i] /\ i \in 1..m
    OBVIOUS
  <2>2. (i + 1)..m = ((i + 1)..n) \cup ((n + 1)..m)
    OBVIOUS
  <2>3. \A j \in (i + 1)..n : f[j] = e[j]
    OBVIOUS
  <2> QED BY <1>3, <2>1, <2>2, <2>3 DEF Stands
<1>5. 1..c \subseteq 1..n /\ 1..n \subseteq 1..m
  OBVIOUS
<1>6. CASE value = NoState /\ (k \in lost \/ \A i \in 1..c : ~Stands(e, n, k, i))
  BY <1>4, <1>5, <1>6 DEF Latest
<1>7. CASE \E i \in 1..n :
             /\ Stands(e, n, k, i) /\ Holding(value, e[i])
             /\ \A j \in 1..c : Stands(e, n, k, j) /\ (k \in lost => i <= j) => Prevails(e, i, j)
  <2>1. PICK i \in 1..n :
          /\ Stands(e, n, k, i) /\ Holding(value, e[i])
          /\ \A j \in 1..c : Stands(e, n, k, j) /\ (k \in lost => i <= j) => Prevails(e, i, j)
    BY <1>7
  <2>2. Stands(f, m, k, i) /\ Holding(value, f[i]) /\ i \in 1..m
    BY <1>4, <1>5, <2>1
  <2>3. ASSUME NEW j \in 1..c, Stands(f, m, k, j), k \in lost => i <= j PROVE Prevails(f, i, j)
    <3>1. j \in 1..n /\ Stands(e, n, k, j)
      BY <1>4, <1>5, <2>3
    <3>2. Prevails(e, i, j) /\ f[j] = e[j] /\ f[i] = e[i]
      BY <2>1, <2>3, <3>1
    <3> QED BY <3>2 DEF Prevails
  <2> QED BY <2>2, <2>3 DEF Latest
<1> QED BY <1>2, <1>6, <1>7 DEF Latest

\* Without a dampened jump a message that is not out of order is stored as it is.
LEMMA StoredAsIs ==
  ASSUME NEW value \in DelayState \cup {NoState}, NEW ev \in Event,
         value # NoState => AbsDiff(ev.delay, value.delay) <= SmoothingThreshold
  PROVE  Holding(Reconcile(value, ev), ev)
<1>1. Reconcile(value, ev) \in DelayState /\ Reconcile(value, ev).observedAt = ev.at
  BY ReconcileType
<1>2. Reconcile(value, ev).delay = ev.delay
  <2>1. CASE value = NoState
    BY <2>1 DEF Reconcile, FirstObservation
  <2>2. CASE value # NoState
    <3>1. AbsDiff(ev.delay, value.delay) \in Int
      BY <2>2 DEF AbsDiff, DelayState, Event
    <3>2. SmoothedDelay(value, ev) = ev.delay
      BY <2>2, <3>1, ReconcileAssumption DEF SmoothedDelay
    <3> QED BY <2>2, <3>2 DEF Reconcile
  <2> QED BY <2>1, <2>2
<1>3. Reconcile(value, ev) # NoState
  BY <1>1, ConsumerAssumption
<1> QED BY <1>1, <1>2, <1>3 DEF Holding

\* Processing the next message, for the first time or again.
LEMMA OneMoreMessage ==
  ASSUME NEW n \in Nat, NEW c \in Nat, c < n, NEW e, \A i \in 1..n : e[i] \in Message,
         NEW k, Gentle(e, n, k), NEW value \in DelayState \cup {NoState}, NEW lost,
         UpTo(value, e, n, k, c, lost)
  PROVE  UpTo(Passed(value, e[c + 1], k), e, n, k, c + 1, lost)
<1> DEFINE d == c + 1
           after == Passed(value, e[d], k)
<1> SUFFICES ASSUME \A j \in (d + 1)..n : ~Clears(e[j], k)
             PROVE  Latest(after, e, n, k, d, lost)
  BY DEF UpTo
<1>1. d \in 1..n /\ d \in Nat /\ 1..d = (1..c) \cup {d} /\ c < d
  OBVIOUS
<1>2. (c + 1)..n = {d} \cup ((d + 1)..n)
  OBVIOUS
<1>3. Tells(e[d], k) => ~Clears(e[d], k)
  BY DEF Tells, Clears, DelayKinds
<1>4. Tells(e[d], k) <=> Stands(e, n, k, d)
  BY <1>1 DEF Stands
<1>5. \A i \in 1..n : e[i].at \in Nat /\ e[i].delay \in Int
  BY DEF Message, Event
<1> HIDE DEF d
<1>6. CASE Clears(e[d], k)
  <2>1. after = NoState
    BY <1>3, <1>6 DEF Passed
  <2>2. ASSUME NEW i \in 1..c PROVE ~Stands(e, n, k, i)
    <3>1. d \in (i + 1)..n
      BY <1>1
    <3> QED BY <1>6, <3>1 DEF Stands
  <2> QED BY <1>1, <1>3, <1>4, <1>6, <2>1, <2>2 DEF Latest
<1>7. CASE ~Clears(e[d], k)
  <2>1. Latest(value, e, n, k, c, lost)
    BY <1>2, <1>7 DEF UpTo
  <2>2. CASE ~Tells(e[d], k)
    <3>1. after = value
      BY <1>7, <2>2 DEF Passed
    <3> QED BY <1>1, <1>4, <2>1, <2>2, <3>1 DEF Latest
  <2>3. CASE Tells(e[d], k) /\ value = NoState
    <3>1. after = Reconcile(value, e[d])
      BY <2>3 DEF Passed, OutOfOrder
    <3>2. Holding(after, e[d])
      BY <1>1, <2>3, <3>1, StoredAsIs DEF Message
    <3>3. k \in lost \/ \A j \in 1..c : ~Stands(e, n, k, j)
      BY <2>1, <2>3 DEF Latest, Holding
    <3>4. Prevails(e, d, d) /\ \A j \in 1..c : ~(d <= j)
      BY <1>1 DEF Prevails
    <3> QED BY <1>1, <1>4, <2>3, <3>2, <3>3, <3>4 DEF Latest
  <2>4. ASSUME Tells(e[d], k), value # NoState PROVE Latest(after, e, n, k, d, lost)
    <3>1. PICK i \in 1..n :
            /\ Stands(e, n, k, i) /\ Holding(value, e[i])
            /\ \A j \in 1..c : Stands(e, n, k, j) /\ (k \in lost => i <= j) => Prevails(e, i, j)
      BY <2>1, <2>4 DEF Latest
    <3>2. CASE e[d].at < e[i].at
      <4>1. after = value
        BY <2>4, <3>1, <3>2 DEF Passed, OutOfOrder, Holding
      <4>2. Prevails(e, i, d)
        BY <3>2 DEF Prevails
      <4> QED BY <1>1, <3>1, <4>1, <4>2 DEF Latest
    <3>3. CASE ~(e[d].at < e[i].at)
      <4>1. after = Reconcile(value, e[d])
        BY <2>4, <3>1, <3>3 DEF Passed, OutOfOrder, Holding
      <4>2. AbsDiff(e[d].delay, value.delay) <= SmoothingThreshold
        BY <1>1, <2>4, <3>1 DEF Gentle, Stands, Holding
      <4>3. Holding(after, e[d])
        BY <1>1, <4>1, <4>2, StoredAsIs DEF Message
      <4>4. ASSUME NEW j \in 1..d, Stands(e, n, k, j), k \in lost => d <= j
            PROVE  Prevails(e, d, j)
        <5>1. CASE j = d
          BY <1>1, <5>1 DEF Prevails
        <5>2. CASE j \in 1..c
          <6> k \notin lost
            BY <1>1, <4>4, <5>2
          <6>1. Prevails(e, i, j) /\ j \in 1..n /\ j <= d
            BY <1>1, <3>1, <4>4, <5>2
          <6>2. e[j].at \in Nat /\ e[i].at \in Nat /\ e[d].at \in Nat
            BY <1>1, <1>5, <6>1
          <6> QED BY <3>3, <6>1, <6>2 DEF Prevails
        <5> QED BY <1>1, <4>4, <5>1, <5>2
      <4> QED BY <1>1, <1>4, <2>4, <4>3, <4>4 DEF Latest
    <3> QED BY <3>2, <3>3
  <2> QED BY <2>2, <2>3, <2>4
<1> QED BY <1>6, <1>7 DEF d

\* What was read of a key was told of it, unless a message from c on clears it.
Told(value, e, n, k, c) ==
  (\A j \in (c + 1)..n : ~Clears(e[j], k)) =>
    value = NoState \/ \E i \in 1..n : Tells(e[i], k) /\ Holding(value, e[i])

\* The next message, blended with what was read before the key expired.
LEMMA StoredAfresh ==
  ASSUME NEW n \in Nat, NEW c \in Nat, c < n, NEW e, \A i \in 1..n : e[i] \in Message,
         NEW k, Gentle(e, n, k), Tells(e[c + 1], k),
         NEW value \in DelayState \cup {NoState}, Told(value, e, n, k, c),
         NEW lost, k \in lost
  PROVE  UpTo(Reconcile(value, e[c + 1]), e, n, k, c + 1, lost)
<1> DEFINE d == c + 1
           after == Reconcile(value, e[d])
<1> SUFFICES ASSUME \A j \in (d + 1)..n : ~Clears(e[j], k)
             PROVE  Latest(after, e, n, k, d, lost)
  BY DEF UpTo
<1>1. d \in 1..n /\ \A j \in 1..d : d <= j => j = d
  OBVIOUS
<1>2. (c + 1)..n = {d} \cup ((d + 1)..n)
  OBVIOUS
<1>3. ~Clears(e[d], k)
  BY DEF Tells, Clears, DelayKinds
<1>4. value = NoState \/ \E i \in 1..n : Tells(e[i], k) /\ Holding(value, e[i])
  BY <1>2, <1>3 DEF Told
<1> HIDE DEF d
<1>5. value # NoState => AbsDiff(e[d].delay, value.delay) <= SmoothingThreshold
  BY <1>1, <1>4 DEF Gentle, Holding, d
<1>6. Holding(after, e[d])
  BY <1>1, <1>5, StoredAsIs DEF Message
<1>7. Stands(e, n, k, d)
  BY <1>1 DEF Stands, d
<1>8. Prevails(e, d, d)
  BY <1>1 DEF Prevails
<1> QED BY <1>1, <1>6, <1>7, <1>8 DEF Latest

\* Two values that the whole log leaves are of one message, if the key never expired.
LEMMA OneLatest ==
  ASSUME NEW n \in Nat, NEW e, \A i \in 1..n : e[i] \in Message, NEW k, NEW a, NEW b,
         UpTo(a, e, n, k, n, {}), UpTo(b, e, n, k, n, {})
  PROVE  SameDelay(a, b)
<1>1. Latest(a, e, n, k, n, {}) /\ Latest(b, e, n, k, n, {})
  <2>1. (n + 1)..n = {}
    OBVIOUS
  <2> QED BY <2>1 DEF UpTo
<1>2. \A i \in 1..n : e[i].at \in Nat
  BY DEF Message, Event
<1>3. ASSUME NEW i \in 1..n, NEW j \in 1..n, Prevails(e, i, j), Prevails(e, j, i)
      PROVE  i = j
  BY <1>2, <1>3 DEF Prevails
<1>4. CASE a = NoState
  BY <1>1, <1>4 DEF Latest, Holding, SameDelay
<1>5. CASE b = NoState
  BY <1>1, <1>5 DEF Latest, Holding, SameDelay
<1>6. CASE a # NoState /\ b # NoState
  <2>1. PICK i \in 1..n : /\ Stands(e, n, k, i) /\ Holding(a, e[i])
                          /\ \A j \in 1..n : Stands(e, n, k, j) => Prevails(e, i, j)
    BY <1>1, <1>6 DEF Latest
  <2>2. PICK j \in 1..n : /\ Stands(e, n, k, j) /\ Holding(b, e[j])
                          /\ \A m \in 1..n : Stands(e, n, k, m) => Prevails(e, j, m)
    BY <1>1, <1>6 DEF Latest
  <2>3. i = j
    BY <1>3, <2>1, <2>2
  <2> QED BY <2>1, <2>2, <2>3 DEF Holding, SameDelay
<1> QED BY <1>4, <1>5, <1>6
\* The log as ProcessEvent sees it.
Heard(log) == [i \in 1..Len(log) |-> Enriched(log[i])]

\* Enrichment leaves alone what the log says of keys and times.
LEMMA HeardType ==
  ASSUME NEW log \in Seq(Message)
  PROVE  /\ Len(log) \in Nat
         /\ \A i \in 1..Len(log) :
              /\ Heard(log)[i] \in Message /\ Heard(log)[i] = Enriched(log[i])
              /\ log[i] \in Message /\ log[i].kind = Heard(log)[i].kind
              /\ KeyOf(Heard(log)[i]) = KeyOf(log[i])
<1>1. Len(log) \in Nat /\ \A i \in 1..Len(log) : log[i] \in Message
  OBVIOUS
<1> QED BY <1>1, EnrichedType DEF Heard

\* Processing a message acts on each key by itself.
LEMMA AppliedPasses ==
  ASSUME NEW st \in [Keys -> DelayState \cup {NoState}], NEW ev \in Message
  PROVE  /\ Applied(st, ev) \in [Keys -> DelayState \cup {NoState}]
         /\ \A k \in Keys : Applied(st, ev)[k] = Passed(st[k], ev, k)
<1>1. CASE ev.kind \in DelayKinds
  <2>1. KeyOf(ev) \in Keys /\ \A k : ~Clears(ev, k)
    BY <1>1, KeyType DEF DelayKinds, Clears
  <2>2. PICK own \in Keys : own = KeyOf(ev)
    BY <2>1
  <2>3. Reconcile(st[own], ev) \in DelayState
    BY ReconcileType DEF Message
  <2> QED BY <1>1, <2>1, <2>2, <2>3 DEF Applied, Passed, Tells
<1>2. CASE ev.kind \notin DelayKinds
  BY <1>2 DEF Applied, Passed, Tells, Clears
<1> QED BY <1>1, <1>2

\* What the messages of the log leave, one after the other.
Processes(g, n, log) ==
  g = [m \in 0..n |-> IF m = 0 THEN [k \in Keys |-> NoState]
                      ELSE Applied(g[m - 1], Enriched(log[m]))]

\* There is such a function, for a log of any length.
LEMMA ProcessesExists ==
  ASSUME NEW log, NEW n \in Nat
  PROVE  \E g : Processes(g, n, log)
<1> DEFINE H == {m \in Nat : \E g : Processes(g, m, log)}
<1>1. 0 \in H
  <2>1. Processes([m \in {0} |-> [k \in Keys |-> NoState]], 0, log)
    BY DEF Processes
  <2> QED BY <2>1
<1>2. ASSUME NEW m \in H PROVE m + 1 \in H
  <2>1. m \in Nat /\ \E g : Processes(g, m, log)
    OBVIOUS
  <2>2. PICK g : Processes(g, m, log)
    BY <2>1
  <2> DEFINE more == [i \in 0..(m + 1) |-> IF i \in 0..m THEN g[i]
                                           ELSE Applied(g[m], Enriched(log[m + 1]))]
  <2>3. ASSUME NEW i \in 0..(m + 1)
        PROVE  more[i] = IF i = 0 THEN [k \in Keys |-> NoState]
                         ELSE Applied(more[i - 1], Enriched(log[i]))
    <3>1. CASE i = 0
      BY <2>1, <2>2, <3>1 DEF Processes
    <3>2. CASE i \in 1..m
      <4>1. i \in 0..m /\ i - 1 \in 0..m /\ i # 0
        BY <2>1, <3>2
      <4>2. g[i] = Applied(g[i - 1], Enriched(log[i]))
        BY <2>2, <4>1 DEF Processes
      <4> QED BY <4>1, <4>2
    <3>3. CASE i = m + 1
      <4>1. i \notin 0..m /\ i - 1 = m /\ m \in 0..m /\ i # 0
        BY <2>1, <3>3
      <4> QED BY <3>3, <4>1
    <3> QED BY <2>1, <3>1, <3>2, <3>3
  <2>4. Processes(more, m + 1, log)
    BY <2>3 DEF Processes
  <2> QED BY <2>1, <2>4
<1> HIDE DEF H
<1>3. H \in SUBSET Nat
  BY DEF H
<1>4. n \in H
  BY <1>1, <1>2, <1>3, InductionOnSet
<1> QED BY <1>4 DEF H

\* Processing every message once leaves the latest for every key.
LEMMA OnceIsLatest ==
  ASSUME NEW log \in Seq(Message), NEW g, Processes(g, Len(log), log), NEW k \in Keys,
         Gentle(Heard(log), Len(log), k)
  PROVE  UpTo(g[Len(log)][k], Heard(log), Len(log), k, Len(log), {})
<1> DEFINE n == Len(log)
           e == Heard(log)
           H == {m \in Nat : m <= n => /\ g[m] \in [Keys -> DelayState \cup {NoState}]
                                       /\ UpTo(g[m][k], e, n, k, m, {})}
<1>1. n \in Nat /\ \A i \in 1..n : e[i] \in Message /\ e[i] = Enriched(log[i])
  BY HeardType
<1>2. 0 \in H
  <2>1. g[0] = [i \in Keys |-> NoState]
    BY <1>1 DEF Processes
  <2>2. Latest(NoState, e, n, k, 0, {})
    BY DEF Latest
  <2> QED BY <2>1, <2>2 DEF UpTo
<1> HIDE DEF e
<1>3. ASSUME NEW m \in H PROVE m + 1 \in H
  <2>1. m \in Nat
    OBVIOUS
  <2> SUFFICES ASSUME m + 1 <= n
               PROVE  /\ g[m + 1] \in [Keys -> DelayState \cup {NoState}]
                      /\ UpTo(g[m + 1][k], e, n, k, m + 1, {})
    BY <2>1
  <2>2. m < n /\ m + 1 \in 1..n /\ m + 1 \in 0..n /\ m + 1 # 0 /\ (m + 1) - 1 = m
    BY <1>1, <2>1
  <2>3. g[m] \in [Keys -> DelayState \cup {NoState}] /\ UpTo(g[m][k], e, n, k, m, {})
    BY <1>1, <2>1, <2>2
  <2>4. g[m + 1] = Applied(g[m], e[m + 1])
    BY <1>1, <2>2 DEF Processes
  <2>5. /\ g[m + 1] \in [Keys -> DelayState \cup {NoState}]
        /\ g[m + 1][k] = Passed(g[m][k], e[m + 1], k)
    BY <1>1, <2>2, <2>3, <2>4, AppliedPasses
  <2>6. g[m][k] \in DelayState \cup {NoState} /\ Gentle(e, n, k)
    BY <2>3 DEF e
  <2>7. UpTo(Passed(g[m][k], e[m + 1], k), e, n, k, m + 1, {})
    BY <1>1, <2>1, <2>2, <2>3, <2>6, OneMoreMessage
  <2> QED BY <2>5, <2>7
<1> HIDE DEF H, n
<1>4. H \in SUBSET Nat
  BY DEF H
<1>5. n \in H
  BY <1>1, <1>2, <1>3, <1>4, InductionOnSet
<1>6. UpTo(g[n][k], e, n, k, n, {})
  BY <1>1, <1>5 DEF H
<1> QED BY <1>6 DEF n, e

\* The model's pass over the log is one.
LEMMA OnceProcesses ==
  ASSUME topic \in Seq(Message)
  PROVE  \E g : Processes(g, Len(topic), topic) /\ ProcessedOnce = g[Len(topic)]
<1>1. Len(topic) \in Nat
  OBVIOUS
<1>2. \E g : Processes(g, Len(topic), topic)
  BY <1>1, ProcessesExists
<1> DEFINE Pass == CHOOSE g : Processes(g, Len(topic), topic)
<1>3. Processes(Pass, Len(topic), topic)
  BY <1>2
<1>4. ProcessedOnce = Pass[Len(topic)]
  BY DEF ProcessedOnce, Processes
<1> QED BY <1>3, <1>4
\* How far the log is processed: what the running claim has done, or where the next
\* one will start.
Reached ==
  IF claim = "running" THEN IF phase = "done" THEN position + 1 ELSE position
  ELSE committed

\* Offsets in order: what is committed or marked lies behind the claim's position.
OffsetsOK ==
  /\ committed \in 0..Len(topic)
  /\ claim = "running" => position \in committed..Len(topic)
  /\ marked # NoOffset => marked \in 0..position

\* What is about to be written was read, and a cancellation about to delete has
\* found every key of its trip that lives, and no key of another.
ScanCurrent ==
  phase = "write" =>
    /\ InHand.kind # "corrupt"
    /\ InHand.kind = "cancel" =>
         TripKeys(InHand) \subseteq scanned /\ \A k \in scanned : k[1] = InHand.trip

\* Between its GET and its SET a claim holds what was told of the key.
HeldTold ==
  LET k == KeyOf(InHand)
  IN  phase = "write" /\ InHand.kind \in DelayKinds /\ Gentle(Heard(topic), Len(topic), k)
      => Told(held, Heard(topic), Len(topic), k, position)

LatestStored ==
  \A k \in Keys : Gentle(Heard(topic), Len(topic), k) =>
    UpTo(redis[k], Heard(topic), Len(topic), k, Reached, expired)

\* Until a command outlives its client, what is stored is the latest that stands of
\* what was processed since it last expired, or is cleared by a message still to be
\* processed again.
ReplayInv == OffsetsOK /\ (NoLateCommand => ScanCurrent /\ HeldTold /\ LatestStored)

\* Nothing is stored or processed at the start.
LEMMA ReplayStarts == StartCommitted /\ Init => ReplayInv
<1> SUFFICES ASSUME StartCommitted, Init PROVE ReplayInv
  OBVIOUS
<1>1. topic = <<>> /\ committed = 0 /\ claim = "down" /\ marked = NoOffset /\ phase = "idle"
      /\ \A k \in Keys : redis[k] = NoState
  BY DEF Init
<1>2. Len(topic) = 0 /\ OffsetsOK /\ ScanCurrent /\ HeldTold
  BY <1>1 DEF OffsetsOK, ScanCurrent, HeldTold
<1>3. Reached = 0
  BY <1>1 DEF Reached
<1>4. LatestStored
  BY <1>1, <1>2, <1>3 DEF LatestStored, UpTo, Latest
<1> QED BY <1>2, <1>4 DEF ReplayInv

\* The offsets stay in order.
LEMMA OffsetsStep ==
  ASSUME ConsumerInv, OffsetsOK, Consume \/ Grown
  PROVE  OffsetsOK'
<1> USE DEF ConsumerInv, TypeOK, HandOK, OffsetsOK, NoOffset
<1>1. CASE StartClaim
  BY <1>1 DEF StartClaim, StartPosition
<1>2. CASE SkipCorrupt \/ Mark
  BY <1>2 DEF SkipCorrupt, Mark
<1>3. CASE Receive \/ Read \/ Write
  BY <1>3 DEF Receive, Read, Write
<1>4. CASE CommandFails \/ ReplyLost \/ WriteTimesOut \/ SessionEnds
  <2>1. topic' = topic /\ (RetryOrGiveUp \/ EndClaim) /\ claim = "running"
    BY <1>4 DEF CommandFails, ReplyLost, WriteTimesOut, SessionEnds
  <2> QED BY <2>1 DEF RetryOrGiveUp, EndClaim, FlushedOffset
<1>5. CASE Crash
  BY <1>5 DEF Crash
<1>6. CASE AutoCommit
  BY <1>6 DEF AutoCommit, claimVars
<1>7. CASE Grown
  BY <1>7 DEF Grown, Extended, claimVars
<1>8. CASE LateWrite
  BY <1>8 DEF LateWrite, claimVars
<1>9. CASE Expire
  BY <1>9 DEF Expire, claimVars
<1> QED
  BY <1>1, <1>2, <1>3, <1>4, <1>5, <1>6, <1>7, <1>8, <1>9 DEF Consume, Progress, Faults

\* A scan stays current, as no other write meets it.
LEMMA ScanStep ==
  ASSUME ConsumerInv, HeldCurrent, ScanCurrent, Consume \/ Grown
  PROVE  ScanCurrent'
<1>1. CASE Read
  <2>1. InHand' = InHand /\ redis' = redis
    BY <1>1, InHandStable, LogGrows DEF ConsumerInv, Read
  <2>2. /\ InHand.kind # "corrupt"
        /\ phase' = "write" /\ InHand.kind = "cancel" => scanned' = TripKeys(InHand)
    BY <1>1 DEF Read, ReadDelay, ReadSkip, ScanTrip, DelayKinds
  <2> QED BY <2>1, <2>2 DEF ScanCurrent, TripKeys
<1>2. CASE phase' # "write"
  BY <1>2 DEF ScanCurrent
<1>3. CASE AutoCommit \/ Grown
  <2>1. UNCHANGED <<claimVars, redis>>
    BY <1>3 DEF AutoCommit, Grown
  <2>2. phase # "idle" => InHand' = InHand
    BY <2>1, InHandStable, LogGrows DEF ConsumerInv, claimVars
  <2> QED BY <2>1, <2>2 DEF claimVars, ScanCurrent, TripKeys
<1>4. CASE LateWrite
  BY <1>4 DEF LateWrite, HeldCurrent
<1>5. CASE StartClaim \/ SkipCorrupt
  BY <1>5 DEF StartClaim, SkipCorrupt, ConsumerInv, HandOK, ScanCurrent
<1>6. CASE Expire
  <2>1. UNCHANGED claimVars
    BY <1>6 DEF Expire
  <2>2. phase # "idle" => InHand' = InHand
    BY <1>6, <2>1, InHandStable, LogGrows DEF ConsumerInv, claimVars
  <2>3. \A k \in Keys : redis'[k] # NoState => redis[k] # NoState
    BY <1>6 DEF Expire, ConsumerInv, TypeOK
  <2> QED BY <2>1, <2>2, <2>3 DEF claimVars, ScanCurrent, TripKeys
<1> QED
  BY <1>1, <1>2, <1>3, <1>4, <1>5, <1>6
  DEF Consume, Progress, Faults, Receive, Write, Mark, CommandFails, ReplyLost,
      WriteTimesOut, SessionEnds, Crash, RetryOrGiveUp, EndClaim

\* What is held stays told of.
LEMMA ToldStep ==
  ASSUME ConsumerInv, OffsetsOK, HeldTold, LatestStored, Consume \/ Grown
  PROVE  HeldTold'
<1> DEFINE n == Len(topic)
           e == Heard(topic)
<1>1. topic \in Seq(Message) /\ n \in Nat
  BY DEF ConsumerInv, TypeOK, Message
<1>2. CASE Read
  <2>1. InHand' = InHand /\ topic' = topic /\ position' = position /\ phase = "call"
    BY <1>2, InHandStable, LogGrows DEF ConsumerInv, Read
  <2> SUFFICES ASSUME InHand.kind \in DelayKinds, Gentle(e, n, KeyOf(InHand)),
                      \A j \in (position + 1)..n : ~Clears(e[j], KeyOf(InHand)),
                      held' # NoState
               PROVE  \E i \in 1..n : Tells(e[i], KeyOf(InHand)) /\ Holding(held', e[i])
    BY <2>1 DEF HeldTold, Told
  <2>2. KeyOf(InHand) \in Keys
    BY <2>1, InHandType, KeyType DEF ConsumerInv, DelayKinds
  <2>3. held' = redis[KeyOf(InHand)]
    BY <1>2 DEF Read, ReadDelay, ReadSkip, ScanTrip, DelayKinds
  <2>4. Reached = position
    BY <2>1 DEF ConsumerInv, HandOK, Reached
  <2>5. PICK k \in Keys : k = KeyOf(InHand)
    BY <2>2
  <2>6. UpTo(redis[k], e, n, k, position, expired)
    BY <2>4, <2>5 DEF LatestStored
  <2>7. Latest(redis[k], e, n, k, position, expired)
    BY <2>5, <2>6 DEF UpTo
  <2> QED BY <2>3, <2>5, <2>7 DEF Latest, Stands
<1>3. CASE AutoCommit \/ LateWrite \/ Expire \/ Grown
  <2>1. UNCHANGED claimVars /\ Extended
    BY <1>3, LogGrows DEF ConsumerInv, AutoCommit, LateWrite, Expire, Grown
  <2>2. phase # "idle" => InHand' = InHand
    BY <2>1, InHandStable DEF claimVars
  <2>3. PICK m \in Nat : m = Len(topic') /\ n <= m
    BY <2>1 DEF Extended
  <2>4. \A i \in 1..n : Heard(topic')[i] = e[i] /\ i \in 1..m
    BY <1>1, <2>1, <2>3 DEF Extended, Heard
  <2> SUFFICES ASSUME phase = "write", InHand.kind \in DelayKinds,
                      Gentle(Heard(topic'), m, KeyOf(InHand))
               PROVE  Told(held, Heard(topic'), m, KeyOf(InHand), position)
    BY <2>1, <2>2, <2>3 DEF HeldTold, claimVars
  <2>5. Gentle(e, n, KeyOf(InHand))
    BY <2>4 DEF Gentle
  <2>6. Told(held, e, n, KeyOf(InHand), position)
    BY <2>5 DEF HeldTold
  <2>7. \A j \in (position + 1)..n : j \in (position + 1)..m /\ j \in 1..n
    BY <2>3 DEF ConsumerInv, TypeOK
  <2> QED BY <2>4, <2>6, <2>7 DEF Told
<1>4. CASE phase' # "write"
  BY <1>4 DEF HeldTold
<1>5. CASE StartClaim \/ SkipCorrupt
  BY <1>5 DEF StartClaim, SkipCorrupt, ConsumerInv, HandOK, HeldTold
<1> QED
  BY <1>2, <1>3, <1>4, <1>5
  DEF Consume, Progress, Faults, Receive, Write, Mark, CommandFails, ReplyLost,
      WriteTimesOut, SessionEnds, Crash, RetryOrGiveUp, EndClaim

\* What a write in time does to each key: it processes the message, or blends it
\* with what had been read before the key expired.
LEMMA WritePasses ==
  ASSUME ConsumerInv, HeldCurrent, ScanCurrent, phase = "write", NEW k \in Keys
  PROVE  \/ Executed(WriteOf(InHand))[k] = Passed(redis[k], InHand, k)
         \/ /\ k \in expired /\ Tells(InHand, k)
            /\ Executed(WriteOf(InHand))[k] = Reconcile(held, InHand)
<1>1. InHand \in Message
  BY InHandType DEF ConsumerInv
<1>2. PICK ev \in Message : ev = InHand
  BY <1>1
<1>3. CASE ev.kind \in DelayKinds
  <2>1. CASE k = KeyOf(ev)
    <3>1. \/ held = redis[KeyOf(ev)] /\ ~OutOfOrder(held, ev)
          \/ k \in expired
      BY <1>2, <1>3, <2>1 DEF HeldCurrent
    <3> QED BY <1>2, <1>3, <2>1, <3>1 DEF Executed, WriteOf, Passed, Tells
  <2>2. CASE k # KeyOf(ev)
    BY <1>2, <1>3, <2>2 DEF Executed, WriteOf, Passed, Tells, Clears, DelayKinds
  <2> QED BY <2>1, <2>2
<1>4. CASE ev.kind = "cancel"
  <2>1. /\ {j \in Keys : j[1] = ev.trip /\ redis[j] # NoState} \subseteq scanned
        /\ \A j \in scanned : j[1] = ev.trip
    BY <1>2, <1>4 DEF ScanCurrent, TripKeys
  <2> QED BY <1>2, <1>4, <2>1 DEF Executed, WriteOf, Passed, Tells, Clears, DelayKinds
<1>5. CASE ev.kind = "skip"
  BY <1>2, <1>5 DEF Executed, WriteOf, Passed, Tells, Clears, DelayKinds
<1>6. ev.kind \in Kinds /\ ev.kind # "corrupt"
  BY <1>2 DEF ScanCurrent, Message, Event
<1> QED BY <1>3, <1>4, <1>5, <1>6 DEF Kinds

\* A read that finds nothing to do is all the processing of its message.
LEMMA ReadPasses ==
  ASSUME ConsumerInv, Read, phase' = "done", NEW k \in Keys
  PROVE  redis[k] = Passed(redis[k], InHand, k)
<1>1. PICK ev \in Message : ev = InHand
  BY InHandType DEF ConsumerInv, Read
<1>2. CASE ev.kind \in DelayKinds
  <2>1. OutOfOrder(redis[KeyOf(ev)], ev)
    BY <1>1, <1>2 DEF Read, ReadDelay, ReadSkip, ScanTrip, DelayKinds
  <2> QED BY <1>1, <1>2, <2>1 DEF Passed, Tells, Clears, DelayKinds
<1>3. CASE ev.kind = "cancel"
  <2>1. \A j \in Keys : j[1] = ev.trip => redis[j] = NoState
    BY <1>1, <1>3 DEF Read, ReadDelay, ReadSkip, ScanTrip, DelayKinds, TripKeys
  <2> QED BY <1>1, <1>3, <2>1 DEF Passed, Tells, Clears, DelayKinds
<1> QED BY <1>1, <1>2, <1>3 DEF Read, ReadDelay, ReadSkip, ScanTrip

\* Every step keeps what is stored the latest.
LEMMA LatestStep ==
  ASSUME ConsumerInv, OffsetsOK, HeldCurrent, ScanCurrent, HeldTold, LatestStored, Consume \/ Grown,
         ~WriteTimesOut
  PROVE  LatestStored'
<1> DEFINE n == Len(topic)
           e == Heard(topic)
<1>1. /\ topic \in Seq(Message) /\ n \in Nat
      /\ \A i \in 1..n : e[i] \in Message /\ e[i] = Enriched(topic[i])
  BY HeardType DEF ConsumerInv, TypeOK, Message
<1>2. /\ Reached \in 0..n /\ position \in Nat /\ committed \in 0..n
      /\ claim = "running" => position \in 0..n /\ committed <= position /\ position <= Reached
      /\ marked # NoOffset => marked \in 0..position
  BY <1>1 DEF ConsumerInv, TypeOK, HandOK, OffsetsOK, Reached
<1>3. phase # "idle" => /\ claim = "running" /\ position < n /\ InHand = e[position + 1]
                        /\ phase # "done" => Reached = position
  BY <1>1 DEF ConsumerInv, TypeOK, HandOK, InHand, Reached
<1>4. ASSUME topic' = topic, UNCHANGED <<redis, expired>>, Reached' \in 0..Reached
      PROVE  LatestStored'
  <2>1. ASSUME NEW k \in Keys, Gentle(e, n, k)
        PROVE  UpTo(redis[k], e, n, k, Reached', expired)
    <3>1. UpTo(redis[k], e, n, k, Reached, expired)
      BY <2>1 DEF LatestStored
    <3> QED BY <1>1, <1>2, <1>4, <3>1, Sooner
  <2> QED BY <1>4, <2>1 DEF LatestStored
<1>5. ASSUME topic' = topic, expired' = expired, phase \in {"call", "write"},
             Reached' \in 0..(position + 1),
             \A k \in Keys : \/ redis'[k] = Passed(redis[k], InHand, k)
                            \/ /\ phase = "write" /\ k \in expired /\ Tells(InHand, k)
                               /\ redis'[k] = Reconcile(held, InHand)
      PROVE  LatestStored'
  <2>1. position < n /\ InHand = e[position + 1] /\ Reached = position
    BY <1>3, <1>5
  <2>2. ASSUME NEW k \in Keys, Gentle(e, n, k)
        PROVE  UpTo(redis'[k], e, n, k, Reached', expired)
    <3>1. UpTo(redis[k], e, n, k, position, expired) /\ redis[k] \in DelayState \cup {NoState}
      BY <2>1, <2>2 DEF LatestStored, ConsumerInv, TypeOK
    <3>2. UpTo(redis'[k], e, n, k, position + 1, expired)
      <4>1. CASE redis'[k] = Passed(redis[k], InHand, k)
        BY <1>1, <1>2, <2>1, <2>2, <3>1, <4>1, OneMoreMessage
      <4>2. ASSUME phase = "write", k \in expired, Tells(InHand, k),
                   redis'[k] = Reconcile(held, InHand)
            PROVE  UpTo(redis'[k], e, n, k, position + 1, expired)
        <5>1. InHand.kind \in DelayKinds /\ k = KeyOf(InHand)
          BY <4>2 DEF Tells
        <5>2. Told(held, e, n, k, position)
          BY <2>2, <4>2, <5>1 DEF HeldTold
        <5>3. held \in DelayState \cup {NoState}
          BY DEF ConsumerInv, TypeOK
        <5>4. UpTo(Reconcile(held, e[position + 1]), e, n, k, position + 1, expired)
          BY <1>1, <1>2, <2>1, <2>2, <4>2, <5>2, <5>3, StoredAfresh
        <5> QED BY <2>1, <4>2, <5>4
      <4> QED BY <1>5, <4>1, <4>2
    <3>3. position + 1 \in 0..n
      BY <1>1, <1>2, <2>1
    <3> QED BY <1>1, <1>5, <3>2, <3>3, Sooner
  <2> QED BY <1>5, <2>2 DEF LatestStored
<1>6. CASE StartClaim
  <2>1. topic' = topic /\ UNCHANGED <<redis, expired>> /\ Reached' = Reached
    BY <1>2, <1>6
       DEF StartClaim, StartPosition, Reached, ConsumerInv, HandOK, NoOffset, historyVars
  <2> QED BY <1>2, <1>4, <2>1
<1>7. CASE SkipCorrupt
  <2>1. /\ topic' = topic /\ UNCHANGED <<redis, expired>> /\ position < n /\ Reached = position
        /\ topic[position + 1].kind = "corrupt" /\ Reached' = position + 1
    BY <1>7 DEF SkipCorrupt, Reached, historyVars
  <2>2. e[position + 1].kind = "corrupt"
    BY <1>1, <1>2, <2>1, HeardType
  <2>3. ASSUME NEW k \in Keys, Gentle(e, n, k)
        PROVE  UpTo(redis[k], e, n, k, position + 1, expired)
    <3>1. UpTo(redis[k], e, n, k, position, expired) /\ redis[k] \in DelayState \cup {NoState}
      BY <2>1, <2>3 DEF LatestStored, ConsumerInv, TypeOK
    <3>2. Passed(redis[k], e[position + 1], k) = redis[k]
      BY <2>2 DEF Passed, Tells, Clears, DelayKinds
    <3> QED BY <1>1, <1>2, <2>1, <2>3, <3>1, <3>2, OneMoreMessage
  <2> QED BY <2>1, <2>3 DEF LatestStored
<1>8. CASE Receive
  <2>1. topic' = topic /\ UNCHANGED <<redis, expired>> /\ Reached' = Reached
    BY <1>8 DEF Receive, Reached
  <2> QED BY <1>2, <1>4, <2>1
<1>9. CASE Read
  <2>1. /\ topic' = topic /\ UNCHANGED <<redis, expired, claim, position>>
        /\ phase = "call"
    BY <1>9 DEF Read
  <2>2. CASE phase' = "done"
    <3>1. Reached' \in 0..(position + 1)
      BY <1>2, <1>3, <2>1, <2>2 DEF Reached
    <3>2. \A k \in Keys : redis'[k] = Passed(redis[k], InHand, k)
      BY <1>9, <2>1, <2>2, ReadPasses
    <3> QED BY <1>5, <2>1, <3>1, <3>2
  <2>3. CASE phase' # "done"
    <3>1. Reached' = Reached
      BY <1>3, <2>1, <2>3 DEF Reached
    <3> QED BY <1>2, <1>4, <2>1, <3>1
  <2> QED BY <2>2, <2>3
<1>10. CASE Write \/ ReplyLost
  <2>1. /\ topic' = topic /\ expired' = expired
        /\ phase = "write" /\ redis' = Executed(WriteOf(InHand))
    BY <1>10 DEF Write, ReplyLost, historyVars
  <2>2. Reached' \in 0..(position + 1)
    BY <1>2, <1>3, <1>10
       DEF Write, ReplyLost, RetryOrGiveUp, EndClaim, FlushedOffset, Reached
  <2> QED BY <1>5, <2>1, <2>2, WritePasses
<1>11. CASE Mark
  <2>1. topic' = topic /\ UNCHANGED <<redis, expired>> /\ Reached' = Reached
    BY <1>3, <1>11 DEF Mark, Reached, historyVars
  <2> QED BY <1>2, <1>4, <2>1
<1>12. CASE CommandFails \/ SessionEnds
  <2>1. topic' = topic /\ UNCHANGED <<redis, expired>>
    BY <1>12 DEF CommandFails, SessionEnds, historyVars
  <2>2. Reached' \in 0..Reached
    BY <1>2, <1>3, <1>12
       DEF CommandFails, SessionEnds, RetryOrGiveUp, EndClaim, FlushedOffset, Reached
  <2> QED BY <1>4, <2>1, <2>2
<1>13. CASE Crash
  <2>1. topic' = topic /\ UNCHANGED <<redis, expired>> /\ Reached' \in 0..Reached
    BY <1>2, <1>13 DEF Crash, Reached, historyVars
  <2> QED BY <1>4, <2>1
<1>14. CASE AutoCommit
  <2>1. topic' = topic /\ UNCHANGED <<redis, expired>> /\ Reached' = Reached
    BY <1>14 DEF AutoCommit, claimVars, historyVars, Reached
  <2> QED BY <1>2, <1>4, <2>1
<1>15. CASE Grown
  <2>1. PICK m \in Nat : m = Len(topic')
    BY <1>15 DEF Grown, Extended
  <2>2. /\ n <= m /\ topic' \in Seq(Message)
        /\ \A i \in 1..n : topic'[i] = topic[i] /\ i \in 1..m
    BY <1>1, <1>15, <2>1 DEF Grown, Extended
  <2>3. \A i \in 1..n : Heard(topic')[i] = e[i]
    BY <1>1, <2>1, <2>2 DEF Heard
  <2>4. UNCHANGED <<redis, expired>> /\ Reached' = Reached
    BY <1>15 DEF Grown, claimVars, historyVars, Reached
  <2>5. ASSUME NEW k \in Keys, Gentle(Heard(topic'), m, k)
        PROVE  UpTo(redis[k], Heard(topic'), m, k, Reached, expired)
    <3>1. Gentle(e, n, k)
      BY <2>2, <2>3, <2>5 DEF Gentle
    <3>2. UpTo(redis[k], e, n, k, Reached, expired)
      BY <3>1 DEF LatestStored
    <3> QED BY <1>1, <1>2, <2>2, <2>3, <3>2, Longer
  <2> QED BY <2>1, <2>4, <2>5 DEF LatestStored
<1>16. CASE LateWrite
  BY <1>16 DEF LateWrite, HeldCurrent
<1>17. CASE Expire
  <2>1. PICK gone \in Keys :
          redis' = [redis EXCEPT ![gone] = NoState] /\ expired' = expired \cup {gone}
    BY <1>17 DEF Expire
  <2>2. topic' = topic /\ Reached' = Reached
    BY <1>17 DEF Expire, claimVars, Reached
  <2>3. ASSUME NEW k \in Keys, Gentle(e, n, k)
        PROVE  UpTo(redis'[k], e, n, k, Reached, expired')
    <3>1. CASE k = gone
      BY <2>1, <3>1 DEF UpTo, Latest, ConsumerInv, TypeOK
    <3>2. CASE k # gone
      <4>1. redis'[k] = redis[k] /\ (k \in expired' <=> k \in expired)
        BY <2>1, <3>2 DEF ConsumerInv, TypeOK
      <4>2. UpTo(redis[k], e, n, k, Reached, expired)
        BY <2>3 DEF LatestStored
      <4> QED BY <4>1, <4>2 DEF UpTo, Latest
    <3> QED BY <3>1, <3>2
  <2> QED BY <2>2, <2>3 DEF LatestStored
<1> QED
  BY <1>6, <1>7, <1>8, <1>9, <1>10, <1>11, <1>12, <1>13, <1>14, <1>15, <1>16, <1>17
  DEF Consume, Progress, Faults

\* Every step keeps all this.
LEMMA ReplayStep ==
  ASSUME ConsumerInv, HeldInv, ReplayInv, Consume \/ Grown
  PROVE  ReplayInv'
BY OffsetsStep, StillInTime, ScanStep, ToldStep, LatestStep DEF ReplayInv

\* Once the log is drained, all of it has been processed.
LEMMA ReplaysAgree ==
  ASSUME ConsumerInv, ReplayInv
  PROVE  ReplayedAsOnce
<1> SUFFICES ASSUME Drained, NoLateCommand, NEW k \in Keys \ expired, Undampened(k)
             PROVE  SameDelay(redis[k], ProcessedOnce[k])
  BY DEF ReplayedAsOnce
<1> DEFINE n == Len(topic)
           e == Heard(topic)
<1>1. /\ topic \in Seq(Message) /\ n \in Nat /\ \A i \in 1..n : e[i] \in Message
      /\ \A i \in 1..n : /\ e[i] = Enriched(topic[i]) /\ topic[i].kind = e[i].kind
                         /\ KeyOf(e[i]) = KeyOf(topic[i])
  BY HeardType DEF ConsumerInv, TypeOK, Message
<1>2. Gentle(e, n, k)
  BY <1>1 DEF Gentle, Undampened, Tells
<1>3. Reached = n
  BY DEF Drained, Reached
<1>4. UpTo(redis[k], e, n, k, n, {})
  <2>1. UpTo(redis[k], e, n, k, n, expired)
    BY <1>2, <1>3 DEF ReplayInv, LatestStored
  <2> QED BY <2>1 DEF UpTo, Latest
<1>5. PICK g : Processes(g, n, topic) /\ ProcessedOnce = g[n]
  BY <1>1, OnceProcesses
<1>6. UpTo(g[n][k], e, n, k, n, {})
  BY <1>1, <1>2, <1>5, OnceIsLatest
<1> QED BY <1>1, <1>4, <1>5, <1>6, OneLatest

\* For any messages, retries, lost replies, rebalances, crashes and replays, the
\* drained log leaves in Redis what processing every message once leaves, for keys
\* that never expired and without a dampened jump, and until a command outlives its
\* client: at-least-once delivery (cmd/processor/main.go:243-253) is invisible
\* (manager.go:94-154).
THEOREM ReplaysInvisible ==
  ASSUME StartCommitted PROVE Spec => []ReplayedAsOnce
<1>1. Init => ReplayInv
  BY ReplayStarts
<1>2. ConsumerInv /\ HeldInv /\ ReplayInv /\ [Next]_vars => ReplayInv'
  BY ReplayStep, NextGrows DEF ConsumerInv
<1>3. ConsumerInv /\ ReplayInv => ReplayedAsOnce
  BY ReplaysAgree
<1> QED BY <1>1, <1>2, <1>3, ConsumerInvariant, HeldInvariant, PTL DEF Spec
=============================================================================
