--------------------------- MODULE PipelineProofs ---------------------------
(***************************************************************************)
(* Proofs about Ingest, for any trips, stops, updates, thresholds and      *)
(* staleness window: every variable keeps its type; live keys survive      *)
(* pruning; and, while no published event is reported as failed, what the  *)
(* Differ compares with is the last event published for the key.           *)
(*                                                                         *)
(* Then about Pipeline, where the topic has a poller at one end and a claim*)
(* at the other: the promises of both hold of the whole, and once the log  *)
(* is drained Redis holds what the Differ compares with.                   *)
(***************************************************************************)
EXTENDS Pipeline, TLAPS

USE DEF FeedBudgetKinds, FeedFaultKinds

\* Nothing is left to send between polls, and every key of the snapshot being
\* processed was just seen.
PollOK ==
  /\ outbox # {} => polling
  /\ polling => \A k \in polled : prev[k] # Unseen => prev[k].age = 0

\* The inductive invariant behind type correctness and LiveKeysSurvive.
IngestInv == IngestTypeOK /\ PollOK

-----------------------------------------------------------------------------
(* Lemmas about the operators.                                             *)

\* Spending a budget leaves a budget.
LEMMA SpendType ==
  ASSUME NEW what \in FeedBudgetKinds, feedLeft \in [FeedBudgetKinds -> Nat],
         SpendFeed(what) \/ SpendFault(what)
  PROVE  feedLeft' \in [FeedBudgetKinds -> Nat]
BY DEF SpendFeed, SpendFault

\* Normalising a snapshot yields well-formed events.
LEMMA RawType ==
  ASSUME NEW snapshot \in Snapshots
  PROVE  RawEvents(snapshot) \subseteq FeedEvent
<1> SUFFICES ASSUME NEW t \in Trips
             PROVE  Normalized(t, snapshot.trips[t], snapshot.at) \subseteq FeedEvent
  BY DEF RawEvents
<1> DEFINE u == snapshot.trips[t]
           at == snapshot.at
<1>1. u \in TripUpdates /\ at \in Nat
  BY DEF Snapshots
<1>2. CancelEvent(t, at) \in FeedEvent
  BY <1>1 DEF CancelEvent, FeedEvent, FeedKinds
<1>3. ASSUME u # Cancelled, NEW s \in Stops, IsSkipped(u[s]) \/ HasReading(u[s])
      PROVE  StopEvent(t, s, u[s], at) \in FeedEvent
  <2>1. u[s] \in StopUpdate
    BY <1>1, <1>3 DEF TripUpdates, IsSkipped, HasReading
  <2>2. ASSUME Usable(Told(u[s]))
        PROVE  /\ Told(u[s]).time \in Nat
               /\ DelayOf(Told(u[s])) \in Int /\ ScheduledOf(Told(u[s])) \in Int
    <3>1. Told(u[s]) \in Times
      BY <2>1, <2>2 DEF StopUpdate, Told, Usable
    <3> QED BY <3>1 DEF Times, DelayOf, ScheduledOf
  <2> QED BY <1>1, <2>2 DEF StopEvent, FeedEvent, FeedKinds
<1> QED BY <1>2, <1>3 DEF Normalized

\* Every event has a key of the Differ, and is remembered as just seen.
LEMMA EventType ==
  ASSUME NEW ev \in FeedEvent
  PROVE  /\ DiffKey(ev) \in DiffKeys
         /\ Observation(ev) \in Observed /\ Observation(ev).age = 0
         /\ SameObservation(Observation(ev), ev)
BY IngestAssumption
DEF FeedEvent, DiffKey, DiffKeys, Observation, Observed, SameObservation

\* Ageing and refreshing keep the observation and its type.
LEMMA SeenType ==
  ASSUME NEW keys \in SUBSET DiffKeys, prev \in [DiffKeys -> Observed \cup {Unseen}]
  PROVE  /\ SeenAgain(keys) \in [DiffKeys -> Observed \cup {Unseen}]
         /\ \A k \in keys : SeenAgain(keys)[k] # Unseen => SeenAgain(keys)[k].age = 0
         /\ \A k \in DiffKeys : SeenAgain(keys)[k] # Unseen =>
              /\ prev[k] # Unseen
              /\ \A ev \in FeedEvent :
                   SameObservation(prev[k], ev) => SameObservation(SeenAgain(keys)[k], ev)
<1>1. ASSUME NEW k \in DiffKeys, prev[k] # Unseen, NEW a \in 0..(Staleness + 1)
      PROVE  LET r == [prev[k] EXCEPT !.age = a] IN
             /\ r \in Observed /\ r.age = a
             /\ r.kind = prev[k].kind /\ r.delay = prev[k].delay
             /\ r.predicted = prev[k].predicted
  BY <1>1 DEF Observed
<1>2. ASSUME NEW k \in DiffKeys, prev[k] # Unseen
      PROVE  prev[k].age \in 0..(Staleness + 1) /\ prev[k] \in Observed
  BY <1>2 DEF Observed
<1>3. ASSUME NEW k \in DiffKeys
      PROVE  /\ Refreshed(prev[k]) \in Observed \cup {Unseen}
             /\ Older(prev[k]) \in Observed \cup {Unseen}
             /\ Refreshed(prev[k]) # Unseen =>
                  /\ prev[k] # Unseen /\ Refreshed(prev[k]).age = 0
                  /\ \A ev \in FeedEvent : SameObservation(prev[k], ev)
                       => SameObservation(Refreshed(prev[k]), ev)
             /\ Older(prev[k]) # Unseen =>
                  /\ prev[k] # Unseen
                  /\ \A ev \in FeedEvent : SameObservation(prev[k], ev)
                       => SameObservation(Older(prev[k]), ev)
  <2>1. CASE prev[k] = Unseen
    BY <2>1 DEF Refreshed, Older
  <2>2. CASE prev[k] # Unseen
    <3>1. prev[k].age \in 0..(Staleness + 1) /\ prev[k] \in Observed
      BY <1>2, <2>2
    <3>2. 0 \in 0..(Staleness + 1)
      BY IngestAssumption
    <3>3. Refreshed(prev[k]) = [prev[k] EXCEPT !.age = 0]
      BY <2>2 DEF Refreshed
    <3>4. \/ Older(prev[k]) = prev[k]
          \/ /\ prev[k].age + 1 \in 0..(Staleness + 1)
             /\ Older(prev[k]) = [prev[k] EXCEPT !.age = prev[k].age + 1]
      BY <3>1, IngestAssumption DEF Older
    <3>5. /\ Refreshed(prev[k]) \in Observed /\ Refreshed(prev[k]).age = 0
          /\ \A ev \in FeedEvent : SameObservation(prev[k], ev)
               => SameObservation(Refreshed(prev[k]), ev)
      <4>1. /\ Refreshed(prev[k]) \in Observed /\ Refreshed(prev[k]).age = 0
            /\ Refreshed(prev[k]).kind = prev[k].kind
            /\ Refreshed(prev[k]).delay = prev[k].delay
            /\ Refreshed(prev[k]).predicted = prev[k].predicted
        BY <1>1, <2>2, <3>2, <3>3
      <4> QED BY <4>1 DEF SameObservation
    <3>6. /\ Older(prev[k]) \in Observed
          /\ \A ev \in FeedEvent : SameObservation(prev[k], ev)
               => SameObservation(Older(prev[k]), ev)
      <4>1. CASE Older(prev[k]) = prev[k]
        BY <3>1, <4>1
      <4>2. CASE /\ prev[k].age + 1 \in 0..(Staleness + 1)
                 /\ Older(prev[k]) = [prev[k] EXCEPT !.age = prev[k].age + 1]
        BY <1>1, <2>2, <4>2 DEF SameObservation
      <4> QED BY <3>4, <4>1, <4>2
    <3> QED BY <2>2, <3>5, <3>6
  <2> QED BY <2>1, <2>2
<1> QED BY <1>3 DEF SeenAgain

-----------------------------------------------------------------------------
(* Types, and keys just seen.                                              *)

\* The poller starts with an empty Differ and an empty topic.
LEMMA InitInv == IngestInit => IngestInv
<1> SUFFICES ASSUME IngestInit PROVE IngestInv
  OBVIOUS
<1>1. feed \in Snapshots
  BY IngestAssumption DEF IngestInit, Snapshots
<1>2. prev \in [DiffKeys -> Observed \cup {Unseen}] /\ topic \in Seq(FeedEvent)
  BY DEF IngestInit
<1>3. feedLeft \in [FeedBudgetKinds -> Nat]
  BY IngestAssumption DEF IngestInit
<1> QED BY <1>1, <1>2, <1>3 DEF IngestInit, IngestInv, IngestTypeOK, PollOK

\* Committing a published event keeps the types and the freshness.
LEMMA CommitType ==
  ASSUME IngestInv, NEW ev \in outbox, prev' = Committed(ev), outbox' = outbox \ {ev},
         UNCHANGED <<polled, polling>>
  PROVE  prev' \in [DiffKeys -> Observed \cup {Unseen}] /\ PollOK'
<1>1. ev \in FeedEvent
  BY DEF IngestInv, IngestTypeOK
<1> QED BY <1>1, EventType DEF IngestInv, IngestTypeOK, PollOK, Committed

\* Every step keeps the types and the freshness of the keys being processed.
LEMMA InvStep ==
  ASSUME IngestInv, [IngestNext]_ingestVars
  PROVE  IngestInv'
<1> USE DEF IngestInv
<1>1. ASSUME NEW snapshot \in Snapshots, PollSnapshot(snapshot),
             feedLeft' \in [FeedBudgetKinds -> Nat]
      PROVE  IngestInv'
  <2> DEFINE keys == {DiffKey(ev) : ev \in RawEvents(snapshot)}
  <2>1. RawEvents(snapshot) \subseteq FeedEvent
    BY RawType
  <2>2. keys \in SUBSET DiffKeys
    BY <2>1, EventType
  <2>3. Diff(RawEvents(snapshot)) \in SUBSET FeedEvent
    BY <2>1 DEF Diff
  <2>4. /\ prev' = SeenAgain(keys) /\ polled' = keys /\ polling' = TRUE
        /\ outbox' = Diff(RawEvents(snapshot)) /\ UNCHANGED <<feed, older, topic>>
    BY <1>1 DEF PollSnapshot
  <2>5. prev' \in [DiffKeys -> Observed \cup {Unseen}]
    BY <2>2, <2>4, SeenType DEF IngestTypeOK
  <2>6. \A k \in polled' : prev'[k] # Unseen => prev'[k].age = 0
    BY <2>2, <2>4, SeenType DEF IngestTypeOK
  <2> QED BY <1>1, <2>2, <2>3, <2>4, <2>5, <2>6 DEF IngestTypeOK, PollOK
<1>2. CASE Poll
  BY <1>1, <1>2 DEF Poll, IngestTypeOK
<1>3. CASE PollStale
  BY <1>1, <1>3, SpendType DEF PollStale, IngestTypeOK
<1>4. CASE FetchFails
  <2>1. prev' \in [DiffKeys -> Observed \cup {Unseen}]
    BY <1>4, SeenType DEF FetchFails, IngestTypeOK
  <2> QED BY <1>4, <2>1, SpendType DEF FetchFails, IngestTypeOK, PollOK
<1>5. ASSUME NEW ev \in outbox, topic' \in Seq(FeedEvent),
             prev' = Committed(ev), outbox' = outbox \ {ev},
             UNCHANGED <<feed, older, polled, polling>>,
             feedLeft' \in [FeedBudgetKinds -> Nat]
      PROVE  IngestInv'
  BY <1>5, CommitType DEF IngestTypeOK
<1>6. CASE Publish
  <2>1. PICK ev \in outbox : /\ topic' = Append(topic, ev) /\ prev' = Committed(ev)
                             /\ outbox' = outbox \ {ev}
    BY <1>6 DEF Publish
  <2>2. topic' \in Seq(FeedEvent)
    BY <2>1 DEF IngestTypeOK
  <2> QED BY <1>5, <1>6, <2>1, <2>2 DEF Publish, IngestTypeOK
<1>7. CASE PublishTwice
  <2>1. PICK ev \in outbox : /\ topic' = topic \o <<ev, ev>> /\ prev' = Committed(ev)
                             /\ outbox' = outbox \ {ev}
    BY <1>7 DEF PublishTwice
  <2>2. <<ev, ev>> \in Seq(FeedEvent)
    BY DEF IngestTypeOK
  <2>3. topic' \in Seq(FeedEvent)
    BY <2>1, <2>2 DEF IngestTypeOK
  <2> QED BY <1>5, <1>7, <2>1, <2>3, SpendType DEF PublishTwice, IngestTypeOK
<1>8. CASE PublishFails
  BY <1>8, SpendType DEF PublishFails, IngestTypeOK, PollOK
<1>9. CASE PublishUnacknowledged
  <2>1. PICK ev \in outbox : topic' = Append(topic, ev) /\ outbox' = outbox \ {ev}
    BY <1>9 DEF PublishUnacknowledged
  <2>2. topic' \in Seq(FeedEvent)
    BY <2>1 DEF IngestTypeOK
  <2> QED BY <1>9, <2>1, <2>2, SpendType DEF PublishUnacknowledged, IngestTypeOK, PollOK
<1>10. CASE Prune
  BY <1>10 DEF Prune, IngestTypeOK, PollOK
<1>11. CASE Restart
  BY <1>11, SpendType DEF Restart, IngestTypeOK, PollOK
<1>12. CASE FeedChanges
  <2>1. PICK t \in Trips, update \in Updates :
          feed' = [trips |-> [feed.trips EXCEPT ![t] = update], at |-> feed.at + 1]
    BY <1>12 DEF FeedChanges
  <2>2. feed' \in Snapshots
    <3>1. feed.trips \in [Trips -> TripUpdates] /\ feed.at \in Nat
      BY DEF IngestTypeOK, Snapshots
    <3>2. update \in TripUpdates
      BY IngestAssumption
    <3>3. [feed.trips EXCEPT ![t] = update] \in [Trips -> TripUpdates]
      BY <3>1, <3>2
    <3> QED BY <2>1, <3>1, <3>3 DEF Snapshots
  <2> QED BY <1>12, <2>2, SpendType DEF FeedChanges, IngestTypeOK, PollOK, pollVars
<1>13. CASE UNCHANGED ingestVars
  BY <1>13 DEF ingestVars, pollVars, IngestTypeOK, PollOK
<1>14. feed \in Snapshots /\ older \in Snapshots
  BY DEF IngestTypeOK
<1> QED
  BY <1>2, <1>3, <1>4, <1>6, <1>7, <1>8, <1>9, <1>10, <1>11, <1>12, <1>13, <1>14
  DEF IngestNext, PollerStep, IngestFaults

\* The inductive invariant holds of every behaviour.
THEOREM IngestInvariant == IngestSpec => []IngestInv
<1>1. IngestInv /\ [IngestNext]_ingestVars => IngestInv'
  BY InvStep
<1> QED BY InitInv, <1>1, PTL DEF IngestSpec

\* Type correctness of the poller, the Differ and the topic.
THEOREM TypeCorrect == IngestSpec => []IngestTypeOK
BY IngestInvariant, PTL DEF IngestInv

\* Pruning never forgets a key of the snapshot that was just diffed
\* (differ.go:70-71, 117-128), however many polls failed before it.
THEOREM LiveKeysKept == IngestSpec => LiveKeysSurvive
<1> DEFINE Kept == Prune => \A k \in polled : prev[k] # Unseen => prev'[k] # Unseen
<1>1. ASSUME IngestInv PROVE Kept
  BY <1>1, IngestAssumption
  DEF IngestInv, IngestTypeOK, PollOK, Prune, Stale
<1>2. IngestInv /\ [IngestNext]_ingestVars => [Kept]_ingestVars
  BY <1>1
<1> QED BY <1>2, IngestInvariant, PTL DEF IngestSpec, LiveKeysSurvive

-----------------------------------------------------------------------------
(* The Differ compares with what was published last.                       *)

\* The budget of lost acknowledgements is only ever spent.
AckInv ==
  /\ feedLeft["unacknowledged"] <= FeedBudget["unacknowledged"]
  /\ PrevIsLastPublished

\* Appending copies of an event and committing it leaves every key compared with
\* its last publication.
LEMMA PublishKeepsLast ==
  ASSUME IngestInv, RemembersLast, NEW ev \in FeedEvent, prev' = Committed(ev),
         topic' \in Seq(FeedEvent), Len(topic') > Len(topic),
         \A i \in 1..Len(topic) : topic'[i] = topic[i],
         \A i \in (Len(topic) + 1)..Len(topic') : topic'[i] = ev
  PROVE  RemembersLast'
<1> USE DEF IngestInv, IngestTypeOK
<1> SUFFICES ASSUME NEW k \in DiffKeys, prev'[k] # Unseen
             PROVE  \E i \in 1..Len(topic') :
                      IsLast(k, i)' /\ SameObservation(prev'[k], topic'[i])
  BY DEF RemembersLast
<1>1. Len(topic) \in Nat /\ Len(topic') \in Nat
  OBVIOUS
<1>2. CASE k = DiffKey(ev)
  <2>1. prev'[k] = Observation(ev)
    BY <1>2, EventType DEF Committed
  <2>2. PICK n \in Nat : n = Len(topic')
    BY <1>1
  <2>3. topic'[n] = ev /\ n \in 1..Len(topic')
    BY <1>1, <2>2
  <2>4. IsLast(k, n)'
    BY <1>1, <1>2, <2>2, <2>3 DEF IsLast
  <2>5. SameObservation(prev'[k], topic'[n])
    BY <2>1, <2>3, EventType
  <2> QED BY <2>3, <2>4, <2>5
<1>3. CASE k # DiffKey(ev)
  <2>1. prev'[k] = prev[k]
    BY <1>3 DEF Committed
  <2>2. PICK i \in 1..Len(topic) : IsLast(k, i) /\ SameObservation(prev[k], topic[i])
    BY <2>1 DEF RemembersLast
  <2>3. i \in 1..Len(topic') /\ topic'[i] = topic[i]
    BY <1>1
  <2>4. ASSUME NEW j \in 1..Len(topic'), DiffKey(topic'[j]) = k PROVE j <= i
    <3>1. CASE j <= Len(topic)
      BY <1>1, <2>2, <2>4, <3>1 DEF IsLast
    <3>2. CASE j > Len(topic)
      <4>1. j \in (Len(topic) + 1)..Len(topic')
        BY <1>1, <2>4, <3>2
      <4>2. topic'[j] = ev
        BY <4>1
      <4> QED BY <1>3, <2>4, <4>2
    <3> QED BY <1>1, <3>1, <3>2
  <2> QED BY <2>1, <2>2, <2>3, <2>4 DEF IsLast
<1> QED BY <1>2, <1>3

\* Steps that publish nothing, and forget or age what they do not keep.
LEMMA KeptLast ==
  ASSUME IngestInv, RemembersLast, topic' = topic,
         \A k \in DiffKeys : prev'[k] # Unseen =>
           /\ prev[k] # Unseen
           /\ \A ev \in FeedEvent :
                SameObservation(prev[k], ev) => SameObservation(prev'[k], ev)
  PROVE  RemembersLast'
<1> SUFFICES ASSUME NEW k \in DiffKeys, prev'[k] # Unseen
             PROVE  \E i \in 1..Len(topic') :
                      IsLast(k, i)' /\ SameObservation(prev'[k], topic'[i])
  BY DEF RemembersLast
<1>1. PICK i \in 1..Len(topic) : IsLast(k, i) /\ SameObservation(prev[k], topic[i])
  BY DEF RemembersLast
<1>2. topic[i] \in FeedEvent
  BY DEF IngestInv, IngestTypeOK
<1> QED BY <1>1, <1>2 DEF IsLast

\* The budget of lost acknowledgements is only ever spent, by a lost one.
LEMMA AcknowledgementsSpent ==
  ASSUME IngestInv, [IngestNext]_ingestVars
  PROVE  /\ feedLeft["unacknowledged"] \in Nat /\ feedLeft'["unacknowledged"] \in Nat
         /\ feedLeft'["unacknowledged"] <= feedLeft["unacknowledged"]
         /\ PublishUnacknowledged =>
              feedLeft'["unacknowledged"] < feedLeft["unacknowledged"]
BY DEF IngestInv, IngestTypeOK, FeedBudgetKinds, IngestNext, PollerStep, IngestFaults,
       Poll, PollStale, PollSnapshot, FetchFails, Publish, PublishTwice, PublishFails,
       PublishUnacknowledged, Prune, Restart, FeedChanges, SpendFeed, SpendFault,
       ingestVars

\* Every step keeps the Differ on the last publication, unless an
\* acknowledgement is lost for good.
LEMMA RemembersStep ==
  ASSUME IngestInv, RemembersLast, [IngestNext]_ingestVars, ~PublishUnacknowledged
  PROVE  RemembersLast'
<1>1. /\ feed \in Snapshots /\ older \in Snapshots /\ outbox \subseteq FeedEvent
      /\ topic \in Seq(FeedEvent) /\ feedLeft \in [FeedBudgetKinds -> Nat]
      /\ prev \in [DiffKeys -> Observed \cup {Unseen}]
  BY DEF IngestInv, IngestTypeOK
<1>2. ASSUME NEW keys \in SUBSET DiffKeys, prev' = SeenAgain(keys), topic' = topic
      PROVE  RemembersLast'
  <2>1. \A k \in DiffKeys : prev'[k] # Unseen =>
          /\ prev[k] # Unseen
          /\ \A ev \in FeedEvent :
               SameObservation(prev[k], ev) => SameObservation(prev'[k], ev)
    BY <1>1, <1>2, SeenType
  <2> QED BY <1>2, <2>1, KeptLast
<1>3. ASSUME NEW snapshot \in Snapshots, PollSnapshot(snapshot)
      PROVE  RemembersLast'
  <2> DEFINE keys == {DiffKey(ev) : ev \in RawEvents(snapshot)}
  <2>1. keys \in SUBSET DiffKeys
    BY RawType, EventType
  <2>2. prev' = SeenAgain(keys) /\ topic' = topic
    BY <1>3 DEF PollSnapshot
  <2> QED BY <1>2, <2>1, <2>2
<1>4. CASE Poll \/ PollStale
  BY <1>1, <1>3, <1>4 DEF Poll, PollStale
<1>5. CASE FetchFails
  <2>1. prev' = SeenAgain({}) /\ topic' = topic
    BY <1>5 DEF FetchFails
  <2> QED BY <1>2, <2>1
<1>6. CASE Publish
  <2>1. PICK ev \in outbox : topic' = Append(topic, ev) /\ prev' = Committed(ev)
    BY <1>6 DEF Publish
  <2>2. /\ topic' \in Seq(FeedEvent) /\ Len(topic') = Len(topic) + 1
        /\ \A i \in 1..Len(topic) : topic'[i] = topic[i]
        /\ topic'[Len(topic) + 1] = ev
    BY <1>1, <2>1
  <2>3. \A i \in (Len(topic) + 1)..Len(topic') : topic'[i] = ev
    BY <1>1, <2>2
  <2>4. Len(topic') > Len(topic) /\ ev \in FeedEvent
    BY <1>1, <2>2
  <2> QED BY <2>1, <2>2, <2>3, <2>4, PublishKeepsLast
<1>7. CASE PublishTwice
  <2>1. PICK ev \in outbox : topic' = topic \o <<ev, ev>> /\ prev' = Committed(ev)
    BY <1>7 DEF PublishTwice
  <2>2. <<ev, ev>> \in Seq(FeedEvent) /\ Len(<<ev, ev>>) = 2
    BY <1>1
  <2>3. /\ topic' \in Seq(FeedEvent) /\ Len(topic') = Len(topic) + 2
        /\ \A i \in 1..Len(topic) : topic'[i] = topic[i]
        /\ \A i \in (Len(topic) + 1)..Len(topic') : topic'[i] = ev
    BY <1>1, <2>1, <2>2
  <2>4. Len(topic') > Len(topic) /\ ev \in FeedEvent
    BY <1>1, <2>3
  <2> QED BY <2>1, <2>3, <2>4, PublishKeepsLast
<1>8. CASE PublishFails \/ Prune \/ Restart \/ FeedChanges \/ UNCHANGED ingestVars
  <2>1. /\ topic' = topic
        /\ \A k \in DiffKeys : prev'[k] = Unseen \/ prev'[k] = prev[k]
    BY <1>1, <1>8 DEF PublishFails, Prune, Restart, FeedChanges, ingestVars, pollVars
  <2> QED BY <2>1, KeptLast
<1> QED BY <1>4, <1>5, <1>6, <1>7, <1>8
        DEF IngestNext, PollerStep, IngestFaults

\* Nothing is remembered, and no acknowledgement lost, at the start.
LEMMA AckStarts == IngestInit => AckInv
BY IngestAssumption DEF IngestInit, AckInv, PrevIsLastPublished, RemembersLast, FeedBudgetKinds

\* Every step keeps the Differ on the last publication until one is lost.
LEMMA AckStep ==
  ASSUME IngestInv, AckInv, [IngestNext]_ingestVars
  PROVE  AckInv'
<1>1. FeedBudget["unacknowledged"] \in Nat
  BY IngestAssumption DEF FeedBudgetKinds
<1>2. feedLeft'["unacknowledged"] <= FeedBudget["unacknowledged"]
  BY <1>1, AcknowledgementsSpent DEF AckInv
<1>3. ASSUME AllAcknowledged' PROVE RemembersLast'
  <2>1. AllAcknowledged /\ ~PublishUnacknowledged
    BY <1>1, <1>3, AcknowledgementsSpent DEF AckInv, AllAcknowledged
  <2> QED BY <2>1, RemembersStep DEF AckInv, PrevIsLastPublished
<1> QED BY <1>2, <1>3 DEF AckInv, PrevIsLastPublished

\* What the Differ compares a poll with is the last thing downstream heard of the
\* key (differ.go:36-40), through failed sends, duplicates, stale snapshots,
\* pruning and restarts, as long as the broker's acknowledgement of a written
\* event is not lost for good.
THEOREM DifferRemembersLast == IngestSpec => []PrevIsLastPublished
<1>1. IngestInv /\ AckInv /\ [IngestNext]_ingestVars => AckInv'
  BY AckStep
<1> QED BY AckStarts, <1>1, IngestInvariant, PTL DEF IngestSpec, AckInv
-----------------------------------------------------------------------------
(* The pipeline: what is proved of the poller and of the claim holds of    *)
(* the two joined by the topic, and more, end to end.                      *)

\* The claim fed by the poller: nothing else produces.
D == INSTANCE DelayConsumerProofs WITH Messages <- {}, StartCommitted <- TRUE

\* What the claim assumes of its constants.
LEMMA ConsumerAssumed == D!ConsumerAssumption /\ D!ReconcileAssumption /\ D!DayAssumption
BY PipelineAssumption, IngestAssumption
DEF D!ConsumerAssumption, D!ReconcileAssumption, D!DayAssumption, C!BudgetKinds, D!BudgetKinds,
    C!FaultKinds, D!FaultKinds, C!DelayState, D!DelayState, C!ConfidenceInit, D!ConfidenceInit, C!ConfidenceMax,
    D!ConfidenceMax, D!Keys, D!StopTimes, D!Event, D!WellFormed

\* Processing and enrichment are the same under either name.
LEMMA SameData ==
  /\ C!Keys = D!Keys /\ C!DelayKinds = D!DelayKinds /\ C!NoOffset = D!NoOffset
  /\ C!DelayState = D!DelayState
  /\ \A ev : C!KeyOf(ev) = D!KeyOf(ev) /\ C!Enriched(ev) = D!Enriched(ev)
  /\ \A ev : C!TripKeys(ev) = D!TripKeys(ev)
  /\ \A st, ev : /\ C!OutOfOrder(st, ev) = D!OutOfOrder(st, ev)
                 /\ C!Reconcile(st, ev) = D!Reconcile(st, ev)
  /\ C!InHand = D!InHand
  /\ \A ev : C!WriteOf(ev) = D!WriteOf(ev)
  /\ \A w : C!Executed(w) = D!Executed(w)
<1> USE DEF C!Keys, D!Keys, C!DelayKinds, D!DelayKinds, C!NoOffset, D!NoOffset, C!KeyOf, D!KeyOf,
            C!OutOfOrder, D!OutOfOrder
<1>1. C!DelayState = D!DelayState
  BY DEF C!DelayState, D!DelayState, C!ConfidenceInit, D!ConfidenceInit, C!ConfidenceMax,
         D!ConfidenceMax
<1>2. \A ev : C!Enriched(ev) = D!Enriched(ev)
  BY DEF C!Enriched, D!Enriched, C!TimeOnlyEvent, D!TimeOnlyEvent, C!Retimed, D!Retimed,
         C!ScheduledTime, D!ScheduledTime, C!EnrichedDelay, D!EnrichedDelay, C!Nearest, D!Nearest,
         C!SecsSinceMidnight, D!SecsSinceMidnight, C!AbsSecs, D!AbsSecs
<1>3. \A st, ev : C!Reconcile(st, ev) = D!Reconcile(st, ev)
  BY DEF C!Reconcile, D!Reconcile, C!FirstObservation, D!FirstObservation, C!SmoothedDelay,
         D!SmoothedDelay, C!NextConfidence, D!NextConfidence, C!AtMost, D!AtMost, C!AbsDiff,
         D!AbsDiff, C!Blend, D!Blend, C!RoundTenths, D!RoundTenths, C!ConfidenceInit,
         D!ConfidenceInit, C!ConfidenceMax, D!ConfidenceMax, C!ConfidenceStep, D!ConfidenceStep
<1>4. \A ev : C!TripKeys(ev) = D!TripKeys(ev)
  BY DEF C!TripKeys, D!TripKeys
<1>5. C!InHand = D!InHand
  BY <1>2 DEF C!InHand, D!InHand
<1>6. \A ev : C!WriteOf(ev) = D!WriteOf(ev)
  BY <1>3 DEF C!WriteOf, D!WriteOf
<1>7. \A w : C!Executed(w) = D!Executed(w)
  BY DEF C!Executed, D!Executed
<1> QED BY <1>1, <1>2, <1>3, <1>4, <1>5, <1>6, <1>7

\* So are the steps of a claim.
LEMMA SameSteps == ASSUME C!Consume PROVE D!Consume
<1> USE SameData DEF C!historyVars, D!historyVars, C!claimVars, D!claimVars
<1>1. C!StartClaim => D!StartClaim
  BY DEF C!StartClaim, D!StartClaim, C!StartPosition, D!StartPosition
<1>2. C!SkipCorrupt => D!SkipCorrupt
  BY DEF C!SkipCorrupt, D!SkipCorrupt
<1>3. C!Receive => D!Receive
  BY DEF C!Receive, D!Receive
<1>4. C!Read => D!Read
  BY DEF C!Read, D!Read, C!ReadDelay, D!ReadDelay, C!ReadSkip, D!ReadSkip, C!ScanTrip, D!ScanTrip
<1>5. C!Write => D!Write
  BY DEF C!Write, D!Write
<1>6. C!Mark => D!Mark
  BY DEF C!Mark, D!Mark
<1>7. C!EndClaim => D!EndClaim
  BY DEF C!EndClaim, D!EndClaim, C!FlushedOffset, D!FlushedOffset
<1>8. C!RetryOrGiveUp => D!RetryOrGiveUp
  BY <1>7 DEF C!RetryOrGiveUp, D!RetryOrGiveUp
<1>9. \A what : C!SpendFault(what) => D!SpendFault(what)
  BY DEF C!SpendFault, D!SpendFault
<1>10. C!CommandFails => D!CommandFails
  BY <1>8, <1>9 DEF C!CommandFails, D!CommandFails
<1>11. C!ReplyLost => D!ReplyLost
  BY <1>8, <1>9 DEF C!ReplyLost, D!ReplyLost
<1>12. C!WriteTimesOut => D!WriteTimesOut
  BY <1>8, <1>9 DEF C!WriteTimesOut, D!WriteTimesOut
<1>13. C!SessionEnds => D!SessionEnds
  BY <1>7, <1>9 DEF C!SessionEnds, D!SessionEnds
<1>14. C!Crash => D!Crash
  BY <1>9 DEF C!Crash, D!Crash
<1>15. C!AutoCommit => D!AutoCommit
  BY DEF C!AutoCommit, D!AutoCommit
<1>16. C!LateWrite => D!LateWrite
  BY DEF C!LateWrite, D!LateWrite
<1>17. C!Expire => D!Expire
  BY <1>9 DEF C!Expire, D!Expire
<1> QED
  BY <1>1, <1>2, <1>3, <1>4, <1>5, <1>6, <1>10, <1>11, <1>12, <1>13, <1>14, <1>15, <1>16,
     <1>17
  DEF C!Consume, D!Consume, C!Progress, D!Progress, C!Faults, D!Faults

\* A claim reads the topic only.
LEMMA ConsumeReads == ASSUME C!Consume PROVE topic' = topic
BY DEF C!Consume, C!Progress, C!Faults, C!StartClaim, C!SkipCorrupt, C!Receive, C!Read, C!Write,
       C!Mark, C!CommandFails, C!ReplyLost, C!WriteTimesOut, C!SessionEnds, C!Crash, C!AutoCommit,
       C!LateWrite, C!Expire

\* What the poller sends are messages the claim can take: a cancellation names no
\* stop, and everything else does.
LEMMA RawIsMessage ==
  ASSUME NEW snapshot \in Snapshots
  PROVE  RawEvents(snapshot) \subseteq D!Message
<1> SUFFICES ASSUME NEW ev \in RawEvents(snapshot) PROVE ev \in D!Message
  OBVIOUS
<1>1. ev \in FeedEvent
  BY RawType
<1>2. PICK t \in Trips : ev \in Normalized(t, snapshot.trips[t], snapshot.at)
  BY DEF RawEvents
<1>3. ev.kind = "cancel" <=> ev.stop = TripWide
  <2>1. CASE snapshot.trips[t] = Cancelled
    BY <1>2, <2>1 DEF Normalized, CancelEvent
  <2>2. CASE snapshot.trips[t] # Cancelled
    <3>1. PICK s \in Stops : ev = StopEvent(t, s, snapshot.trips[t][s], snapshot.at)
      BY <1>2, <2>2 DEF Normalized
    <3>2. ev.stop = s /\ ev.kind # "cancel"
      BY <3>1 DEF StopEvent
    <3> QED BY <3>2, IngestAssumption
  <2> QED BY <2>1, <2>2
<1> QED BY <1>1, <1>3
        DEF D!Message, D!WellFormed, D!Event, D!Kinds, D!DelayKinds, FeedEvent, FeedKinds

\* What is selected to be sent is a message.
OutboxOK == outbox \subseteq D!Message

\* Every step of the poller keeps that.
LEMMA OutboxStep ==
  ASSUME IngestInv, OutboxOK, [IngestNext]_ingestVars
  PROVE  OutboxOK'
<1>1. feed \in Snapshots /\ older \in Snapshots
  BY DEF IngestInv, IngestTypeOK
<1>2. ASSUME NEW snapshot \in Snapshots, PollSnapshot(snapshot) PROVE OutboxOK'
  BY <1>2, RawIsMessage DEF PollSnapshot, Diff, OutboxOK
<1>3. CASE Poll \/ PollStale
  BY <1>1, <1>2, <1>3 DEF Poll, PollStale
<1> QED
  BY <1>3 DEF OutboxOK, IngestNext, PollerStep, IngestFaults, FetchFails, Publish, PublishTwice,
       PublishFails, PublishUnacknowledged, Prune, Restart, FeedChanges, ingestVars, pollVars

\* The poller appends messages to the topic, and changes nothing of the claim's.
LEMMA IngestGrows ==
  ASSUME OutboxOK, D!TypeOK, [IngestNext]_ingestVars, UNCHANGED consumerVars
  PROVE  D!Grown
<1> DEFINE M == D!Message
<1>1. topic \in Seq(M) /\ left \in [D!BudgetKinds -> Nat]
  BY DEF D!TypeOK, D!Message
<1>2. D!Extended
  <2>1. CASE topic' = topic
    BY <1>1, <2>1 DEF D!Extended
  <2>2. ASSUME NEW ev \in M, topic' = Append(topic, ev) PROVE D!Extended
    BY <1>1, <2>2 DEF D!Extended
  <2>3. ASSUME NEW ev \in M, topic' = topic \o <<ev, ev>> PROVE D!Extended
    <3>1. <<ev, ev>> \in Seq(M) /\ Len(<<ev, ev>>) = 2
      OBVIOUS
    <3>2. /\ topic' \in Seq(M) /\ Len(topic') = Len(topic) + 2
          /\ \A i \in 1..Len(topic) : topic'[i] = topic[i]
      BY <1>1, <2>3, <3>1
    <3> QED BY <1>1, <3>2 DEF D!Extended
  <2>4. \/ topic' = topic
        \/ \E ev \in M : topic' = Append(topic, ev) \/ topic' = topic \o <<ev, ev>>
    BY DEF OutboxOK, IngestNext, PollerStep, IngestFaults, Poll, PollStale, PollSnapshot,
           FetchFails, Publish, PublishTwice, PublishFails, PublishUnacknowledged, Prune, Restart,
           FeedChanges,
           ingestVars
  <2> QED BY <2>1, <2>2, <2>3, <2>4
<1> QED
  BY <1>1, <1>2 DEF D!Grown, consumerVars, D!claimVars, D!historyVars

\* The inductive invariant: that of the poller, that of the claim, and between them
\* that the one sends what the other can take.
PipelineInv ==
  /\ IngestInv /\ AckInv /\ OutboxOK
  /\ D!ConsumerInv /\ D!CommitInv /\ D!HeldInv /\ D!ReplayInv

\* Nothing is sent or claimed at the start.
LEMMA PipelineStarts == PipelineInit => PipelineInv
<1> SUFFICES ASSUME PipelineInit PROVE PipelineInv
  OBVIOUS
<1>1. IngestInit /\ D!Init
  BY SameData DEF PipelineInit, C!Init, D!Init
<1>2. IngestInv /\ AckInv /\ OutboxOK
  BY <1>1, InitInv, AckStarts DEF OutboxOK, IngestInit
<1>3. D!ConsumerInv /\ D!ReplayInv
  BY <1>1, ConsumerAssumed, D!InitType, D!ReplayStarts
<1>4. D!CommitInv
  BY <1>1 DEF D!Init, D!CommitInv, D!Settled, D!NoOffset
<1>5. D!HeldInv
  BY <1>1, ConsumerAssumed DEF D!Init, D!HeldInv, D!HeldCurrent, D!BudgetKinds,
                                 D!FaultKinds, D!ConsumerAssumption
<1> QED BY <1>2, <1>3, <1>4, <1>5 DEF PipelineInv

\* A step of the pipeline is one of the poller beside a growing log, or one of the
\* claim beside a poller that stands still.
LEMMA PipelineSteps ==
  ASSUME OutboxOK, D!TypeOK, [PipelineNext]_pipelineVars
  PROVE  [IngestNext]_ingestVars /\ (D!Consume \/ D!Grown)
<1>1. CASE Ingesting \/ UNCHANGED pipelineVars
  BY <1>1, IngestGrows DEF Ingesting, pipelineVars
<1>2. CASE Consuming
  BY <1>2, SameSteps, ConsumeReads DEF Consuming, ingestVars
<1> QED BY <1>1, <1>2 DEF PipelineNext

\* Every step keeps the invariant.
LEMMA PipelineStep == PipelineInv /\ [PipelineNext]_pipelineVars => PipelineInv'
<1> SUFFICES ASSUME PipelineInv, [PipelineNext]_pipelineVars PROVE PipelineInv'
  OBVIOUS
<1>1. [IngestNext]_ingestVars /\ (D!Consume \/ D!Grown)
  BY PipelineSteps DEF PipelineInv, D!ConsumerInv
<1>2. IngestInv' /\ AckInv' /\ OutboxOK'
  BY <1>1, InvStep, AckStep, OutboxStep DEF PipelineInv
<1>3. D!ConsumerInv' /\ D!CommitInv'
  BY <1>1, ConsumerAssumed, D!TypeStep, D!CommitStep DEF PipelineInv
<1>4. D!HeldInv' /\ D!ReplayInv'
  BY <1>1, ConsumerAssumed, D!HeldInvStep, D!ReplayStep DEF PipelineInv
<1> QED BY <1>2, <1>3, <1>4 DEF PipelineInv

\* The inductive invariant holds of every behaviour of the pipeline.
THEOREM PipelineInvariant == PipelineSpec => []PipelineInv
BY PipelineStarts, PipelineStep, PTL DEF PipelineSpec

\* Whatever the processor does, the ingestor of the pipeline is the one of Ingest
\* (poller.go, kafka.go): what is proved of that holds here.
THEOREM PipelineImplementsIngest == PipelineSpec => IngestSpec
<1>1. PipelineInit => IngestInit
  BY DEF PipelineInit
<1>2. PipelineInv /\ [PipelineNext]_pipelineVars => [IngestNext]_ingestVars
  BY PipelineSteps DEF PipelineInv, D!ConsumerInv
<1> QED BY <1>1, <1>2, PipelineInvariant, PTL DEF PipelineSpec, IngestSpec

\* The consumer's promises, said of the pipeline's own names.
LEMMA SamePromises ==
  /\ C!Drained <=> D!Drained
  /\ C!NoLateCommand <=> D!NoLateCommand
  /\ \A k : C!Undampened(k) <=> D!Undampened(k)
  /\ D!CommittedApplied => C!CommittedApplied
  /\ D!ReplayedAsOnce => C!ReplayedAsOnce
  /\ D!StoredWithinPublished => C!StoredWithinPublished
<1> USE SameData
<1>1. (C!Drained <=> D!Drained) /\ (C!NoLateCommand <=> D!NoLateCommand)
  BY DEF C!Drained, D!Drained, C!NoLateCommand, D!NoLateCommand
<1>2. \A k : C!Undampened(k) <=> D!Undampened(k)
  BY DEF C!Undampened, D!Undampened, C!AbsDiff, D!AbsDiff
<1>3. D!CommittedApplied => C!CommittedApplied
  BY DEF C!CommittedApplied, D!CommittedApplied, C!IsCorrupt, D!IsCorrupt
<1>4. C!ProcessedOnce = D!ProcessedOnce
  <2>1. \A st, ev : C!Applied(st, ev) = D!Applied(st, ev)
    BY DEF C!Applied, D!Applied
  <2> QED BY <2>1 DEF C!ProcessedOnce, D!ProcessedOnce
<1>5. \A a, b : C!SameDelay(a, b) <=> D!SameDelay(a, b)
  BY DEF C!SameDelay, D!SameDelay
<1>6. D!ReplayedAsOnce => C!ReplayedAsOnce
  BY <1>1, <1>2, <1>4, <1>5 DEF C!ReplayedAsOnce, D!ReplayedAsOnce
<1>7. \A ev : C!Latenesses(ev) = D!Latenesses(ev)
  BY DEF C!Latenesses, D!Latenesses, C!TimeOnlyEvent, D!TimeOnlyEvent, C!ScheduledTime,
         D!ScheduledTime, C!AbsSecs, D!AbsSecs
<1>8. \A k : C!Published(k) = D!Published(k)
  BY <1>7 DEF C!Published, D!Published
<1>9. D!StoredWithinPublished => C!StoredWithinPublished
  BY <1>8 DEF C!StoredWithinPublished, D!StoredWithinPublished
<1> QED BY <1>1, <1>2, <1>3, <1>6, <1>9

\* Whatever the feed does, no committed offset covers an event that was not
\* processed, and the drained topic leaves in Redis, of what has not expired, what
\* processing each event once would leave (cmd/processor/main.go:243-253).
THEOREM NothingLostInPipeline == PipelineSpec => [](C!CommittedApplied /\ C!ReplayedAsOnce)
<1>1. PipelineInv => C!CommittedApplied /\ C!ReplayedAsOnce
  <2> SUFFICES ASSUME PipelineInv PROVE C!CommittedApplied /\ C!ReplayedAsOnce
    OBVIOUS
  <2>1. D!CommittedApplied
    BY DEF PipelineInv, D!CommitInv, D!CommittedApplied, D!Settled
  <2>2. D!ReplayedAsOnce
    BY ConsumerAssumed, D!ReplaysAgree DEF PipelineInv
  <2> QED BY <2>1, <2>2, SamePromises
<1> QED BY <1>1, PipelineInvariant, PTL

\* Redis holds what the last message of a key says, unless that is withdrawn, expired
\* or outdated.
LEMMA LastIsHeld ==
  ASSUME topic \in Seq(FeedEvent), D!TypeOK, D!ReplayInv, D!Drained, D!NoLateCommand,
         NEW k \in D!Keys, D!Undampened(k), NEW i \in 1..Len(topic), IsLast(k, i)
  PROVE  /\ WithdrawnBy(k, i) => redis[k] = NoState
         /\ redis[k] = NoState => WithdrawnBy(k, i) \/ k \in expired
         /\ redis[k] = NoState \/ Outdated(k, i) \/ redis[k].delay = C!Enriched(topic[i]).delay
<1> DEFINE n == Len(topic)
           e == D!Heard(topic)
<1>1. /\ topic \in Seq(D!Message) /\ n \in Nat
      /\ \A j \in 1..n : /\ e[j] = D!Enriched(topic[j]) /\ topic[j].kind = e[j].kind
                         /\ e[j].at = topic[j].at /\ topic[j].at \in Nat
                         /\ e[j].trip = topic[j].trip
                         /\ D!KeyOf(e[j]) = D!KeyOf(topic[j])
                         /\ topic[j] \in D!Message
  <2>1. topic \in Seq(D!Message) /\ n \in Nat
    BY DEF D!TypeOK, D!Message
  <2>2. ASSUME NEW j \in 1..n
        PROVE  /\ e[j] = D!Enriched(topic[j]) /\ topic[j].kind = e[j].kind
               /\ D!KeyOf(e[j]) = D!KeyOf(topic[j]) /\ topic[j] \in D!Message
    BY <2>1, ConsumerAssumed, D!HeardType
  <2>3. ASSUME NEW j \in 1..n
        PROVE  e[j].at = topic[j].at /\ topic[j].at \in Nat /\ e[j].trip = topic[j].trip
    <3>1. e[j] = D!Enriched(topic[j]) /\ topic[j] \in D!Message
      BY <2>2
    <3> QED BY <3>1 DEF D!Enriched, D!Retimed, D!Message, D!Event
  <2> QED BY <2>1, <2>2, <2>3
<1>2. \A j \in 1..n : D!KeyOf(topic[j]) = k <=> DiffKey(topic[j]) = k
  BY DEF D!KeyOf, DiffKey
<1>3. D!Gentle(e, n, k)
  BY <1>1 DEF D!Gentle, D!Undampened, D!Tells
<1>4. D!Latest(redis[k], e, n, k, n, expired)
  <2>1. D!Reached = n
    BY DEF D!Drained, D!Reached
  <2>2. D!UpTo(redis[k], e, n, k, n, expired)
    BY <1>3, <2>1 DEF D!ReplayInv, D!LatestStored
  <2>3. (n + 1)..n = {}
    BY <1>1
  <2> QED BY <2>2, <2>3 DEF D!UpTo
<1>5. D!KeyOf(topic[i]) = k /\ topic[i].kind \in {"arrival", "departure", "skip"}
  <2>1. topic[i] \in FeedEvent /\ topic[i] \in D!Message
    BY <1>1
  <2>2. D!KeyOf(topic[i]) = k
    BY <1>2 DEF IsLast
  <2>3. topic[i].stop # TripWide
    BY <2>2, IngestAssumption DEF D!KeyOf, D!Keys
  <2> QED BY <2>1, <2>2, <2>3 DEF FeedEvent, FeedKinds, D!Message, D!WellFormed
<1>6. \A j \in 1..n : D!Clears(e[j], k) <=> Withdraws(topic[j], k)
  BY <1>1, <1>2 DEF D!Clears, Withdraws, CancelsTrip
<1>7. ASSUME NEW j \in (i + 1)..n PROVE ~D!Tells(e[j], k)
  <2>1. j \in 1..n /\ D!KeyOf(topic[j]) # k
    BY <1>1, <1>2, <1>7 DEF IsLast
  <2> QED BY <1>1, <2>1 DEF D!Tells
<1>8. CASE WithdrawnBy(k, i)
  <2>1. PICK c \in i..n : Withdraws(topic[c], k)
    BY <1>8 DEF WithdrawnBy
  <2>2. c \in 1..n /\ D!Clears(e[c], k) /\ ~D!Tells(e[c], k)
    BY <1>1, <1>6, <2>1 DEF D!Clears, D!Tells, D!DelayKinds
  <2>3. ASSUME NEW j \in 1..n PROVE ~D!Stands(e, n, k, j)
    <3>1. CASE j < c
      <4>1. c \in (j + 1)..n
        BY <1>1, <2>2, <3>1
      <4> QED BY <2>2, <4>1 DEF D!Stands
    <3>2. CASE j = c
      BY <2>2, <3>2 DEF D!Stands
    <3>3. CASE j > c
      <4>1. j \in (i + 1)..n
        BY <1>1, <3>3
      <4> QED BY <1>7, <4>1 DEF D!Stands
    <3> QED BY <1>1, <3>1, <3>2, <3>3
  <2>4. redis[k] = NoState
    BY <1>4, <2>3 DEF D!Latest
  <2> QED BY <1>8, <2>4
<1>9. CASE ~WithdrawnBy(k, i) /\ redis[k] = NoState /\ k \in expired
  BY <1>9
<1>10. CASE ~WithdrawnBy(k, i) /\ ~(redis[k] = NoState /\ k \in expired)
  <2>1. \A j \in i..n : ~D!Clears(e[j], k)
    BY <1>1, <1>6, <1>10 DEF WithdrawnBy
  <2>2. D!Tells(e[i], k)
    <3>1. topic[i].kind # "skip"
      BY <1>1, <1>2, <1>5, <1>10 DEF WithdrawnBy, Withdraws
    <3> QED BY <1>1, <1>5, <3>1 DEF D!Tells, D!DelayKinds
  <2>3. D!Stands(e, n, k, i)
    BY <1>1, <2>1, <2>2 DEF D!Stands
  <2>4. PICK m \in 1..n : /\ D!Stands(e, n, k, m) /\ D!Holding(redis[k], e[m])
                          /\ \A j \in 1..n : D!Stands(e, n, k, j) /\ m <= j => D!Prevails(e, m, j)
    BY <1>4, <1>10, <2>3 DEF D!Latest
  <2>5. redis[k] # NoState /\ redis[k].delay = D!Enriched(topic[m]).delay
    BY <1>1, <2>4 DEF D!Holding
  <2>6. m <= i /\ DiffKey(topic[m]) = k
    BY <1>1, <1>2, <2>4 DEF D!Stands, D!Tells, IsLast
  <2>7. ASSUME m # i PROVE Outdated(k, i)
    <3>1. m \in 1..(i - 1)
      BY <1>1, <2>6, <2>7
    <3>2. topic[m].at > topic[i].at
      BY <1>1, <2>3, <2>4, <3>1 DEF D!Prevails
    <3>3. ASSUME NEW j \in m..i PROVE ~Withdraws(topic[j], k)
      <4>1. j \in 1..n /\ (j = m \/ j \in (m + 1)..n)
        BY <1>1, <2>6
      <4>2. D!Tells(e[m], k) => ~D!Clears(e[m], k)
        BY DEF D!Tells, D!Clears, D!DelayKinds
      <4>3. ~D!Clears(e[j], k)
        BY <2>4, <4>1, <4>2 DEF D!Stands
      <4> QED BY <1>6, <4>1, <4>3
    <3> QED BY <2>6, <3>1, <3>2, <3>3 DEF Outdated
  <2> QED BY <1>10, <2>5, <2>7, SameData
<1> QED BY <1>8, <1>9, <1>10

\* Once the log is drained Redis holds what the Differ compares with, so that what it
\* holds back (differ.go:36-40, poller.go:95-113) needs no telling until it expires
\* there: for any trips, stops and feeds, whatever fails, is served or delivered
\* again, or restarts (manager.go:84-164, cmd/processor/main.go:214-299).
THEOREM DifferAgreesWithRedis == PipelineSpec => []RedisHoldsLastSent
<1>1. PipelineInv => RedisHoldsLastSent
  <2> SUFFICES ASSUME PipelineInv, AllAcknowledged, C!Drained, C!NoLateCommand,
                      NEW k \in C!Keys, prev[k] # Unseen, C!Undampened(k)
               PROVE  \E i \in 1..Len(topic) :
                        /\ IsLast(k, i) /\ SameObservation(prev[k], topic[i])
                        /\ WithdrawnBy(k, i) => redis[k] = NoState
                        /\ redis[k] = NoState => WithdrawnBy(k, i) \/ k \in expired
                        /\ redis[k] = NoState \/ Outdated(k, i)
                             \/ redis[k].delay = C!Enriched(topic[i]).delay
    BY DEF RedisHoldsLastSent
  <2>1. k \in D!Keys /\ k \in DiffKeys
    BY SameData DEF D!Keys, DiffKeys
  <2>2. D!Drained /\ D!NoLateCommand /\ D!Undampened(k)
    BY SamePromises
  <2>3. topic \in Seq(FeedEvent) /\ D!TypeOK /\ D!ReplayInv
    BY DEF PipelineInv, IngestInv, IngestTypeOK, D!ConsumerInv
  <2>4. PICK i \in 1..Len(topic) : IsLast(k, i) /\ SameObservation(prev[k], topic[i])
    BY <2>1 DEF PipelineInv, AckInv, PrevIsLastPublished, RemembersLast
  <2> QED BY <2>1, <2>2, <2>3, <2>4, LastIsHeld
<1> QED BY <1>1, PipelineInvariant, PTL

\* However the poller fills the topic, a stored observation is not replaced by an
\* older one until a command outlives its client (manager.go:118-126).
THEOREM ForwardInPipeline == PipelineSpec => C!NeverRegresses
<1>1. ASSUME PipelineInv, [PipelineNext]_pipelineVars, C!NoLateCommand'
      PROVE  \A k \in C!Keys : redis[k] # NoState /\ redis'[k] # NoState
               => redis'[k].observedAt >= redis[k].observedAt
  <2>1. D!ConsumerInv /\ D!HeldInv /\ (D!Consume \/ D!Grown)
    BY <1>1, PipelineSteps DEF PipelineInv, D!ConsumerInv
  <2>2. D!NoLateCommand'
    BY <1>1 DEF C!NoLateCommand, D!NoLateCommand
  <2>3. D!HeldCurrent /\ ~D!WriteTimesOut
    BY <2>1, <2>2, ConsumerAssumed, D!StillInTime
  <2>4. \A k \in D!Keys : redis[k] # NoState /\ redis'[k] # NoState
          => redis'[k].observedAt >= redis[k].observedAt
    BY <2>1, <2>3, ConsumerAssumed, D!ForwardStep
  <2> QED BY <2>4, SameData
<1>2. PipelineInv /\ [PipelineNext]_pipelineVars =>
        [C!NoLateCommand' => \A k \in C!Keys : redis[k] # NoState /\ redis'[k] # NoState
                               => redis'[k].observedAt >= redis[k].observedAt]_C!vars
  BY <1>1
<1> QED BY <1>2, PipelineInvariant, PTL DEF PipelineSpec, C!NeverRegresses

\* For a timetable whose day ends by noon of the next, a stored delay lies between
\* two latenesses the poller published for its key (enrich.go:42-55).
THEOREM StoredInPipeline ==
  ASSUME D!EndsByNoon PROVE PipelineSpec => []C!StoredWithinPublished
<1>1. PipelineInit => D!FitInv
  BY SameData DEF PipelineInit, C!Init, D!FitInv, D!Fits
<1>2. PipelineInv /\ D!FitInv /\ [PipelineNext]_pipelineVars => D!FitInv'
  BY PipelineSteps, ConsumerAssumed, D!FitStep DEF PipelineInv, D!ConsumerInv
<1>3. D!FitInv => C!StoredWithinPublished
  <2>1. D!FitInv => D!StoredWithinPublished
    BY DEF D!FitInv, D!Fits, D!StoredWithinPublished
  <2> QED BY <2>1, SamePromises
<1> QED BY <1>1, <1>2, <1>3, PipelineInvariant, PTL DEF PipelineSpec
=============================================================================
