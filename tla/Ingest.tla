------------------------------- MODULE Ingest -------------------------------
(***************************************************************************)
(* One poller of the ingestor (internal/ingest): it fetches a GTFS-RT feed,*)
(* normalises it (normalizer.go), lets the Differ select what changed since*)
(* the last committed observation (differ.go), publishes the selected      *)
(* events to Kafka one by one and commits each to the Differ once it is    *)
(* published (poller.go, kafka.go).                                        *)
(*                                                                         *)
(* The feed is an environment: it changes at any time, may serve an earlier*)
(* snapshot again, and may fail.  A send may fail, may be written twice by *)
(* the producer's own retry, or may be written and reported as failed.     *)
(* Time is counted in polls: an observation's age is the number of polls   *)
(* since its key was last in a snapshot.                                   *)
(***************************************************************************)
EXTENDS Integers, Sequences

CONSTANTS
  Trips, Stops,
  TripWide,            \* the empty stop ID of a cancellation
  Updates,             \* the trip updates the feed may serve
  Cancelled,           \* a trip update with schedule relationship CANCELED
  Missing,             \* a stop the snapshot does not mention
  NoTimes,             \* a stop-time update without the arrival, or the departure
  NoDelay,             \* a stop-time event without a delay
  Unseen,              \* the Differ has no observation of the key
  DelayThreshold,      \* seconds; a smaller delay change is noise
  PredictedThreshold,  \* seconds; the same for the predicted time
  Staleness,           \* polls a key may go unseen before it is pruned
  FeedBudget           \* how often each environment event may happen

\* StopTimeEvent; time 0 is an absent time.
Times == [delay : Int \cup {NoDelay}, time : Nat]

\* StopTimeUpdate; a stop is skipped by its schedule relationship.
StopUpdate == [skipped : BOOLEAN, arrival : Times \cup {NoTimes}, departure : Times \cup {NoTimes}]

TripUpdates == {Cancelled} \cup [Stops -> StopUpdate \cup {Missing}]

FeedFaultKinds == {"staleFetches", "fetchFailures", "sendFailures", "duplicates",
                   "unacknowledged", "restarts"}
\* "faults" bounds the faults of all kinds together.
FeedBudgetKinds == FeedFaultKinds \cup {"changes", "faults"}

ASSUME IngestAssumption ==
  /\ TripWide \notin Stops
  /\ Updates \subseteq TripUpdates
  /\ DelayThreshold \in Nat /\ PredictedThreshold \in Nat /\ Staleness \in Nat
  /\ FeedBudget \in [FeedBudgetKinds -> Nat]

DiffKeys  == Trips \X (Stops \cup {TripWide})
Snapshots == [trips : [Trips -> TripUpdates], at : Nat]

FeedKinds == {"arrival", "departure", "skip", "cancel"}
FeedEvent == [kind : FeedKinds, trip : Trips, stop : Stops \cup {TripWide},
              delay : Int, predicted : Nat, scheduled : Int, at : Nat]

\* What the Differ keeps of an event.
Observed == [kind : FeedKinds, delay : Int, predicted : Nat, age : 0..(Staleness + 1)]

VARIABLES
  feed,    \* the snapshot the feed serves now
  older,   \* the snapshot it served before
  prev,    \* the Differ's last committed observation of each key
  polled,  \* keys of the snapshot being processed, or {} between polls
  outbox,  \* selected events of this poll that are still to be sent
  polling, \* a poll is in progress
  topic,   \* the partition of delay-events the trips' routes hash to
  feedLeft \* remaining budget

pollVars == <<prev, polled, outbox, polling>>
ingestVars == <<feed, older, pollVars, topic, feedLeft>>

SpendFeed(what) ==
  feedLeft[what] > 0 /\ feedLeft' = [feedLeft EXCEPT ![what] = @ - 1]

SpendFault(what) ==
  /\ feedLeft[what] > 0 /\ feedLeft["faults"] > 0
  /\ feedLeft' = [feedLeft EXCEPT ![what] = @ - 1, !["faults"] = @ - 1]

-----------------------------------------------------------------------------
(* Normalisation.                                                          *)

\* extractDelay: the arrival's times, the departure's when it has none to use.
Usable(times) == times # NoTimes /\ (times.delay # NoDelay \/ times.time # 0)

Told(u) == IF Usable(u.arrival) THEN u.arrival ELSE u.departure

\* A missing delay is carried as 0, and a schedule time is derived only from a
\* delay and a time together.
DelayOf(times)     == IF times.delay = NoDelay THEN 0 ELSE times.delay
ScheduledOf(times) ==
  IF times.delay # NoDelay /\ times.time > 0 THEN times.time - times.delay ELSE 0

\* Stops that yield an event.
IsSkipped(u)  == u # Missing /\ u.skipped
HasReading(u) == u # Missing /\ ~u.skipped /\ Usable(Told(u))

CancelEvent(t, at) ==
  [kind |-> "cancel", trip |-> t, stop |-> TripWide, delay |-> 0,
   predicted |-> 0, scheduled |-> 0, at |-> at]

StopEvent(t, s, u, at) ==
  LET usable == Usable(Told(u)) IN
  [kind      |-> CASE u.skipped -> "skip"
                   [] ~u.skipped /\ Usable(u.arrival) -> "arrival"
                   [] OTHER -> "departure",
   trip      |-> t,
   stop      |-> s,
   delay     |-> IF u.skipped \/ ~usable THEN 0 ELSE DelayOf(Told(u)),
   predicted |-> IF usable THEN Told(u).time ELSE 0,
   scheduled |-> IF usable THEN ScheduledOf(Told(u)) ELSE 0,
   at        |-> at]

Normalized(t, update, at) ==
  IF update = Cancelled
  THEN {CancelEvent(t, at)}
  ELSE {StopEvent(t, s, update[s], at) :
          s \in {x \in Stops : IsSkipped(update[x]) \/ HasReading(update[x])}}

RawEvents(snapshot) ==
  UNION {Normalized(t, snapshot.trips[t], snapshot.at) : t \in Trips}

-----------------------------------------------------------------------------
(* The Differ.                                                             *)

Distance(a, b) == IF a < b THEN b - a ELSE a - b
DiffKey(ev)    == <<ev.trip, ev.stop>>

\* Faulty variant: a change of the predicted time alone is not a change.
DiffersByDelay(last, ev) ==
  last = Unseen \/ ev.kind # last.kind
    \/ Distance(ev.delay, last.delay) > DelayThreshold

Differs(last, ev) ==
  \/ last = Unseen
  \/ ev.kind # last.kind
  \/ Distance(ev.delay, last.delay) > DelayThreshold
  \/ Distance(ev.predicted, last.predicted) > PredictedThreshold

Diff(events) == {ev \in events : Differs(prev[DiffKey(ev)], ev)}

Observation(ev) ==
  [kind |-> ev.kind, delay |-> ev.delay, predicted |-> ev.predicted, age |-> 0]

\* Faulty variant: nothing bounds the age of a key between prunings.
OlderForever(last) == IF last = Unseen THEN last ELSE [last EXCEPT !.age = @ + 1]

\* Another poll interval has passed; ages saturate where Prune evicts.
Older(last) ==
  IF last = Unseen \/ last.age > Staleness THEN last
  ELSE [last EXCEPT !.age = @ + 1]

\* Faulty variant: keys of the snapshot age like the others.
RefreshedNot(last) == Older(last)

\* Diff refreshes the last-seen time of every key the snapshot mentions.
Refreshed(last) == IF last = Unseen THEN last ELSE [last EXCEPT !.age = 0]

SeenAgain(keys) ==
  [k \in DiffKeys |-> IF k \in keys THEN Refreshed(prev[k]) ELSE Older(prev[k])]

Stale(last) == last # Unseen /\ last.age > Staleness

Committed(ev) == [prev EXCEPT ![DiffKey(ev)] = Observation(ev)]

-----------------------------------------------------------------------------
IngestTypeOK ==
  /\ feed \in Snapshots /\ older \in Snapshots
  /\ prev \in [DiffKeys -> Observed \cup {Unseen}]
  /\ polled \in SUBSET DiffKeys
  /\ outbox \in SUBSET FeedEvent
  /\ topic \in Seq(FeedEvent)
  /\ polling \in BOOLEAN
  /\ feedLeft \in [FeedBudgetKinds -> Nat]

IngestInit ==
  /\ \E updates \in [Trips -> Updates] : feed = [trips |-> updates, at |-> 0]
  /\ older = feed
  /\ prev = [k \in DiffKeys |-> Unseen]
  /\ polled = {} /\ outbox = {} /\ polling = FALSE
  /\ topic = <<>>
  /\ feedLeft = FeedBudget

\* The agency publishes a new snapshot: one trip's update changed.
FeedChanges ==
  /\ SpendFeed("changes")
  /\ \E t \in Trips, update \in Updates :
       /\ update # feed.trips[t]
       /\ feed' = [trips |-> [feed.trips EXCEPT ![t] = update],
                   at |-> feed.at + 1]
  /\ older' = feed
  /\ UNCHANGED <<pollVars, topic>>

\* Faulty variant: a reading that is held back is remembered like one that is sent.
PollSnapshotFollows(snapshot) ==
  LET raw == RawEvents(snapshot) IN
  /\ ~polling
  /\ polling' = TRUE
  /\ polled' = {DiffKey(ev) : ev \in raw}
  /\ outbox' = Diff(raw)
  /\ prev' = [k \in DiffKeys |->
       IF \E ev \in raw \ Diff(raw) : DiffKey(ev) = k
       THEN Observation(CHOOSE ev \in raw \ Diff(raw) : DiffKey(ev) = k)
       ELSE SeenAgain({DiffKey(ev) : ev \in raw})[k]]
  /\ UNCHANGED <<feed, older, topic>>

\* pollOnce up to the publishing loop.
PollSnapshot(snapshot) ==
  LET raw == RawEvents(snapshot) IN
  /\ ~polling
  /\ polling' = TRUE
  /\ polled' = {DiffKey(ev) : ev \in raw}
  /\ outbox' = Diff(raw)
  /\ prev' = SeenAgain({DiffKey(ev) : ev \in raw})
  /\ UNCHANGED <<feed, older, topic>>

Poll == PollSnapshot(feed) /\ UNCHANGED feedLeft

\* A lagging edge server answers with the snapshot before.
PollStale == older # feed /\ SpendFault("staleFetches") /\ PollSnapshot(older)

\* A failed fetch changes nothing, but the interval has passed.
FetchFails ==
  /\ ~polling
  /\ SpendFault("fetchFailures")
  /\ prev' = SeenAgain({})
  /\ UNCHANGED <<feed, older, polled, outbox, polling, topic>>

Publish ==
  /\ \E ev \in outbox :
       /\ topic' = Append(topic, ev)
       /\ prev' = Committed(ev)
       /\ outbox' = outbox \ {ev}
  /\ UNCHANGED <<feed, older, polled, polling, feedLeft>>

\* The producer resends after a lost broker reply: written twice, reported once.
PublishTwice ==
  /\ SpendFault("duplicates")
  /\ \E ev \in outbox :
       /\ topic' = topic \o <<ev, ev>>
       /\ prev' = Committed(ev)
       /\ outbox' = outbox \ {ev}
  /\ UNCHANGED <<feed, older, polled, polling>>

\* Faulty variant: the observation is committed although the send failed.
PublishFailsCommitted ==
  /\ SpendFault("sendFailures")
  /\ \E ev \in outbox : outbox' = outbox \ {ev} /\ prev' = Committed(ev)
  /\ UNCHANGED <<feed, older, polled, polling, topic>>

\* Not committed: the event stays a candidate of the next poll.
PublishFails ==
  /\ SpendFault("sendFailures")
  /\ \E ev \in outbox : outbox' = outbox \ {ev}
  /\ UNCHANGED <<feed, older, prev, polled, polling, topic>>

\* Written by the broker, but the last retry's reply is lost as well.
PublishUnacknowledged ==
  /\ SpendFault("unacknowledged")
  /\ \E ev \in outbox : topic' = Append(topic, ev) /\ outbox' = outbox \ {ev}
  /\ UNCHANGED <<feed, older, prev, polled, polling>>

Prune ==
  /\ polling /\ outbox = {}
  /\ prev' = [k \in DiffKeys |-> IF Stale(prev[k]) THEN Unseen ELSE prev[k]]
  /\ polling' = FALSE /\ polled' = {}
  /\ UNCHANGED <<feed, older, outbox, topic, feedLeft>>

\* The ingestor restarts with an empty Differ.
Restart ==
  /\ SpendFault("restarts")
  /\ prev' = [k \in DiffKeys |-> Unseen]
  /\ polled' = {} /\ outbox' = {} /\ polling' = FALSE
  /\ UNCHANGED <<feed, older, topic>>

PollerStep   == Poll \/ Publish \/ Prune
IngestFaults == PollStale \/ FetchFails \/ PublishTwice \/ PublishFails
                  \/ PublishUnacknowledged \/ Restart
IngestNext   == PollerStep \/ IngestFaults \/ FeedChanges

IngestSpec     == IngestInit /\ [][IngestNext]_ingestVars
\* The ticker keeps firing and a send returns; at most one of the poller's own
\* steps is ever enabled.
IngestFairSpec == IngestSpec /\ WF_ingestVars(PollerStep)
-----------------------------------------------------------------------------
(* What the poller promises.                                               *)

\* topic[i] is the last event published for k.
IsLast(k, i) ==
  /\ DiffKey(topic[i]) = k
  /\ \A j \in 1..Len(topic) : DiffKey(topic[j]) = k => j <= i

SameObservation(last, ev) ==
  last.kind = ev.kind /\ last.delay = ev.delay /\ last.predicted = ev.predicted

\* No event was written by the broker and reported as failed so far.
AllAcknowledged ==
  feedLeft["unacknowledged"] = FeedBudget["unacknowledged"]

RemembersLast ==
  \A k \in DiffKeys : prev[k] # Unseen =>
    \E i \in 1..Len(topic) : IsLast(k, i) /\ SameObservation(prev[k], topic[i])

\* "Differ keeps the most recently published observation for each (trip_id,
\* stop_id) pair" (differ.go:36-37): what later polls are compared with is the
\* last thing downstream heard of the key, until an acknowledgement is lost for
\* good.
PrevIsLastPublished == AllAcknowledged => RemembersLast

\* "Present keys have their last-seen time refreshed so unchanged-but-live keys
\* survive pruning" (differ.go:70-71), also after a row of failed fetches
\* longer than the staleness window.
LiveKeysSurvive ==
  [][Prune => \A k \in polled : prev[k] # Unseen => prev'[k] # Unseen]_ingestVars

Heard(k, ev) ==
  \E i \in 1..Len(topic) : IsLast(k, i) /\ ~Differs(Observation(topic[i]), ev)

\* Once the feed and the faults settle, the last event published for every key
\* of the feed says what the feed says, up to the noise thresholds: a failed
\* send, a stale snapshot or a restart loses no change.  A written event whose
\* acknowledgement was lost may hide a return to the value before it.
FeedReachesTopic ==
  <>[](AllAcknowledged => \A ev \in RawEvents(feed) : Heard(DiffKey(ev), ev))
=============================================================================
