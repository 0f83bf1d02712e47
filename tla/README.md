# TLA+ models of the transit propagation engine

This directory holds a formal model of the program under `src/`: TLA+ modules translated
from its Go code, TLC configurations that check them on small instances, and proofs that
TLAPS checks for all values of the constants. Paths below are relative to `src/`.

## 1. The system

Three processes share Kafka topics and a Redis database.

```
 GTFS-RT feeds --> ingestor --delay-events--> processor --transfer-impacts--> gRPC server --> clients
                   (poller,                   (claims, state manager,          (AlertBroker,
                    Differ)                    detector, engine, evaluator)     StreamAlerts)
                                                      |        ^
                                               delay:*, pending:*, history:*  (Redis)
```

| Component | State it keeps | Operations | What makes it correct |
|---|---|---|---|
| Poller and Differ (`internal/ingest`, `cmd/ingestor`) | per (trip, stop) the last published delay, predicted time, type and when it was last seen, in memory only | one poll: fetch, normalize, diff, publish and commit each event, prune | a change in the feed reaches the topic whatever fails on the way; what is compared with is what was published |
| Delay state manager (`internal/state`) | `delay:{agency}:{trip}:{stop}`: smoothed delay, time, confidence, count | `ProcessEvent`: GET, then SET; SCAN then DEL for a cancellation; DEL for a skip; keys expire after two hours | observation times move forward; mixing never overshoots |
| Processor claim (`cmd/processor`, `ConsumeClaim`) | position, marked and committed offset | enrich, process with retries, match predictions, detect, mark | no event is lost; replays are invisible |
| Processor runtime (`cmd/processor`, `main`) | propagation slots, lag map, catch-up flag, wait groups | sessions, claims, propagations, lag monitor, shutdown | storms do not stall, shutdown ends and loses nothing, catch-up mode follows the backlog |
| Pending predictions (`internal/evaluation`) | `pending:pred:{id}`, a match index and an expiry set | `Add`, `FindActive`, `Update`, `PopExpired`, `sweepOnce` | each prediction is judged once, with the largest observation seen |
| Static graph and headways (`internal/graph`) | indices over the day's active trips, built once | `BuildGraph`, `BuildHeadwayIndex` and the lookups | ids resolve to the one trip they name; headways are the medians of the timetable's gaps |
| Transfer detector (`internal/transfer`) | none; reads the timetable and stored delays | `EvaluateDelay` | what is reported is a listed connection judged by its stored delay, and what is missed whichever way the time is read is reported; the wait announced is the wait experienced |
| Propagation engine (`internal/propagation`) | none across calls; a queue, visited set and result per walk | `Propagate` | causes precede effects, each place keeps its largest cause, estimates rest on the right outcomes |
| Prediction tracking and outcome stores (`internal/evaluation`, `internal/propagation/history.go`, `stopimpact.go`) | `history:*` and `stopimpact:*`, sorted sets by time of recording | `TrackPrediction`, `sweepOnce`, the averages and statistics | the primary is the first stop's impact; each outcome is filed once, where it is looked up |
| Unary gRPC handlers (`internal/server/handlers.go`) | none; read Redis and the graph | `GetNetworkState`, `GetRouteDelays`, `PredictImpact`, `GetBlastRadius`, `GetTransferReliability` | a reply lists what was stored during the call |
| Impact publisher (`internal/transfer/kafka.go`) | the `transfer-impacts` topic | `ensureTopic`, `PublishImpact` | a station's impacts keep their order, whoever creates the topic |
| Alert stream (`internal/server`, `cmd/server`) | subscribers and their buffers, under an RWMutex | reconnecting consumer, `Publish`, `Subscribe`, `StreamAlerts`, graceful stop | log order, loss only by overflow, nobody waits for a slow client, shutdown ends |
| Metrics, CLIs, generated code, deployment | see section 7 | | |

Interactions: the ingestor and the processor share only the `delay-events` topic; several
processors share Redis and split the partitions; a claim calls the state manager, the
evaluator and the detector in sequence and starts propagations as goroutines; the sweeper
runs beside the claims and, in other instances, beside other sweepers; the server reads
`transfer-impacts` and fans out over buffered channels.

Hard behaviours: at-least-once delivery against smoothing that is not idempotent; GET and
SET as separate commands; SETs that outlive their client's timeout; a Differ that
suppresses what it believes was heard, while the keys it was stored under expire; claim-then-delete across processes; contexts that
end before the work they govern; a lock shared by publishers and leaving clients; times of
day that belong to two service days; delays read key by key while others write them; outcomes filed under one key and
looked up, half an hour or a month later, under another; a topic several processes
create; a walk over cyclic transfers. `PROJECT.json` lists
each hazard at its line with the properties that cover it.

## 2. Modules

| Module | Models | Composes or refines |
|---|---|---|
| `DelayReconcile` | the pure part of `ProcessEvent`: first observation, out-of-order test, 70/30 blend with Go's rounding, confidence | used by `DelayConsumer` |
| `Enrichment` | the delay of a time-only event against the schedule, across midnight | used by `DelayConsumer` |
| `DelayConsumer` | a partition, the claim on it, the delay keys; every Redis command a step | |
| `Ingest` | a feed, the poller, the Differ and the topic | |
| `Pipeline` | ingestor and processor end to end | EXTENDS `Ingest`, INSTANCE `DelayConsumer` |
| `PredictionLifecycle` | abstract: a prediction is tracked, observed, decided, judged or lost | |
| `PendingStore` | tracker, matcher and sweepers over the three Redis structures | implements `PredictionLifecycle` |
| `Processor` | sessions, claims, slots, lag monitor, shutdown of one process | |
| `AlertBroker` | impact publishers and the creation of their topic, alert consumer, broker lock and buffers, stream handlers, graceful stop | |
| `StaticGraph` | the rows of a GTFS feed, the services of a day, every index of the graph and every lookup, headways | used by the next three |
| `TransferDetector` | `EvaluateDelay` over a loaded graph, `realizedWait` | EXTENDS `StaticGraph` |
| `OutcomeHistory` | the two stores of outcomes as sets, their retention, averages and statistics | used by `Predictions` |
| `Cascade` | the engine's estimates, seeds, transfers and ripples, and its configuration, as operators | EXTENDS `StaticGraph`, `OutcomeHistory` |
| `Predictions` | requests, scans, the walk, tracking, filing of outcomes, over Redis that changes | EXTENDS `Cascade` |
| `*Proofs` | theorems of `DelayConsumer`, `Ingest` with `Pipeline`, `PendingStore` (with the refinement), `Processor`, `AlertBroker`, `Predictions`, `TransferDetector` | EXTENDS the component and TLAPS |
| `DataLemmas` | lemmas on least elements, extremes, sums over sets, folds and lists in order | EXTENDS TLAPS, used by the proofs about `DelayConsumer`, `Predictions` and `TransferDetector` |
| `MC*` | constants for TLC | EXTENDS the component |

Definitions named "Faulty variant" model plausible mistakes in the code. They are not part
of any specification: each is put in place of the definition after it to confirm that a
property notices.

### How state and actions correspond to the code

- **`DelayConsumer`.** `topic`, `committed` are the broker's; `position`, `marked`,
  `phase`, `attempts` the claim's; `redis` holds `DelayState` records; `held` and
  `scanned` are what `ProcessEvent` has read and not yet acted on. `Read` is GET or the
  SCAN, `Write` the SET or DEL, `Mark` the rest of the loop body. A command may fail before
  it reaches Redis (`CommandFails`), after (`ReplyLost`), or by a timeout that leaves it in
  `late` for `LateWrite`. A SET gives its key two hours: `Expire` takes a key away between
  any two steps, as the models have no durations, and `expired` remembers which. `EndClaim` forgets the position, `StartClaim` resumes from the
  committed offset, or from the newest when there is none. `received` and `applied` are
  history variables.
- **`Enrichment`.** `EnrichedDelay` is the candidate of smallest magnitude among the
  difference of the two times of day and a day more or less; a stop whose times are both 0
  is a stop the schedule does not know, as in the code. `DelayConsumer` applies it to the
  message in hand.
- **`Ingest`.** A stop-time update is an arrival and a departure, each absent or with a
  delay, a time, both or neither; `Told` is `extractDelay`'s choice. `prev` is the Differ's map with the age of `lastSeen` counted in polls
  (up to `Staleness`); `outbox` the events of the current poll not yet sent, in any order,
  as the code iterates a feed whose order is the agency's. A lagging replica is
  `PollStale` with the previous snapshot `older`.
- **`PendingStore`.** `json`, `index`, `expiry` are the three Redis structures with their
  TTLs; `match` is the claim's `OnDelayEvent` with the copies it read; `step`, `cur`,
  `popped` each sweeper's `PopExpired` and `sweepOnce`. `Add` and the delete are pipelines
  whose commands may stop after any prefix. `now` is a clock that also expires keys;
  `Punctual` restricts it to sweeps that keep their interval.
- **`Processor`.** `worker` is a claim's position in `ConsumeClaim`, `slot` a propagation's
  in `runPropagation` with whether its context is live, `lags` is `partitionLags`, `main`
  the position in `main`. `session` "cancelled" is sarama's session whose context is done
  while its claims return.
- **`AlertBroker`.** `pub` is a processor's position in `ensureTopic` and `PublishImpact`;
  `topic` the partitions the topic was created with, by a processor or by a broker that
  creates topics when a consumer asks first. A processor that finds in `CreateTopic` that
  another was faster ends: sarama's `*TopicError` is not the value `kafka.go:77` compares
  with. A send whose answer is lost is sent again by
  the producer (`Appended` with the impact still in hand), with the partition its station
  hashes to. `offers` is the range over subscribers inside `Publish`, made under
  the read lock; writers (subscribe, unsubscribe) take precedence as in `sync.RWMutex`.
- **`StaticGraph`.** A feed is a record of stops, trips, stop-time rows, transfer rows,
  calendars and exceptions, with times that may not parse (`Malformed`); `BuildGraph` turns
  it into a record with one field per index of `TransitGraph`. Equal departures come in any
  order, as `sort.Slice` is not stable. Tails of trip ids are given by `RtTail`. Headways
  are doubled, so that the median of an even number of gaps stays whole.
- **`TransferDetector`.** `Load` picks a feed and builds its graph; `EvaluateDelay` judges
  every transfer of the station and every route that serves its end; `frame` is `effTod`.
  `moved` bounds what may change between detection and outcome to one stored delay.
- **`Cascade`, `Predictions`.** The queue is a set of items ordered by delay, ties in any
  order; a confidence is the exponent of the decay factor, exact because every confidence
  the code computes is such a power. Delays are in seconds, quotients rounded as the code
  rounds. `stage` is the position in the request being served; `scan` a SCAN with a GET per
  key, between whose steps `DelayChanges` stores, deletes or expires a key. `scan.held` and
  `scan.steady` are history: what was stored during the call, and the keys that stayed as
  they were. `pending` are tracked predictions, which `Judge` files; `log` records what was
  filed. A transfer is broken by the detector in a processor (`TransferBroken`), the other
  requests are clients' calls.

## 3. Runs

Each run of TLC is named after its configuration and checks what `PROJECT.json` lists.
Runs marked **violation** show that the code does not do what its documentation says;
section 6 explains them, and the further configurations that reproduce one by hand.

| Run | Question | States |
|---|---|---|
| `MCDelayConsumer` | Is any committed message unprocessed, is at-least-once delivery invisible in Redis, do observation times move forward and do dampened values stay between published ones, under any three of a failing command, a lost reply, a SET that outlives its client, a rebalance, a crash and an expiry? | 5.0 M |
| `MCIngest` | Does the Differ compare with what was published, do live keys survive pruning, and does the topic come to say what the feed says, whatever fails and however it drifts? | 1.9 M |
| `MCPipeline` | Do the stored delays converge to the feed's, are withdrawn ones cleared, and does Redis hold what the Differ compares the feed with whenever the topic is drained, as long as keys live? | 0.6 M |
| `MCPipelineCancelledAgain` | **violation** of `WithdrawnCleared` | 6 k |
| `MCPendingStore` | With two sweepers, deaths and failing commands, is a prediction judged at most once and never resurrected, and is `PredictionLifecycle` implemented? | 1.7 M |
| `MCPendingKeepUp` | When sweeps keep up, is every prediction judged with the largest observation and found while it is open? | 0.8 M |
| `MCProcessor` | Does shutdown end, do hung propagations stall claims, does catch-up mode end, can `propWG.Add` meet `Wait`? | 0.3 M |
| `MCProcessorOutage` | **violation** of `ResumesWhenDrained` | < 1 k |
| `MCAlertBroker` | With two processors, two partitions and two clients: do alerts keep the order they were sent in, and are they lost by overflow only? | 3.3 M |
| `MCAlertBrokerLive` | Can a client hold up publishers, stay subscribed after leaving, or hold up a shutdown after it left? | 0.15 M |
| `MCTransferDetector` | Do trip ids resolve, are headways the timetable's, are reports true to feed and delays and missed connections reported, is a missed connection not boarded and its announced wait realized? | 0.33 M |
| `MCPredictions` | Do scans return what is there, are outcomes filed once and looked up where they were filed, do estimates lie within their evidence, do causes precede effects, does each place keep its largest cause, is the primary the first stop's impact? | 1.1 M |

The type invariants - `TypeOK` of the consumer, `TransferTypeOK`, which says that every graph
built is `WellFormed`, `PredictionsTypeOK` and those of the other detailed modules - hold in these
instances too (add one to a configuration to see it), and each is a theorem.

Some properties hold only up to a fault the code does not survive, and say so in their
statement, so that the fault itself stays in the run: `NeverRegresses` and
`ReplayedAsOnce` hold until a command outlives its client's timeout (`NoLateCommand`),
`ReplayedAsOnce` for keys without a dampened jump (`Undampened`: blending twice is not
blending once), `PrevIsLastPublished` and `FeedReachesTopic` until an acknowledgement is
lost for good (`AllAcknowledged`), `ConvergesUnlessCancelled` and `ClearedUnlessRevived`
for trips that were not cancelled, or did not run again afterwards; the unrestricted
`StateConverges` and `WithdrawnCleared` are the violated ones. Expiry is no fault but how
the code works, and what it does to the pipeline is part of the properties: a delay that
stays the same is not sent again (`internal/ingest/differ.go:92-94`), so its key is gone two
hours after it was last written (`internal/state/manager.go:19,251`) and nothing brings it
back before the reading differs. So `RedisHoldsLastSent` lets a key that expired be empty,
`ConvergesUnlessCancelled` one that expired and was not written again (`Lapsed`), and
`ReplayedAsOnce` speaks of keys that never expired; `MCPipelineExpired.cfg` shows the
unrestricted convergence fail this way, without any fault.

### Bounds and why they are enough

- *Budgets.* Every environment event (message, error, lost reply, timeout, rebalance,
  crash, expiry, feed change, ...) has a budget in a constant of its module, so that the
  state space is finite, and `"faults"` bounds all faults together: `MCDelayConsumer` has any
  three of its six kinds, each once. `Budget["messages"] = 3` suffices for an older, a newer and a redelivered
  observation of one key, or an observation, a cancellation and another observation.
- *Keys.* One trip with two stops: a cancellation covers several keys, a skip one; trips
  do not interact anywhere in the code. `MCPipeline` has one stop.
- *Retries.* `RetryAttempts` is 2 where several attempts of several messages are explored
  and 3, the code's, in the counterexamples. Two attempts give both cases, another attempt
  and giving up.
- *Feed.* It starts with any of the updates and changes twice. The readings of `MCIngest`
  are 10, 20 and 30 s, with a threshold of 15: after 10 was published 20 is suppressed and
  30, which is as close to 20, is not; a Differ that compares with the last reading instead is caught (a mutant
  of `FeedReachesTopic`). `MCIngest` has any three of the six kinds of fault, `MCPipeline`
  one fault on each side: a failed send or a restart of the ingestor, and a crash, a lost
  reply or an expiry in the processor. `MCPipelineDrained.cfg`, which takes
  `RedisHoldsLastSent` through any single fault of the feed's side beside those
  (1.6 M states, no error), is kept beside it.
  `Staleness = 0` makes a key stale after one poll without it.
- *Time.* In `PendingStore` window, slack and index TTL are 3, 1 and 5 ticks, or 6, 2 and
  10: the code's 30, 10 and 50 minutes. Two predictions against a `SweepBatch` of 1 make a
  burst larger than a batch in `MCPendingKeepUp`.
- *Processor.* Two partitions compete for one slot, so that a propagation is shed, and a
  claim ends while another lives. Thresholds of 1 with backlogs of 2 cross both.
- *Alerts.* Two publishers, two partitions, two interchangeable clients, a buffer of 1 and
  two alerts, one of which may be lost or sent twice: overflow happens, partitions
  interleave, and the topic is created by either processor, which ends the other, or by the
  broker. The liveness run, which cannot use symmetry, has one client and one publisher, so
  writer and readers still contend for the lock, and any failures, closes and signals within
  its budget.
- *Timetables.* A day of 16 units, four hours and an overnight window of 4; three trips at
  any even times in 0..20 in any directions, so that departures at, before and after both
  midnights and equal ones occur; and feeds with services, exceptions, malformed times,
  platforms and every kind of transfer row.
- *Predictions.* Three lines in a cycle of transfers, a transfer to another station and
  back to the start; the code's thresholds and times; `maxDepth` 3 for 5, `maxImpacts` 12
  for 100, `MaxTracked` 2 for 20, `MaxBaseline` 2 for 3, `perStopMin` 1 for 5, each of which
  some behaviour reaches. Four moments half a day apart or an hour apart, a retention of
  two of them. Each scenario bounds requests, writes and faults: walks under several delays,
  readers among writers, a tracker among writers, and a pair that learns.

`CHECK_DEADLOCK FALSE` appears where budgets run out or the process has really ended; the
poller never stops, and its run checks deadlock.

### Fairness

- Poller: `WF(PollerStep)`. The ticker fires, and fetches and sends return.
- Claim (`Pipeline`): `WF(Progress)`. A claim on a live session takes its next message;
  faults are never fair and finitely many, and neither is expiry.
- Sweepers: `WF` of each sweeper's step and of the clock, as `RunSweeper` is a loop over a
  ticker. Sweeps that keep their interval (`Punctual`) are assumed only in `MCPendingKeepUp`.
- Processor: `WF` per claim, background goroutine, monitor and main: the Go scheduler
  runs what is runnable. Propagations are not fair, as they may hang in a Redis or Kafka
  call; `ShutdownCompletes` alone assumes that they return, in its own statement.
- Alerts: `WF` of readers, consumer and those handler steps no client can hold up. Sending
  to a client that does not read is not fair, hanging up is not either.

## 4. Proofs

TLAPS proves, for every value of the constants that the named assumptions admit:

| Module | Theorem | Says |
|---|---|---|
| `PendingStoreProofs` | `TypeCorrect`, `OwnerIsUnique`, `JudgedAtMostOnce`, `KeysStayGone` | types; one owner per prediction; at most one outcome; no resurrected key - for any number of predictions, sweepers, deaths and failing commands |
| | `StoreImplementsLifecycle`, `LargestObservationKept`, `OpenWindowsFound` | `PendingStore` implements `PredictionLifecycle`; no acknowledged observation is overwritten by a smaller one; a prediction with an open window is found |
| | `QueuedNotEvicted` | when sweeps keep their interval and bursts fit the slack, no queued prediction is evicted before a sweep claims it |
| `DelayConsumerProofs` | `TypeCorrect`, `NoCommittedLoss`, `ObservationsMoveForward`, `LatenessAcrossMidnight`, `StoredBetweenPublished`, `ReplaysInvisible` | types; no committed offset covers an unprocessed message; observation times move forward until a command outlives its client; a train less than half a day off gets its true delay on either side of midnight; a stored delay lies between two published latenesses of its key; whatever is retried and replayed, a drained log leaves what processing each message once leaves, of the keys that never expired |
| `PipelineProofs` | `TypeCorrect`, `LiveKeysKept`, `DifferRemembersLast` | types; live keys survive pruning; the Differ remembers the last event published until an acknowledgement is lost for good |
| | `DifferAgreesWithRedis` | once the topic is drained Redis holds what the Differ compares the feed with: nothing for withdrawn keys, else the delay sent last or, once expired, nothing |
| | `PipelineImplementsIngest`, `NothingLostInPipeline`, `ForwardInPipeline`, `StoredInPipeline` | what is proved of the poller and of the claim by themselves holds of the two joined by the topic |
| `ProcessorProofs` | `TypeCorrect`, `WaitAfterLastAdd` | types; nothing adds a propagation to the group once shutdown waits for it |
| `AlertBrokerProofs` | `TypeCorrect`, `AlertsInSendOrder`, `AlertsNotLost` | types; a client sees a processor's alerts of a station in order and no message twice; it misses alerts only by a full buffer |
| `PredictionsProofs` | `TypeCorrect` | types: every impact of a result or a reply keeps to the depth, the confidence limit and the cap, and tracking to its own |
| | `ScansFaithful` | a SCAN that succeeds returns what was there throughout, and nothing that never was |
| | `OutcomesFiledOnce`, `EstimatesRestOnOutcomes`, `EstimatesWithinEvidence` | an outcome is filed under one key of one store; a walk's evidence is exactly its pair's recent outcomes; the first delay lies between those and the schedule's estimate |
| | `ImpactsCaused`, `LargestCausesKept`, `TrackingCapped` | every impact has its cause earlier in the result, through cycles of transfers; each place is visited once and with the largest of its causes so far, and nothing delayed further on is dropped but by the cap; no more than `maxTracked` are tracked |
| | `PrimariesInitial` | nothing learned, the primary of a result is the impact on the receiving route's first stop, under `FirstStopLeast` |
| `TransferDetectorProofs` | `TripIdsResolve`, `ImpactsFollowFeed`, `MissedIsNotBoarded`, `AnnouncedIsRealized` | real-time ids resolve to the one running trip they are the tail of; what is reported is a transfer of the feed with the level its stored delay leaves, and what is broken or at risk in each frame is reported; the evaluator never finds the passenger on the missed train; the announced wait is the realized one - for any feed |
| | `HeadwaysMedian`, `TransfersTyped` | an indexed headway is the median of the feed's gaps that begin in its hour; every graph built is well formed and every impact has its type |

*PendingStore.* The inductive invariant is
`StoreInv == PendingTypeOK /\ InHandOK /\ SingleOwner`. `SingleOwner` is not inductive by
itself: `Fetch` and `Delete` use the id a sweeper has in hand, so `InHandOK` says that
there is one. `JudgedAtMostOnce` follows from single ownership: who records holds, and who
holds an id excludes an outcome. `KeysStayGone` needs that a copy in the matcher's hand
belongs to an id that was added and that `Rewritten` is existence-guarded.

*The refinement.* `LifeInv` adds what the store's variables alone do not say: a sweeper
has read what it deletes and not yet what it fetches (`PoppedOK`), and a copy in the
matcher's hand equals the key as long as that exists (`CopiesOK`) - one matcher per route is
the only writer - so that an `Update` that passes the comparison with the copy raises the
key. Then one lemma per action: a claim and a delete are silent, `Fetch` decides, `Record`
judges, an abandoned get, a death or an eviction loses. `StageFacts` and `Readings` read
the stage and the best observation off the store, so that a prediction whose traces stay
as they are keeps its life (`TracesStay`). `OpenWindowsFound` rests on `FindInv`: no window
ends after the index does, because every `Add` moves the index's expiry beyond all windows.

*Keeping up.* `NoneEvictedUnswept` is far from inductive: a key is evicted when its queue was
too long a whole slack earlier. `QueueInv` counts: of the predictions that were due `n`
intervals before the last sweep, `n` batches are gone (`QueueDrains`), and one more while a
sweep of this instant ends (`SweepDrains`). The hypothesis `BurstsDrain` bounds the
predictions due at once by the `Slack \div SweepEvery` batches that fit the slack, so that
none is left when the first key may expire. With the code's batches of 100 (`evaluator.go:32`) every 30 s
(`cmd/processor/main.go:387`) and 10 minutes between a window's end and its key's
(`pending.go:90`) that is 2000 predictions. `Punctual` is a hypothesis on the constants: `MCPendingStore`, without it,
loses predictions this way, as the code says it may (`AbandonedOnlyIfEvicted`).

*DelayConsumer.* `ConsumerInv == TypeOK /\ HandOK` gives the types. `NoCommittedLoss`
assumes `StartCommitted` (without it, `MCDelayConsumerNewest` is the counterexample) and
strengthens the property to `CommitInv`: everything before the position of a running
claim, before the marked and before the committed offset is settled, and a message in
phase "done" has been applied. `ObservationsMoveForward` rests on `HeldInv`: as long as
the budget of timeouts is untouched, no write is in flight, and while a claim is about to
write, what it read is still what Redis holds - true because a partition's keys have a
single writer. The budget of timeouts is only ever spent (`TimeoutsSpent`), so a state
that still has all of it was never preceded by a timeout. `StoredBetweenPublished` rests on
`FitInv`: what Redis holds, what is about to be blended and what late writes may still store
lie between published latenesses, which a blend with another of them keeps (`Blend`'s
rounding stays within its arguments). It assumes `EndsByNoon`, that no stop is timed after
noon of the following day: the code compares one day either way
(`cmd/processor/enrich.go:42-55`), and would put a later one on the wrong day.

`ReplaysInvisible` compares Redis with a recursive pass over the log, and needs no induction
over replays. `Latest` says in one formula what a key ought to hold after the messages up to
an offset: of those that tell of the key and are not cleared later (`Stands`), one that
prevails over all, by observation time and then by offset. `UpTo` weakens it so that it
survives a rewind: what a claim left behind is cleared by a message it will still meet, or
prevails. Then one more message preserves it, for the first time or again
(`OneMoreMessage`); a claim that may go on from an offset may go on from an earlier one
(`Sooner`); and a longer log changes nothing (`Longer`). `ReplayInv` says `UpTo` of what
each key holds and the offset the claim has reached or will start from, together with
the order of offsets and, as for `HeldInv`, that a cancellation about to delete has found
every key of its trip (`ScanCurrent`). `OnceIsLatest` says the same of the recursive pass,
by induction on its length through `InductionOnSet`, and at the end of the log there is
one latest message (`OneLatest`). A dampened jump is excluded, as blending is not
idempotent, and so is a late command; both are in the run.

*Ingest.* `IngestInv == IngestTypeOK /\ PollOK`, where `PollOK` says that during a poll
every key of the snapshot has age 0. `DifferRemembersLast` rests on `AckInv` in the same
way: the budget of lost acknowledgements is only spent by losing one.

*Pipeline.* The step lemmas of `DelayConsumerProofs` are about `Consume \/ Grown`: a step of
the claim, or any extension of the log by whoever produces. `Produce` is one way of it
(`NextGrows`), the poller's sends are another (`IngestGrows`), as every event it selects is a
message the claim can take (`OutboxOK`). So the lemmas are used in the pipeline under an
instance of that module (`D`), whose definitions are those of the pipeline's own instance `C`
(`SameData`, `SameSteps`, `SamePromises`); what the consumer assumes of its constants follows
from `PipelineAssumption` (`ConsumerAssumed`). `PipelineInv` is the conjunction of the
invariants of both sides.

`DifferAgreesWithRedis` is what the Differ's suppression rests on: it sends nothing for a
reading close to the last one sent, so the last one sent had better be stored. `RemembersLast`
gives the last message of the key, `LatestStored` what the drained log leaves of it, and
`LastIsHeld` puts them together: no later message tells of the key, so either one withdraws
it and nothing stands, or the last one stands, and only a delay of a newer snapshot prevails
over it (`Outdated`). An expiry empties the key and is remembered in `expired`. The exceptions
are real. A trip cancelled and reinstated with its old
delay is withdrawn in Redis and remembered by the Differ (`MCPipelineReinstated`), and after a
lagging snapshot the two differ (`MCPipelineLagging`).

*Processor.* `ProcInv == ProcTypeOK /\ LoopOK /\ InHandOK`. `LoopOK` is the argument: the
consume loop is left only after a signal and without a session, and no session starts
after it, so no claim is there to add; `InHandOK` keeps the backlog a natural number.

*AlertBroker.* `StreamInv` gives the types, with `AheadOK` (a goroutine does not pass the
end of its log) and `QuietOK` (none runs while the consumer connects). `AlertsInSendOrder`
rests on two more invariants. `LogInv`: an impact lies in the one partition its tag is
hashed to - the number of partitions of an existing topic never changes - and a
publisher's counts ascend along a log, equal ones being copies of one impact. `HeldInv`:
what a client has was already passed, or is just being offered, by its partition's
goroutine, so that the next offer is younger; offsets ascend across reconnects because
each starts at the newest offset. `AlertsNotLost` is inductive with `StreamInv`:
`Subscribe` waits until no goroutine publishes, and `first` moves with every session.

*Predictions.* `ScanInv` says of a SCAN under way that what it holds was there at some time,
and that of the keys before its cursor which stayed as they are it holds the wanted ones.
`HistoryInv` (`Keeps`) relates each store to the whole history: under a key of it lie exactly
the outcomes filed there within the retention, one for each, so that equal outcomes do not
merge. `EvidenceInv` carries what `Propagate` read to the walk that uses it. `WalkInv` says
of every impact of the result, and of every item still in the heap, that it is on the
receiving route or has its cause among the impacts before it; items are only pushed by the
impact just appended. `EstimatesWithinEvidence` needs `SeedInv` (until the first item is
popped the heap is the receiving route's seed) and `CrossInv` (the predictions that teach a
pair lead to another route), and that Go's truncating division in the blend stays between
its arguments (`BlendedBetween`) for any sign. `LargestCausesKept` rests on `Kept`, which says
of every impact so far what the property says at the end, with the heap still to come: of
what it leads to, each item waits in the heap, or its place was visited before it or is
held by an impact no less delayed, since a heap never gives out a smaller item while a
larger one waits. `TrackInv` gives `TrackingCapped`.

`PrimariesInitial` is the argument behind `evaluator.go:93-95`, which takes the smallest delay
on the receiving route for the estimate "before dwell accumulation". It holds under conditions
on the constants that `FirstStopLeast` spells out and TLC evaluates in `MCPredictions`. The
inductive invariant `FirstInv` says that as long as the first stop waits in the heap, only
items ahead of it have been taken: the route's other stops, from the last to the first, as each
adds a dwell (`DwellGrows`). They fit the cap on impacts (`SeedFits`), and what they break
elsewhere has less delay than the first stop (`CascadesFade`): by default a stop adds 1 s,
a transfer passes on 3 tenths of a delay of 15 s or more, and `n * 1 * 3 < 15 * 7` for each of
the stops within the confidence limit. So nothing comes back to the receiving route before its
first stop is taken, with the smallest delay there. `NoLoops` was found by the proof: on a trip
that calls twice at a station within those calls, the later call is taken first, the first stop
is dropped as visited, and the primary is a later stop, against the comment.

*TransferDetector.* The invariant is short, `DetectorInv`; what is hard is what one call
computes. `TimetableLists` says of the lists of a built graph that they enumerate the rows
of the feed's running trips in order of departure; `NextDepartures` that a lookup finds the
first ones not before the given time, of the day or after midnight; `DelayIsStored` that a
trip in a station's list has a row there, so that the delay stored for it is the one read;
`CatchableRows` which departures a passenger on time catches; `Reported` and
`BoardedIs` what the detector and the evaluator conclude. `MissedIsNotBoarded` assumes that
a trip calls at a station once (`CallsOnce`), as the code names a train by its trip;
`ImpactsFollowFeed` that no station is a platform of another (`StationsOnTop`), as the code
goes up one level only; `AnnouncedIsRealized` both. The feeds of `MCTransferDetector`
satisfy them. The suffix index of trip ids is a fold over the trips in any order; what it
holds (`IndexedTells`, `SuffixTells`) follows by induction on the number of trips done.

`HeadwaysMedian` says of the middle of a sorted list what the property says with counts
(`MiddleOnes`), and of the gaps that `BuildHeadwayIndex` takes between neighbours of one
route and direction that they are, one for one, those after the departure times of the feed
(`GapsBegin`): of several departures at one second only the last has a gap, whatever order
an unstable sort leaves them in. `TransfersTyped` assumes `StationsOnTop` and that the rows
of `stop_times.txt` and `transfers.txt` name stops of `stops.txt` (`StopsListed`); its lemma `GraphWellFormed` is what the engine takes for granted of its
graph.

*Data.* A fold or a sum over a set has no induction theorem the provers can instantiate.
`DataLemmas` therefore takes the least counterexample of a set of naturals (`Least`,
`InductionOnSet`), and gets from it, as first-order facts, that extremes exist, that a fold
has the function of its partial results (`FoldExists`), and that a sum lies between its
bounds (`SumBounds`); likewise that a finite set has a list in the order of its elements'
keys (`SortedExists`) and that an enumeration without repetition meets all of it.

*Assumptions* on constants are named where they are declared, and TLC evaluates them in every
run: among them that feeds have been parsed (`Readable`), that the graph the engine walks is
`WellFormed` (`GraphWellFormed` proves it of what `BuildGraph` makes of any such feed), that
the bound `ExponentCap` on the exponents of a confidence cuts off none that counts, that
the marker of a missing route is no route, and that an ambiguous tail is no trip.

Only model-checked:

- everything under fairness, for which TLAPS has no reasoning here;
- in particular the convergence of `Pipeline` (`DifferAgreesWithRedis` is its safe part).

## 5. Reading order

`DelayReconcile`, `DelayConsumer`, `Ingest`, `Pipeline` for the delay pipeline, which is
the program's centre; `PredictionLifecycle`, `PendingStore` for evaluation; `Processor` and
`AlertBroker` for concurrency; `StaticGraph`, `TransferDetector`, `OutcomeHistory`,
`Cascade`, `Predictions` for the algorithms and what they rest on.

## 6. Findings

Two disagreements between code and documentation are runs of the project; `PROJECT.json`
quotes the sentences they refute.

- *Second cancellations* (`MCPipelineCancelledAgain`) are suppressed, as the key of a
  cancellation stays in the Differ while the trip runs again (`internal/ingest/differ.go:62`):
  everything is told and processed, and the trip keeps its delays until their two hours are
  over.
- *An outage* (`MCProcessorOutage`) ends the claims, which empties the lag map and ends
  catch-up mode with the backlog unread (`cmd/processor/main.go:221`).

The configurations below reproduce further ones with `tlc -config X.cfg M` on the module
they are named after; each checks one property, which TLC finds violated (of those that
`MCPredictionsMore` and `MCTransferMore` list, the one whose line is not commented out).

| Configuration | Property | What it shows |
|---|---|---|
| `MCDelayConsumerNewest` | `NoSilentDrop` | before the group's first commit a claim that gives up restarts at the newest offset (`cmd/processor/main.go:125`), skipping what it could not process |
| `MCDelayConsumerStaleSkip` | `StaleEventDiscarded` | late cancellations and skips delete newer states (`internal/state/manager.go:85`), against `TRANSIT_ENGINE_SPEC.md:427` |
| `MCPipelineReinstated` | `StateConverges` | a trip reinstated with its old delay is suppressed and stays without one |
| `MCPipelineJump` | `StateConverges` | a dampened jump stays dampened: the reading that would correct it is suppressed |
| `MCPipelineExpired` | `StateConverges` | a delay that stays the same expires after two hours and is not sent again: the stop has none in Redis although the feed serves it (`internal/ingest/differ.go:93`, `internal/state/manager.go:251`) |
| `MCPipelineLagging` | `StateConverges` | after a lagging snapshot the Differ and Redis disagree about the last value |
| `MCPendingGetError` | `AbandonedOnlyIfEvicted` | a failing GET in `PopExpired` loses a claimed prediction (`internal/evaluation/pending.go:166-169`) |
| `MCProcessorInFlight` | `InFlightTracked` | shutdown cancels the context of the propagations it waits for: results are published whose predictions were never stored (`cmd/processor/main.go:285,192`) |
| `MCAlertBrokerFlaky` | `AlertsReconnect` | a lost partition consumer is not replaced while another one lives (`internal/server/alerts.go:155`) |
| `MCAlertBrokerTopic` | `EveryoneGetsTopic` | of two processors that both miss the topic the slower one ends: its error is a `*TopicError`, not the value compared with (`internal/transfer/kafka.go:77`, `cmd/processor/main.go:82-85`) |
| `MCAlertBrokerStop` | `ServerShutsDown` | graceful stop waits for clients that stay connected |
| `MCTransferMore` | `ConnectionIsFirstViable` | the service day is chosen before the minimum transfer time is applied |
| `MCTransferMore` | `NextViableIsAnother` | a connection broken by running early is named as its own replacement |
| `MCTransferMidnight` | `ScheduledTimeUsed` | a scheduled arrival at midnight counts as unset |
| `MCTransferTailIds` | `ObservedDelayUsed` | the delay of a connecting train known under its real-time id is not found under its static one (`internal/transfer/detector.go:112`) |
| `MCPredictionsMore` | `FollowsItsTrain` | `PredictImpact` for such an id finds no route (`internal/server/handlers.go:196`) and answers with nothing |
| `MCPredictionsMore` | `PrimaryIsInitialLearnt` | the primary prediction may be a later stop once outcomes are learned |
| `MCPredictionsMore` | `ImpactsDescend` | impacts are not in descending order after a cascade ripple, as tracking assumes (`internal/evaluation/evaluator.go:126`) |
| `MCPredictionsMore` | `HourMatches` | a prediction is filed under the hour of its computation and looked up under that of its detection, against `internal/evaluation/evaluator.go:98` |
| `MCPredictionsMore` | `ImpactsAddDelay` | `GetBlastRadius` propagates trains that run early (`internal/server/handlers.go:243`) |

Two more faults are inside passing runs, whose properties hold up to them: a SET that
outlives its client may overwrite a newer state, and a written event whose
acknowledgement is lost may hide the return to an earlier value.

Met while modelling, without a property of their own: an event without a route id is keyed
apart from its route's others, so the single writer that `evaluator.go:245-248` relies on is
not guaranteed; several transfer rows between platforms of the same stations are reported
as several impacts (`ImpactsMatchFeed` counts them as the code does); `GetTransferReliability`
leaves the percentage of its reply unset; a topic that the broker created by itself keeps
the broker's number of partitions (`InSendOrder` holds there too). That sarama returns a
`*TopicError` is knowledge of the pinned version (v1.47.0), which is not in the repository.

## 7. Not modelled

- Durations of expiry: a key may expire between any two steps (`Expire` of `DelayConsumer`,
  `DelayChanges` of `Predictions`), so two hours are not related to the polls of `Ingest` and
  `Pipeline`, and a run has one expiry. What holds for every moment holds for the real one.
- A process that runs past midnight keeps the graph of the day it started
  (`cmd/processor/main.go:63`); the graph is a constant of each instance, as it is of the
  process.
- `GetDownstreamStops` takes the first departing trip that fits, which `StaticGraph` models;
  `MCPredictions` has one stop pattern per direction, so a short-turning first trip that
  truncates a cascade is not among its instances.
- Self-propagation in `estimateInitialDelay` for a broken transfer: the detector never
  reports a transfer from a route to itself.
- Failing lookups of single stops in the per-stop store count as no outcomes in the code;
  the model lets the pair's lookup fail and not the stops'.
- Names, colours and coordinates of stops and routes, and the statistics of the graph.
- Daylight-saving changes: `Enrichment` and `StaticGraph` have days of equal length.
- The propagation publisher (`internal/propagation/kafka.go`), the same code as the impact
  publisher without a reader here: its sends are `PublishResult` of `Processor`.
- Metrics, CLIs, encodings of generated code, deployment: no state a property here speaks of.

## 8. Plan

Done: the delay pipeline with enrichment and normalisation, pending predictions, the
processor's runtime, impact publishers and the alert stream, the static graph with its
headways, the detector, the engine with tracking, outcome stores and handlers; proofs about
the consumer, the poller, the pending store, the processor's runtime, the alert stream, the
engine and the detector.

Next, most important first:

1. Several processors over one Redis with a rebalance that leaves two claims on one
   partition for a while (a zombie claim), extending `DelayConsumer`.
2. Two matchers of one prediction, for events without a route id, in `PendingStore`.

Every safety property that a run checks is a theorem; what is left to TLC is liveness.
