------------------------------ MODULE Pipeline ------------------------------
(***************************************************************************)
(* The ingestor and the processor joined by the delay-events topic: a feed,*)
(* its poller and Differ (Ingest), and a claim that stores delays in Redis *)
(* (DelayConsumer).  The two share nothing but the topic.                  *)
(*                                                                         *)
(* The questions are end to end: whenever the log is drained, does Redis   *)
(* hold what the Differ takes to be known downstream?  And once the feed   *)
(* and the faults settle, does it hold what the feed says?                 *)
(***************************************************************************)
EXTENDS Ingest

CONSTANTS
  Day, Timetable, RetryAttempts, Budget, NoState,
  SmoothingThreshold, SmoothingMaxUpdates, CloseDelta

VARIABLES committed, redis, late, claim, position, marked, phase, attempts,
          held, scanned, received, applied, expired, left

\* Only the poller produces, and the group has a committed offset.
C == INSTANCE DelayConsumer WITH Messages <- {}, StartCommitted <- TRUE

consumerVars == <<committed, redis, late, claim, position, marked, phase,
                  attempts, held, scanned, received, applied, expired, left>>
pipelineVars == <<ingestVars, consumerVars>>

ASSUME PipelineAssumption ==
  /\ Timetable \in [Trips \X Stops -> [arrival : Nat, departure : Nat]]
  /\ RetryAttempts \in Nat \ {0}
  /\ Budget \in [C!BudgetKinds -> Nat]
  /\ SmoothingThreshold \in Nat /\ SmoothingMaxUpdates \in Nat \ {0} /\ CloseDelta \in Nat
  /\ Day \in Nat \ {0}
  /\ NoState \notin C!DelayState

PipelineInit == IngestInit /\ C!Init

Ingesting == IngestNext /\ UNCHANGED consumerVars
Consuming == C!Consume /\ UNCHANGED <<feed, older, pollVars, feedLeft>>

PipelineNext == Ingesting \/ Consuming

PipelineSpec == PipelineInit /\ [][PipelineNext]_pipelineVars

PipelineFairSpec ==
  /\ PipelineSpec
  /\ WF_pipelineVars(PollerStep /\ UNCHANGED consumerVars)
  /\ WF_pipelineVars(C!Progress /\ UNCHANGED <<feed, older, pollVars, feedLeft>>)

-----------------------------------------------------------------------------
(* What the Differ compares with and what Redis holds.                     *)

CancelsTrip(ev, t) == ev.kind = "cancel" /\ ev.trip = t

Withdraws(ev, k) ==
  CancelsTrip(ev, k[1]) \/ (ev.kind = "skip" /\ DiffKey(ev) = k)

\* What topic[i] said of k is withdrawn, by itself or since.
WithdrawnBy(k, i) == \E j \in i..Len(topic) : Withdraws(topic[j], k)

\* A delay sent before topic[i] and not withdrawn since was observed later: the
\* feed served an earlier snapshot again.
Outdated(k, i) ==
  \E j \in 1..(i - 1) :
    /\ DiffKey(topic[j]) = k /\ topic[j].at > topic[i].at
    /\ \A m \in j..i : ~Withdraws(topic[m], k)

\* The Differ holds back what does not differ from what it sent last, so that must
\* be what is stored.  Once the log is drained it is, for every key the Differ
\* remembers, whatever the ingestor and the processor went through, until an
\* acknowledgement is lost for good or a command outlives its client: a withdrawn
\* stop has no delay, any other one has a delay unless it expired, and without a
\* dampened jump the delay is the one sent last, unless that is outdated.  Expiry
\* is real: a repeated reading is held back (differ.go:92-94), so nothing rewrites
\* the key within its two hours (manager.go:19,251).
RedisHoldsLastSent ==
  AllAcknowledged /\ C!Drained /\ C!NoLateCommand =>
    \A k \in C!Keys : prev[k] # Unseen /\ C!Undampened(k) =>
      \E i \in 1..Len(topic) :
        /\ IsLast(k, i) /\ SameObservation(prev[k], topic[i])
        /\ WithdrawnBy(k, i) => redis[k] = NoState
        /\ redis[k] = NoState => WithdrawnBy(k, i) \/ k \in expired
        /\ redis[k] = NoState \/ Outdated(k, i)
             \/ redis[k].delay = C!Enriched(topic[i]).delay

-----------------------------------------------------------------------------
(* What Redis holds and what the feed says.                                *)

\* The delay the feed implies for a stop it serves.
FeedDelay(t, s) ==
  C!Enriched(StopEvent(t, s, feed.trips[t][s], feed.at)).delay

InService(t, s) ==
  /\ feed.trips[t] # Cancelled
  /\ HasReading(feed.trips[t][s])

Withdrawn(t, s) ==
  feed.trips[t] = Cancelled \/ IsSkipped(feed.trips[t][s])

Converged(t, s) ==
  InService(t, s) =>
    /\ redis[<<t, s>>] # NoState
    /\ Distance(redis[<<t, s>>].delay, FeedDelay(t, s)) <= DelayThreshold

Cleared(t, s) == Withdrawn(t, s) => redis[<<t, s>>] = NoState

\* A cancellation of the trip was published.
Retracted(t) == \E i \in 1..Len(topic) : CancelsTrip(topic[i], t)

\* ... and an observation of the trip after it.
Revived(t) ==
  \E i, j \in 1..Len(topic) :
    /\ i < j /\ CancelsTrip(topic[i], t)
    /\ topic[j].trip = t /\ topic[j].kind # "cancel"

\* Once the feed settles, every stop it serves has a delay in Redis, equal to
\* the feed's up to the noise threshold: "diffs against previous snapshots ...
\* and publishes"; "reconciles noisy data ... in Redis" (README.md:23,25).
StateConverges == \A t \in Trips, s \in Stops : <>[]Converged(t, s)

\* The delay outlived its two hours, and no reading since differed enough to be
\* sent again.
Lapsed(t, s) == <<t, s>> \in expired /\ redis[<<t, s>>] = NoState

\* The same of the trips that were never cancelled, as long as the delay lives: a
\* delay stored again after an expiry converges as well.
ConvergesUnlessCancelled ==
  \A t \in Trips, s \in Stops : <>[](Retracted(t) \/ Lapsed(t, s) \/ Converged(t, s))

\* A poll would find nothing to tell of the feed, and what was told is processed.
AllTold == Diff(RawEvents(feed)) = {} /\ outbox = {} /\ C!Drained

\* Then a cancelled trip or a skipped stop has no delay left in Redis: the
\* trip-scoped event is emitted "so downstream can retract the trip's delay state"
\* (normalizer.go:55-57).
WithdrawnCleared == AllTold => \A t \in Trips, s \in Stops : Cleared(t, s)

\* Once the feed settles, that is so of the trips that did not run again after a
\* cancellation.
ClearedUnlessRevived ==
  \A t \in Trips, s \in Stops : <>[](Revived(t) \/ Cleared(t, s))
=============================================================================
