---------------------------- MODULE DelayConsumer ----------------------------
(***************************************************************************)
(* One partition of the delay-events topic, the processor's claim on it    *)
(* (cmd/processor/main.go, ConsumeClaim) and the Redis keys the delay-state*)
(* manager writes for its events (internal/state/manager.go).              *)
(*                                                                         *)
(* Every Redis command is a step of its own: the read (GET or SCAN), then  *)
(* the write (SET or DEL).  A command may fail before it reaches Redis,    *)
(* after Redis executed it (the reply is lost), or by a client timeout     *)
(* with the command still to be executed.  withRetry calls ProcessEvent    *)
(* again; when its attempts are exhausted the claim ends without marking.  *)
(* The process may crash, the group may rebalance, and a delay may outlive *)
(* its two hours in Redis, between any two steps.                          *)
(***************************************************************************)
EXTENDS Integers, Sequences, DelayReconcile, Enrichment

CONSTANTS
  Trips, Stops,
  TripWide,        \* the empty stop ID of a cancellation
  Timetable,       \* scheduled times of a trip at a stop
  Messages,        \* what the producer may append in a stand-alone run
  RetryAttempts,   \* withRetry's attempts (3 in the code)
  StartCommitted,  \* the group has a committed offset before the first claim
  Budget           \* how often each environment event may happen

Keys == Trips \X Stops

DelayKinds == {"arrival", "departure"}
Kinds      == DelayKinds \cup {"skip", "cancel", "corrupt"}

Event == [kind : Kinds, trip : Trips, stop : Stops \cup {TripWide},
          delay : Int, predicted : Nat, scheduled : Int, at : Nat]

\* A cancellation names no stop; every other event names one.
WellFormed(ev) == ev.kind = "cancel" <=> ev.stop = TripWide

FaultKinds ==
  {"errors", "lostReplies", "timeouts", "rebalances", "crashes", "expiries"}
\* "faults" bounds the faults of all kinds together.
BudgetKinds == FaultKinds \cup {"messages", "faults"}

ASSUME ConsumerAssumption ==
  /\ TripWide \notin Stops
  /\ Timetable \in [Keys -> StopTimes]
  /\ Messages \subseteq {ev \in Event : WellFormed(ev)}
  /\ RetryAttempts \in Nat \ {0}
  /\ StartCommitted \in BOOLEAN
  /\ Budget \in [BudgetKinds -> Nat]
  /\ NoState \notin DelayState

VARIABLES
  topic,      \* the partition's log; offset o is topic[o + 1]
  committed,  \* the group's committed offset at the broker, or NoOffset
  redis,      \* delay keys: DelayState or NoState
  late,       \* writes whose client gave up and that Redis will still execute
  claim,      \* "down" or "running"
  position,   \* offset of the next message, or of the one in hand
  marked,     \* offset marked in this session, or NoOffset
  phase,      \* where the message in hand is: see Phases
  attempts,   \* ProcessEvent calls made for it
  held,       \* what getState returned
  scanned,    \* what the cancellation's SCAN returned
  received,   \* history: offsets handed to ProcessEvent
  applied,    \* history: offsets whose ProcessEvent returned nil
  expired,    \* history: keys that have ever expired
  left        \* remaining budget

claimVars   == <<claim, position, marked, phase, attempts, held, scanned>>
historyVars == <<received, applied, expired>>
vars == <<topic, committed, redis, late, claimVars, historyVars, left>>

NoOffset == -1

\* "idle": waiting for a message; "call": ProcessEvent is about to read;
\* "write": it is about to write; "done": it returned nil.
Phases == {"idle", "call", "write", "done"}

Spend(what) == left[what] > 0 /\ left' = [left EXCEPT ![what] = @ - 1]

SpendFault(what) ==
  /\ left[what] > 0 /\ left["faults"] > 0
  /\ left' = [left EXCEPT ![what] = @ - 1, !["faults"] = @ - 1]

-----------------------------------------------------------------------------
(* The message in hand.                                                    *)

KeyOf(ev) == <<ev.trip, ev.stop>>

\* Time-only: the delay is 0 and nothing but the predicted time is known.
TimeOnlyEvent(ev) ==
  /\ ev.kind \in DelayKinds
  /\ ev.delay = 0 /\ ev.predicted # 0 /\ ev.scheduled = 0
  /\ ScheduledTime(Timetable[KeyOf(ev)], ev.kind) # 0

Retimed(ev, delay) == [ev EXCEPT !.delay = delay, !.scheduled = ev.predicted - delay]

\* Faulty variant: midnight is not looked across.
EnrichedSameDay(ev) ==
  IF TimeOnlyEvent(ev)
  THEN Retimed(ev, SecsSinceMidnight(ev.predicted) - ScheduledTime(Timetable[KeyOf(ev)], ev.kind))
  ELSE ev

\* enrichEvent
Enriched(ev) ==
  IF TimeOnlyEvent(ev)
  THEN Retimed(ev, EnrichedDelay(Timetable[KeyOf(ev)], ev.kind, ev.predicted))
  ELSE ev

InHand == Enriched(topic[position + 1])

\* Faulty variant: the SCAN's cursor is not followed.
TripKeysFirstPage(ev) ==
  LET found == {k \in Keys : k[1] = ev.trip /\ redis[k] # NoState}
  IN  IF found = {} THEN {} ELSE {CHOOSE k \in found : TRUE}

TripKeys(ev) == {k \in Keys : k[1] = ev.trip /\ redis[k] # NoState}

\* The command ProcessEvent issues after its read.
WriteOf(ev) ==
  IF ev.kind \in DelayKinds
  THEN [keys |-> {KeyOf(ev)}, value |-> Reconcile(held, ev)]
  ELSE [keys |-> IF ev.kind = "cancel" THEN scanned ELSE {KeyOf(ev)},
        value |-> NoState]

\* A SET leaves its key keyTTL to live: see Expire.
Executed(w) == [k \in Keys |-> IF k \in w.keys THEN w.value ELSE redis[k]]

-----------------------------------------------------------------------------
TypeOK ==
  /\ topic \in Seq({ev \in Event : WellFormed(ev)})
  /\ committed \in Nat \cup {NoOffset}
  /\ redis \in [Keys -> DelayState \cup {NoState}]
  /\ late \in SUBSET [keys : SUBSET Keys, value : DelayState \cup {NoState}]
  /\ claim \in {"down", "running"}
  /\ position \in Nat
  /\ marked \in Nat \cup {NoOffset}
  /\ phase \in Phases
  /\ attempts \in 0..RetryAttempts
  /\ held \in DelayState \cup {NoState}
  /\ scanned \in SUBSET Keys
  /\ received \in SUBSET Nat
  /\ applied \in SUBSET Nat
  /\ expired \in SUBSET Keys
  /\ left \in [BudgetKinds -> Nat]

Init ==
  /\ topic = <<>>
  /\ committed = IF StartCommitted THEN 0 ELSE NoOffset
  /\ redis = [k \in Keys |-> NoState]
  /\ late = {}
  /\ claim = "down" /\ position = 0 /\ marked = NoOffset
  /\ phase = "idle" /\ attempts = 0 /\ held = NoState /\ scanned = {}
  /\ received = {} /\ applied = {} /\ expired = {}
  /\ left = Budget

-----------------------------------------------------------------------------
(* Claiming the partition and taking a message.                            *)

\* Faulty variant: a claim starts behind the message that ended the last one.
StartPositionSkips ==
  IF committed = NoOffset THEN Len(topic) ELSE AtMost(committed + 1, Len(topic))

\* Without a committed offset a claim starts at the end of the log
\* (Consumer.Offsets.Initial = OffsetNewest).
StartPosition == IF committed = NoOffset THEN Len(topic) ELSE committed

StartClaim ==
  /\ claim = "down"
  /\ claim' = "running"
  /\ position' = StartPosition
  /\ UNCHANGED <<topic, committed, redis, late, marked, phase, attempts, held,
                 scanned, historyVars, left>>

\* A message that does not unmarshal is marked and skipped.
SkipCorrupt ==
  /\ claim = "running" /\ phase = "idle" /\ position < Len(topic)
  /\ topic[position + 1].kind = "corrupt"
  /\ marked' = position + 1
  /\ position' = position + 1
  /\ UNCHANGED <<topic, committed, redis, late, claim, phase, attempts, held,
                 scanned, historyVars, left>>

Receive ==
  /\ claim = "running" /\ phase = "idle" /\ position < Len(topic)
  /\ topic[position + 1].kind # "corrupt"
  /\ phase' = "call"
  /\ attempts' = 1
  /\ received' = received \cup {position}
  /\ UNCHANGED <<topic, committed, redis, late, claim, position, marked, held,
                 scanned, applied, expired, left>>

(* ProcessEvent.                                                           *)

ReadDelay(ev) ==
  /\ ev.kind \in DelayKinds
  /\ held' = redis[KeyOf(ev)]
  /\ phase' = IF OutOfOrder(redis[KeyOf(ev)], ev) THEN "done" ELSE "write"
  /\ UNCHANGED scanned

\* A skip reads nothing before its DEL.
ReadSkip(ev) ==
  /\ ev.kind = "skip"
  /\ phase' = "write"
  /\ UNCHANGED <<held, scanned>>

ScanTrip(ev) ==
  /\ ev.kind = "cancel"
  /\ scanned' = TripKeys(ev)
  /\ phase' = IF TripKeys(ev) = {} THEN "done" ELSE "write"
  /\ UNCHANGED held

Read ==
  /\ phase = "call"
  /\ ReadDelay(InHand) \/ ReadSkip(InHand) \/ ScanTrip(InHand)
  /\ applied' = IF phase' = "done" THEN applied \cup {position} ELSE applied
  /\ UNCHANGED <<topic, committed, redis, late, claim, position, marked,
                 attempts, received, expired, left>>

Write ==
  /\ phase = "write"
  /\ redis' = Executed(WriteOf(InHand))
  /\ phase' = "done"
  /\ applied' = applied \cup {position}
  /\ UNCHANGED <<topic, committed, late, claim, position, marked, attempts,
                 held, scanned, received, expired, left>>

\* What follows ProcessEvent on a claim that goes on: matching and transfer
\* detection log their errors, so the message is marked whatever they return.
Mark ==
  /\ phase = "done"
  /\ marked' = position + 1
  /\ position' = position + 1
  /\ phase' = "idle" /\ attempts' = 0 /\ held' = NoState /\ scanned' = {}
  /\ UNCHANGED <<topic, committed, redis, late, claim, historyVars, left>>

(* The end of a claim.                                                     *)

\* Faulty variant: the message in hand is marked before it is processed.
FlushedOffsetEarly == position + 1

\* The session's offset manager flushes what was marked.
FlushedOffset == IF marked = NoOffset THEN committed ELSE marked

EndClaim ==
  /\ claim' = "down" /\ marked' = NoOffset
  /\ phase' = "idle" /\ attempts' = 0 /\ held' = NoState /\ scanned' = {}
  /\ committed' = FlushedOffset
  /\ UNCHANGED position

\* withRetry after a failed ProcessEvent: another attempt, or an error that
\* ends the claim with the message unmarked.
RetryOrGiveUp ==
  \/ /\ attempts < RetryAttempts
     /\ attempts' = attempts + 1
     /\ phase' = "call" /\ held' = NoState /\ scanned' = {}
     /\ UNCHANGED <<claim, position, marked, committed>>
  \/ attempts = RetryAttempts /\ EndClaim

CommandFails ==
  /\ phase \in {"call", "write"}
  /\ SpendFault("errors")
  /\ RetryOrGiveUp
  /\ UNCHANGED <<topic, redis, late, historyVars>>

ReplyLost ==
  /\ phase = "write"
  /\ SpendFault("lostReplies")
  /\ redis' = Executed(WriteOf(InHand))
  /\ RetryOrGiveUp
  /\ UNCHANGED <<topic, late, historyVars>>

WriteTimesOut ==
  /\ phase = "write"
  /\ SpendFault("timeouts")
  /\ late' = late \cup {WriteOf(InHand)}
  /\ RetryOrGiveUp
  /\ UNCHANGED <<topic, redis, historyVars>>

\* Rebalance or shutdown: the session context is cancelled, so a message that
\* is not processed yet fails and ends the claim unmarked.
SessionEnds ==
  /\ claim = "running" /\ phase # "done"
  /\ SpendFault("rebalances")
  /\ EndClaim
  /\ UNCHANGED <<topic, redis, late, historyVars>>

\* The process dies: marks that were not committed are lost.
Crash ==
  /\ claim = "running"
  /\ SpendFault("crashes")
  /\ claim' = "down" /\ marked' = NoOffset
  /\ phase' = "idle" /\ attempts' = 0 /\ held' = NoState /\ scanned' = {}
  /\ UNCHANGED <<topic, committed, redis, late, position, historyVars>>

(* The broker, Redis and the producer.                                     *)

\* sarama commits the marked offset every second.
AutoCommit ==
  /\ claim = "running" /\ marked # NoOffset /\ committed # marked
  /\ committed' = marked
  /\ UNCHANGED <<topic, redis, late, claimVars, historyVars, left>>

LateWrite ==
  /\ \E w \in late : redis' = Executed(w) /\ late' = late \ {w}
  /\ UNCHANGED <<topic, committed, claimVars, historyVars, left>>

\* A delay that was not rewritten for keyTTL (two hours) is gone.  How much time
\* passes between two steps is anyone's guess, so it may expire between any two.
Expire ==
  /\ SpendFault("expiries")
  /\ \E k \in Keys :
       /\ redis[k] # NoState
       /\ redis' = [redis EXCEPT ![k] = NoState]
       /\ expired' = expired \cup {k}
  /\ UNCHANGED <<topic, committed, late, claimVars, received, applied>>

Produce ==
  /\ Spend("messages")
  /\ \E ev \in Messages : topic' = Append(topic, ev)
  /\ UNCHANGED <<committed, redis, late, claimVars, historyVars>>

Progress == StartClaim \/ SkipCorrupt \/ Receive \/ Read \/ Write \/ Mark
Faults   == CommandFails \/ ReplyLost \/ WriteTimesOut \/ SessionEnds \/ Crash
Consume  == Progress \/ Faults \/ AutoCommit \/ LateWrite \/ Expire
Next     == Consume \/ Produce

Spec     == Init /\ [][Next]_vars
FairSpec == Spec /\ WF_vars(Progress)
-----------------------------------------------------------------------------
(* What the claim promises.                                                *)

IsCorrupt(o) == o < Len(topic) /\ topic[o + 1].kind = "corrupt"

\* A claim never moves past a message it handed to ProcessEvent and that was
\* not processed: "an outage stalls consumption instead of silently dropping
\* events" (cmd/processor/main.go:249-250).
NoSilentDrop == \A o \in received : o < position => o \in applied

\* The committed offset never covers a message that was not processed, so no
\* crash, rebalance or failed retry loses one.
CommittedApplied ==
  committed # NoOffset =>
    \A o \in 0..(committed - 1) : o \in applied \/ IsCorrupt(o)

\* No command has outlived its client's timeout so far.
NoLateCommand == left["timeouts"] = Budget["timeouts"]

\* While a key exists its observation time never goes back, whatever is
\* redelivered or retried between its GET and its SET (manager.go:94-154), until
\* a SET outlives its client's timeout: Redis may execute that one any time.
NeverRegresses ==
  [][NoLateCommand' =>
       \A k \in Keys : redis[k] # NoState /\ redis'[k] # NoState
         => redis'[k].observedAt >= redis[k].observedAt]_vars

\* "If the stored observed_at is newer than the incoming event's, discard
\* silently" (TRANSIT_ENGINE_SPEC.md:427), of every event type.
StaleEventDiscarded ==
  [][\A k \in Keys : Write /\ redis[k] # NoState /\ redis'[k] # redis[k]
       => InHand.at >= redis[k].observedAt]_vars

\* What processing a message once does to the delays st.
Applied(st, ev) ==
  IF ev.kind \in DelayKinds
  THEN IF OutOfOrder(st[KeyOf(ev)], ev) THEN st
       ELSE [st EXCEPT ![KeyOf(ev)] = Reconcile(@, ev)]
  ELSE [k \in Keys |->
          IF \/ ev.kind = "skip" /\ k = KeyOf(ev)
             \/ ev.kind = "cancel" /\ k[1] = ev.trip
          THEN NoState ELSE st[k]]

\* What one pass over the log, each message processed once, would store.
ProcessedOnce ==
  LET after[n \in 0..Len(topic)] ==
        IF n = 0 THEN [k \in Keys |-> NoState]
        ELSE Applied(after[n - 1], Enriched(topic[n]))
  IN after[Len(topic)]

SameDelay(a, b) ==
  \/ a = NoState /\ b = NoState
  \/ /\ a # NoState /\ b # NoState
     /\ a.delay = b.delay /\ a.observedAt = b.observedAt

Drained ==
  claim = "running" /\ phase = "idle" /\ position = Len(topic) /\ late = {}

\* No two delays published for the key are a dampened jump apart.
Undampened(k) ==
  \A i, j \in 1..Len(topic) :
    /\ topic[i].kind \in DelayKinds /\ KeyOf(topic[i]) = k
    /\ topic[j].kind \in DelayKinds /\ KeyOf(topic[j]) = k
    => AbsDiff(Enriched(topic[i]).delay, Enriched(topic[j]).delay)
         <= SmoothingThreshold

\* At-least-once delivery is invisible in the stored delays: once the log is
\* drained, retries, lost replies, replays after a crash or a rebalance and
\* duplicates have left what processing every message once leaves.  A dampened
\* jump is the exception, as blending twice is not blending once, and so are a
\* command that outlived its client and a key that expired.
ReplayedAsOnce ==
  Drained /\ NoLateCommand =>
    \A k \in Keys \ expired : Undampened(k) => SameDelay(redis[k], ProcessedOnce[k])

\* How late an event says its train is: less than half a day, by the timetable
\* of whichever service day comes closest, when it only names a time; half a day
\* early is as close as half a day late.
Latenesses(ev) ==
  IF ~TimeOnlyEvent(ev) THEN {ev.delay}
  ELSE LET excess == (ev.predicted - ScheduledTime(Timetable[KeyOf(ev)], ev.kind)) % Day
       IN {d \in {excess, excess - Day} : 2 * AbsSecs(d) <= Day}

Published(k) ==
  UNION {Latenesses(topic[i]) : i \in {j \in 1..Len(topic) :
           topic[j].kind \in DelayKinds /\ KeyOf(topic[j]) = k}}

\* Enrichment finds the lateness on either side of midnight, and dampening mixes
\* observations without overshooting: a stored delay lies between two latenesses
\* published for its key.
StoredWithinPublished ==
  \A k \in Keys : redis[k] # NoState =>
    \E least, most \in Published(k) : least <= redis[k].delay /\ redis[k].delay <= most
=============================================================================
