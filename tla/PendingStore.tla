---------------------------- MODULE PendingStore ----------------------------
(***************************************************************************)
(* The life of tracked predictions in Redis (internal/evaluation):         *)
(* TrackPrediction adds them (Add), delay events raise their observed      *)
(* maximum (OnDelayEvent: FindActive, then Update), and sweepers claim the *)
(* expired ones and record their outcome (sweepOnce: PopExpired, then the  *)
(* metrics and the history stores).                                        *)
(*                                                                         *)
(* Ids stands for the predictions of one (agency, route, station), whose   *)
(* match index is one sorted set.  Events of one route arrive on one       *)
(* partition, so one matcher serves them; every processor instance runs a  *)
(* sweeper.  Each Redis command is a step of its own, except the pipelines *)
(* of Add and PopExpired, which may stop after any of their commands.      *)
(***************************************************************************)
EXTENDS Integers, FiniteSets

CONSTANTS
  Ids,          \* predictions
  Sweepers,     \* processor instances
  Events,       \* delay events: the delay, the time observed, the direction
  Baseline,     \* delay already present when the prediction was made
  Direction,    \* direction of the receiving route, -1 when unknown
  Window,       \* predictionWindowSecs
  Slack,        \* what the JSON key's TTL adds to the window
  IndexTTL,     \* pendingIndexTTL
  SweepBatch,   \* sweepBatchSize
  SweepEvery,   \* the sweeper's interval
  Punctual,     \* sweeps run on time and take no time; else at any pace
  MaxTime,      \* bound on the clock
  Gone,         \* an absent key
  Idle,         \* no prediction in hand
  EvalBudget    \* how often each environment event may happen

EvalBudgetKinds ==
  {"events", "addFailures", "getErrors", "delFailures", "updateErrors", "crashes"}

ASSUME PendingAssumption ==
  /\ Events \subseteq [delay : Int, at : Nat, dir : {-1, 0, 1}]
  /\ Baseline \in [Ids -> Int]
  /\ Direction \in [Ids -> {-1, 0, 1}]
  /\ Window \in Nat \ {0} /\ Slack \in Nat \ {0}
  /\ IndexTTL \in Nat /\ IndexTTL > Window
  /\ SweepBatch \in Nat \ {0} /\ SweepEvery \in Nat \ {0}
  /\ Punctual \in BOOLEAN /\ MaxTime \in Nat
  /\ Idle \notin Ids
  /\ EvalBudget \in [EvalBudgetKinds -> Nat]

\* ObservedMax of a matched prediction; -1 while Matched is false.
Unmatched == -1
Observed  == Int
Pending   == [seen : Observed, until : Nat]

ASSUME GoneAssumption == Gone \notin Pending /\ Gone \notin Observed

VARIABLES
  now,       \* wall clock
  json,      \* pending:pred:{id}: Pending or Gone
  index,     \* members of pending:idx
  idxUntil,  \* when the index expires
  expiry,    \* members of pending:expiry
  expiresAt, \* the score of an id in both sorted sets
  added,     \* ids TrackPrediction tried to add
  match,     \* the matcher: its step, the event, ids to get, copies read
  step,      \* each sweeper's step
  todo,      \* ids its ZRANGE returned and it has not tried to claim
  cur,       \* the id it claimed and is fetching
  popped,    \* what it read of the ids it claimed, or Gone
  outcome,   \* the observed maximum an id was finalized with, or Gone
  acked,     \* history: the largest observation an Update acknowledged
  swept,     \* when a sweep last ended
  evalLeft   \* remaining budget

storeVars == <<json, index, idxUntil, expiry, expiresAt, added>>
sweepVars == <<step, todo, cur, popped, outcome, swept>>
evalVars  == <<now, storeVars, match, sweepVars, acked, evalLeft>>

SpendEval(what) ==
  evalLeft[what] > 0 /\ evalLeft' = [evalLeft EXCEPT ![what] = @ - 1]

\* Beyond the clock's bound: the expiry of a key without a TTL.
Never == MaxTime + 1

Larger(a, b) == IF a > b THEN a ELSE b

NoMatch == [step |-> "idle", event |-> Idle, ids |-> {}, copies |-> [i \in Ids |-> Gone]]

-----------------------------------------------------------------------------
PendingTypeOK ==
  /\ now \in Nat
  /\ json \in [Ids -> Pending \cup {Gone}]
  /\ index \in SUBSET Ids /\ idxUntil \in Nat
  /\ expiry \in SUBSET Ids
  /\ expiresAt \in [Ids -> Nat]
  /\ added \in SUBSET Ids
  /\ match \in [step : {"idle", "get", "update"}, event : Events \cup {Idle},
                ids : SUBSET Ids, copies : [Ids -> Observed \cup {Gone}]]
  /\ step \in [Sweepers -> {"idle", "claim", "get", "delete", "record"}]
  /\ todo \in [Sweepers -> SUBSET Ids]
  /\ \A s \in Sweepers : step[s] \in {"idle", "record"} => todo[s] = {}
  /\ cur \in [Sweepers -> Ids \cup {Idle}]
  /\ popped \in [Sweepers -> [Ids -> Observed \cup {Gone}]]
  /\ outcome \in [Ids -> Observed \cup {Gone}]
  /\ acked \in [Ids -> Observed]
  /\ swept \in Nat
  /\ evalLeft \in [EvalBudgetKinds -> Nat]

PendingInit ==
  /\ now = 0
  /\ json = [i \in Ids |-> Gone]
  /\ index = {} /\ idxUntil = 0 /\ expiry = {}
  /\ expiresAt = [i \in Ids |-> 0]
  /\ added = {}
  /\ match = NoMatch
  /\ step = [s \in Sweepers |-> "idle"]
  /\ todo = [s \in Sweepers |-> {}]
  /\ cur = [s \in Sweepers |-> Idle]
  /\ popped = [s \in Sweepers |-> [i \in Ids |-> Gone]]
  /\ outcome = [i \in Ids |-> Gone]
  /\ acked = [i \in Ids |-> Unmatched]
  /\ swept = 0
  /\ evalLeft = EvalBudget

-----------------------------------------------------------------------------
(* Tracking.                                                               *)

\* IDs are unique by nanoseconds and a sequence number, so each is added once.
Fresh(id) == id \notin added /\ now + Window + Slack < MaxTime

\* Faulty variant: the index keeps the TTL its first member gave it.
IndexUntilFirst(n) == IF n >= 3 /\ index = {} THEN now + IndexTTL ELSE idxUntil

\* When the index expires after n commands of Add: EXPIRE is the third, and a
\* sorted set created by the second has no TTL yet.
IndexUntil(n) == IF n >= 3 THEN now + IndexTTL
                 ELSE IF n = 2 /\ index = {} THEN Never ELSE idxUntil

\* Add's pipeline up to its n-th command: SET, ZADD index, EXPIRE, ZADD expiry.
AddCommands(id, n) ==
  /\ added' = added \cup {id}
  /\ expiresAt' = [expiresAt EXCEPT ![id] = now + Window]
  /\ json' = [json EXCEPT ![id] =
       IF n >= 1 THEN [seen |-> Unmatched, until |-> now + Window + Slack] ELSE @]
  /\ index' = IF n >= 2 THEN index \cup {id} ELSE index
  /\ idxUntil' = IndexUntil(n)
  /\ expiry' = IF n >= 4 THEN expiry \cup {id} ELSE expiry

Add(id) ==
  /\ Fresh(id)
  /\ AddCommands(id, 4)
  /\ UNCHANGED <<now, match, sweepVars, acked, evalLeft>>

AddFails(id) ==
  /\ Fresh(id)
  /\ SpendEval("addFailures")
  /\ \E n \in 0..3 : AddCommands(id, n)
  /\ UNCHANGED <<now, match, sweepVars, acked>>

-----------------------------------------------------------------------------
(* Matching: OnDelayEvent.                                                 *)

\* FindActive's index read.
Active == {id \in index : expiresAt[id] >= now}

EventArrives(ev) ==
  /\ match.step = "idle"
  /\ SpendEval("events")
  /\ match' = IF Active = {} THEN NoMatch
              ELSE [NoMatch EXCEPT !.step = "get", !.event = ev, !.ids = Active]
  /\ UNCHANGED <<now, storeVars, sweepVars, acked>>

\* FindActive's get of one id; one that fails is left out.
GetPending(id) ==
  /\ match.step = "get" /\ id \in match.ids
  /\ match' = [match EXCEPT
       !.step = IF match.ids = {id} THEN "update" ELSE "get",
       !.ids = @ \ {id},
       !.copies[id] = IF json[id] = Gone THEN Gone ELSE json[id].seen]
  /\ UNCHANGED <<now, storeVars, sweepVars, acked, evalLeft>>

Additional(ev, id) == Larger(ev.delay - Baseline[id], 0)

\* expiresAt is fixed at Add, so the copy's window is the stored one.
InWindow(ev, id) == expiresAt[id] - Window <= ev.at /\ ev.at <= expiresAt[id]

OtherDirection(ev, id) ==
  Direction[id] >= 0 /\ ev.dir >= 0 /\ ev.dir # Direction[id]

\* Faulty variant: the last observation wins instead of the largest.
RaisesAlways(ev, id, copy) == InWindow(ev, id) /\ ~OtherDirection(ev, id)

\* The copy is to be rewritten with this event's additional delay.
Raises(ev, id, copy) ==
  /\ InWindow(ev, id) /\ ~OtherDirection(ev, id)
  /\ Additional(ev, id) > copy

Handled(id) ==
  LET copies == [match.copies EXCEPT ![id] = Gone] IN
  match' = IF \A i \in Ids : copies[i] = Gone THEN NoMatch
           ELSE [match EXCEPT !.copies = copies]

\* Faulty variant: SET without XX.
RewrittenAnyway(id, seen) ==
  [json EXCEPT ![id] = [seen |-> seen,
                        until |-> IF json[id] = Gone THEN Never ELSE json[id].until]]

\* SET XX KEEPTTL: nothing is written when the key is gone.
Rewritten(id, seen) ==
  IF json[id] = Gone THEN json
  ELSE [json EXCEPT ![id] = [seen |-> seen, until |-> json[id].until]]

\* One turn of the loop over the copies.
UpdatePending(id) ==
  /\ match.step = "update" /\ match.copies[id] # Gone
  /\ IF Raises(match.event, id, match.copies[id])
     THEN LET seen == Additional(match.event, id) IN
          /\ json' = Rewritten(id, seen)
          /\ acked' = IF json[id] = Gone THEN acked
                      ELSE [acked EXCEPT ![id] = Larger(acked[id], seen)]
     ELSE UNCHANGED <<json, acked>>
  /\ Handled(id)
  /\ UNCHANGED <<now, index, idxUntil, expiry, expiresAt, added, sweepVars, evalLeft>>

\* A failed Update is reported and the loop goes on.
UpdateFails(id) ==
  /\ match.step = "update" /\ match.copies[id] # Gone
  /\ Raises(match.event, id, match.copies[id])
  /\ SpendEval("updateErrors")
  /\ Handled(id)
  /\ UNCHANGED <<now, storeVars, sweepVars, acked>>

NothingRead ==
  /\ match.step = "update" /\ \A i \in Ids : match.copies[i] = Gone
  /\ match' = NoMatch
  /\ UNCHANGED <<now, storeVars, sweepVars, acked, evalLeft>>

-----------------------------------------------------------------------------
(* Sweeping: sweepOnce.                                                    *)

\* Faulty variant: a prediction expires one unit late.
ExpiredLate == {id \in expiry : expiresAt[id] < now}

Expired == {id \in expiry : expiresAt[id] <= now}

\* Faulty variant: one id per sweep.
BatchesOfOne == {{i} : i \in Expired}

\* ZRANGEBYSCORE ... LIMIT: the batch with the lowest scores.
Batches ==
  {b \in SUBSET Expired :
     /\ Cardinality(b) = SweepBatch \/ (b = Expired /\ Cardinality(b) < SweepBatch)
     /\ \A i \in b, j \in Expired \ b : expiresAt[i] <= expiresAt[j]}

StartSweep(s) ==
  /\ step[s] = "idle"
  /\ IF Expired = {}
     THEN swept' = now /\ UNCHANGED <<step, todo>>
     ELSE /\ \E b \in Batches : todo' = [todo EXCEPT ![s] = b]
          /\ step' = [step EXCEPT ![s] = "claim"]
          /\ UNCHANGED swept
  /\ UNCHANGED <<now, storeVars, match, cur, popped, outcome, acked, evalLeft>>

\* Faulty variant: what ZREM returned is ignored.
ClaimUnchecked(s, id) ==
  /\ step[s] = "claim" /\ id \in todo[s]
  /\ todo' = [todo EXCEPT ![s] = @ \ {id}]
  /\ cur' = [cur EXCEPT ![s] = id]
  /\ step' = [step EXCEPT ![s] = "get"]
  /\ expiry' = expiry \ {id}
  /\ UNCHANGED <<now, json, index, idxUntil, expiresAt, added, match, popped,
                 outcome, acked, swept, evalLeft>>

\* ZREM: only the sweeper that removes the id goes on with it.
Claim(s, id) ==
  /\ step[s] = "claim" /\ id \in todo[s]
  /\ todo' = [todo EXCEPT ![s] = @ \ {id}]
  /\ IF id \in expiry
     THEN /\ cur' = [cur EXCEPT ![s] = id]
          /\ step' = [step EXCEPT ![s] = "get"]
     ELSE UNCHANGED <<cur, step>>
  /\ expiry' = expiry \ {id}
  /\ UNCHANGED <<now, json, index, idxUntil, expiresAt, added, match, popped,
                 outcome, acked, swept, evalLeft>>

Fetch(s) ==
  /\ step[s] = "get" /\ json[cur[s]] # Gone
  /\ popped' = [popped EXCEPT ![s][cur[s]] = json[cur[s]].seen]
  /\ step' = [step EXCEPT ![s] = "delete"]
  /\ UNCHANGED <<now, storeVars, match, todo, cur, outcome, acked, swept, evalLeft>>

\* Any error of the get: the id stays claimed and is not finalized.
Abandon(s) ==
  /\ step[s] = "get"
  /\ IF json[cur[s]] = Gone THEN UNCHANGED evalLeft ELSE SpendEval("getErrors")
  /\ cur' = [cur EXCEPT ![s] = Idle]
  /\ step' = [step EXCEPT ![s] = "claim"]
  /\ UNCHANGED <<now, storeVars, match, todo, popped, outcome, acked, swept>>

\* The pipeline ZREM index, DEL; its errors are ignored.
Delete(s) ==
  /\ step[s] = "delete"
  /\ \/ /\ index' = index \ {cur[s]}
        /\ json' = [json EXCEPT ![cur[s]] = Gone]
        /\ UNCHANGED evalLeft
     \/ /\ SpendEval("delFailures")
        /\ index' \in {index, index \ {cur[s]}}
        /\ UNCHANGED json
  /\ cur' = [cur EXCEPT ![s] = Idle]
  /\ step' = [step EXCEPT ![s] = "claim"]
  /\ UNCHANGED <<now, idxUntil, expiry, expiresAt, added, match, todo, popped,
                 outcome, acked, swept>>

\* Faulty variant: the loop is left before the batch is through.
AllTriedEarly(s) ==
  /\ step[s] = "claim"
  /\ step' = [step EXCEPT ![s] = "record"]
  /\ UNCHANGED <<now, storeVars, match, todo, cur, popped, outcome, acked, swept,
                 evalLeft>>

AllTried(s) ==
  /\ step[s] = "claim" /\ todo[s] = {}
  /\ step' = [step EXCEPT ![s] = "record"]
  /\ UNCHANGED <<now, storeVars, match, todo, cur, popped, outcome, acked, swept,
                 evalLeft>>

\* Outcome metrics and the history stores, whose errors are only logged.  (For
\* a primary the realized wait, read off the schedule, replaces the observed
\* maximum in the verdict; it does not depend on this module's state.)
Record(s, id) ==
  /\ step[s] = "record" /\ popped[s][id] # Gone
  /\ outcome' = [outcome EXCEPT ![id] = popped[s][id]]
  /\ popped' = [popped EXCEPT ![s][id] = Gone]
  /\ UNCHANGED <<now, storeVars, match, step, todo, cur, acked, swept, evalLeft>>

EndSweep(s) ==
  /\ step[s] = "record" /\ \A i \in Ids : popped[s][i] = Gone
  /\ step' = [step EXCEPT ![s] = "idle"]
  /\ swept' = now
  /\ UNCHANGED <<now, storeVars, match, todo, cur, popped, outcome, acked, evalLeft>>

-----------------------------------------------------------------------------
(* Time, and processes that die.                                           *)

SweepsKeepUp ==
  now - swept < SweepEvery /\ \A s \in Sweepers : step[s] = "idle"

\* Redis evicts what reached its TTL.
Tick ==
  /\ now < MaxTime
  /\ Punctual => SweepsKeepUp
  /\ now' = now + 1
  /\ json' = [i \in Ids |-> IF json[i] # Gone /\ json[i].until <= now' THEN Gone
                            ELSE json[i]]
  /\ index' = IF idxUntil <= now' THEN {} ELSE index
  /\ UNCHANGED <<idxUntil, expiry, expiresAt, added, match, sweepVars, acked, evalLeft>>

SweeperDies(s) ==
  /\ step[s] # "idle"
  /\ SpendEval("crashes")
  /\ step' = [step EXCEPT ![s] = "idle"]
  /\ todo' = [todo EXCEPT ![s] = {}]
  /\ cur' = [cur EXCEPT ![s] = Idle]
  /\ popped' = [popped EXCEPT ![s] = [i \in Ids |-> Gone]]
  /\ UNCHANGED <<now, storeVars, match, outcome, acked, swept>>

MatcherDies ==
  /\ match.step # "idle"
  /\ SpendEval("crashes")
  /\ match' = NoMatch
  /\ UNCHANGED <<now, storeVars, sweepVars, acked>>

Tracking == \E id \in Ids : Add(id) \/ AddFails(id)
Matching == \/ \E ev \in Events : EventArrives(ev)
            \/ \E id \in Ids : GetPending(id) \/ UpdatePending(id) \/ UpdateFails(id)
            \/ NothingRead \/ MatcherDies
SweepStep(s) == \/ StartSweep(s) \/ Fetch(s) \/ Abandon(s) \/ Delete(s)
                \/ AllTried(s) \/ EndSweep(s)
                \/ \E id \in Ids : Claim(s, id) \/ Record(s, id)
Sweeping == \E s \in Sweepers : SweepStep(s) \/ SweeperDies(s)

PendingNext == Tracking \/ Matching \/ Sweeping \/ Tick

PendingSpec == PendingInit /\ [][PendingNext]_evalVars
PendingFairSpec ==
  /\ PendingSpec
  /\ WF_evalVars(Tick)
  /\ \A s \in Sweepers : WF_evalVars(SweepStep(s))
-----------------------------------------------------------------------------
(* What the store promises.                                                *)

\* A prediction's outcome is recorded at most once, however many sweepers run:
\* the claim "guards against concurrent sweepers" (pending.go:160-161).
FinalizedOnce ==
  [][\A s \in Sweepers, id \in Ids : Record(s, id) => outcome[id] = Gone]_evalVars

\* Sweeper s claimed id and has not recorded its outcome.
Holds(s, id) == (step[s] = "get" /\ cur[s] = id) \/ popped[s][id] # Gone

\* A prediction is in one place at a time, whatever fails or dies: not added
\* yet, queued, in the hands of a single sweeper, or judged.
SingleOwner ==
  \A id \in Ids :
    /\ id \notin added => id \notin expiry /\ json[id] = Gone
    /\ id \in expiry => outcome[id] = Gone
    /\ \A s \in Sweepers : Holds(s, id) =>
         /\ id \in added \ expiry
         /\ outcome[id] = Gone
         /\ \A t \in Sweepers : Holds(t, id) => t = s
    /\ outcome[id] # Gone => id \in added

\* Once a pending key is gone nothing brings it back, in particular no Update
\* that read it before the sweeper deleted it: it "would leave an un-indexed key
\* with no TTL" (pending.go:125-129).
NoResurrection ==
  [][\A id \in added : json[id] = Gone => json'[id] = Gone]_evalVars

\* An acknowledged observation is never overwritten by a smaller one, although
\* Update rewrites a copy read earlier; so what a sweep pops is the maximum.
ObservationsKept ==
  \A id \in Ids : json[id] # Gone => json[id].seen >= acked[id]

\* A prediction that was added and whose window is open is found by every
\* event: the index does not expire under it (pending.go:22-26).
ActiveFindable ==
  \A id \in expiry : expiresAt[id] >= now => id \in index /\ json[id] # Gone

\* With sweeps on time and bursts a batch per interval can drain within the
\* slack, no JSON key reaches its TTL while its prediction waits in the queue.
NoneEvictedUnswept ==
  \A id \in expiry : json[id] # Gone

\* "JSON key already TTL-evicted; nothing to finalize" (pending.go:168): a
\* sweeper drops an id it claimed only when there was nothing left to finalize.
AbandonedOnlyIfEvicted ==
  [][\A s \in Sweepers : Abandon(s) => json[cur[s]] = Gone]_evalVars

\* Every prediction that was added gets an outcome.
EveryPredictionJudged ==
  \A id \in Ids : id \in expiry ~> outcome[id] # Gone
-----------------------------------------------------------------------------
(* The abstract life of a prediction, read off the store.                  *)

Waiting(id) == id \in expiry \/ \E s \in Sweepers : cur[s] = id /\ step[s] = "get"
Holder(id)  == {s \in Sweepers : popped[s][id] # Gone}

StageOf(id) ==
  IF id \notin added THEN "new"
  ELSE IF outcome[id] # Gone THEN "judged"
  ELSE IF Holder(id) # {} THEN "decided"
  ELSE IF json[id] # Gone /\ Waiting(id) THEN "tracked"
  ELSE "lost"

BestOf(id) ==
  CASE StageOf(id) = "tracked" -> json[id].seen
    [] StageOf(id) = "decided" -> popped[CHOOSE s \in Holder(id) : TRUE][id]
    [] StageOf(id) = "judged"  -> outcome[id]
    [] OTHER                   -> Gone

Abstract == INSTANCE PredictionLifecycle
              WITH None <- Gone,
                   stage <- [i \in Ids |-> StageOf(i)],
                   best <- [i \in Ids |-> BestOf(i)]

\* Whatever the order in which trackers, the matcher and the sweepers interleave,
\* expire and die, each prediction lives the abstract life: observations only
\* raise it, it is decided once, and judged at most once with what was decided.
ImplementsLifecycle == Abstract!Lifecycle
=============================================================================
