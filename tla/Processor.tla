------------------------------ MODULE Processor ------------------------------
(***************************************************************************)
(* The goroutines of one processor (cmd/processor/main.go): a ConsumeClaim *)
(* per owned partition, the propagation goroutines they spawn under        *)
(* propSem and propWG, the lag monitor that toggles catch-up mode, the     *)
(* other background goroutines, and main, which re-enters Consume until a  *)
(* signal arrives and then joins everything.                               *)
(*                                                                         *)
(* What an event does to Redis is DelayConsumer's business; here a message *)
(* is processed or fails, and yields a number of broken transfers.         *)
(***************************************************************************)
EXTENDS Integers, FiniteSets, FiniteSetsExt

CONSTANTS
  Partitions,
  Slots,         \* capacity of propSem (maxConcurrentPropagations)
  EnterLag,      \* catchUpEnterLag
  ExitLag,       \* catchUpExitLag
  MaxBroken,     \* broken transfers one event may yield
  InitialBacklog,\* messages waiting in each partition at start
  ProcBudget     \* how often each environment event may happen

ProcBudgetKinds == {"messages", "failures", "rebalances", "signals"}

ASSUME ProcessorAssumption ==
  /\ EnterLag \in Nat /\ ExitLag \in Nat /\ ExitLag <= EnterLag
  /\ MaxBroken \in Nat /\ InitialBacklog \in Nat
  /\ IsFiniteSet(Partitions) /\ IsFiniteSet(Slots)
  /\ ProcBudget \in [ProcBudgetKinds -> Nat]

\* reportStats, which only logs, comes and goes with the sweeper.
Background == {"monitor", "sweeper", "errors"}

\* Faulty variant: the errors drain is joined as well.
JoinedAll == Background

\* The errors drain ends only at the deferred client.Close(), so main does not
\* wait for it.
Joined == {"monitor", "sweeper"}

VARIABLES
  backlog,   \* messages of each partition not yet marked
  lags,      \* partitionLags, or NoLag
  owned,     \* partitions of the current session
  worker,    \* each partition's ConsumeClaim
  broken,    \* broken transfers it has still to hand out
  session,   \* "none", "live", or "cancelled" and closing
  slot,      \* each propagation goroutine: its step and whether its ctx is live
  catchUp,   \* the mode
  alive,     \* background goroutines that have not returned
  main,      \* where main is
  stopping,  \* the signal context is done
  untracked, \* history: results published although TrackPrediction failed
  procLeft   \* remaining budget

procVars == <<backlog, lags, owned, worker, broken, session, slot, catchUp,
              alive, main, stopping, untracked, procLeft>>

NoLag == -1
Free  == [step |-> "free", live |-> FALSE]

SpendProc(what) ==
  procLeft[what] > 0 /\ procLeft' = [procLeft EXCEPT ![what] = @ - 1]

Cancelled(slots) == [i \in Slots |-> [slots[i] EXCEPT !.live = FALSE]]

ProcTypeOK ==
  /\ backlog \in [Partitions -> Nat]
  /\ lags \in [Partitions -> Nat \cup {NoLag}]
  /\ owned \in SUBSET Partitions
  /\ worker \in [Partitions -> {"off", "idle", "handling", "spawning"}]
  /\ \A p \in Partitions : worker[p] # "off" => session # "none" /\ p \in owned
  /\ broken \in [Partitions -> 0..MaxBroken]
  /\ session \in {"none", "live", "cancelled"}
  /\ slot \in [Slots -> [step : {"free", "propagate", "track", "publish"}, live : BOOLEAN]]
  /\ catchUp \in BOOLEAN /\ stopping \in BOOLEAN /\ untracked \in BOOLEAN
  /\ alive \in SUBSET Background
  /\ main \in {"consuming", "joining", "draining", "exited"}
  /\ procLeft \in [ProcBudgetKinds -> Nat]

ProcInit ==
  /\ backlog = [p \in Partitions |-> InitialBacklog]
  /\ lags = [p \in Partitions |-> NoLag]
  /\ owned = {} /\ session = "none"
  /\ worker = [p \in Partitions |-> "off"]
  /\ broken = [p \in Partitions |-> 0]
  /\ slot = [i \in Slots |-> Free]
  /\ catchUp = FALSE /\ stopping = FALSE /\ untracked = FALSE
  /\ alive = Background
  /\ main = "consuming"
  /\ procLeft = ProcBudget

-----------------------------------------------------------------------------
(* The consumer-group session.                                             *)

\* The group may give this member any share of the partitions.
OpenSession ==
  /\ main = "consuming" /\ session = "none" /\ ~stopping
  /\ \E share \in SUBSET Partitions :
       /\ share # {}
       /\ owned' = share
       /\ worker' = [p \in Partitions |-> IF p \in share THEN "idle" ELSE "off"]
  /\ session' = "live"
  /\ UNCHANGED <<backlog, lags, broken, slot, catchUp, alive, main, stopping,
                 untracked, procLeft>>

\* Cancelling the session cancels the context its propagations run under.
CancelSession == session' = "cancelled" /\ slot' = Cancelled(slot)

\* Faulty variant: the partition's lag stays.
ClaimReturnsLagging(p) ==
  /\ worker' = [worker EXCEPT ![p] = "off"]
  /\ broken' = [broken EXCEPT ![p] = 0]
  /\ UNCHANGED lags

\* ConsumeClaim returns; its deferred function drops the partition's lag.
ClaimReturns(p) ==
  /\ worker' = [worker EXCEPT ![p] = "off"]
  /\ lags' = [lags EXCEPT ![p] = NoLag]
  /\ broken' = [broken EXCEPT ![p] = 0]

Rebalance ==
  /\ session = "live"
  /\ SpendProc("rebalances")
  /\ CancelSession
  /\ UNCHANGED <<backlog, lags, owned, worker, broken, catchUp, alive, main,
                 stopping, untracked>>

\* The message channel of a cancelled session is closed.
ClaimCloses(p) ==
  /\ session = "cancelled" /\ worker[p] = "idle"
  /\ ClaimReturns(p)
  /\ UNCHANGED <<backlog, owned, session, slot, catchUp, alive, main, stopping,
                 untracked, procLeft>>

\* Faulty variant: Consume does not wait for the claims.
CloseSessionEarly ==
  /\ session = "cancelled"
  /\ session' = "none" /\ owned' = {}
  /\ UNCHANGED <<backlog, lags, worker, broken, slot, catchUp, alive, main,
                 stopping, untracked, procLeft>>

\* Consume returns when every claim has.
CloseSession ==
  /\ session = "cancelled" /\ \A p \in Partitions : worker[p] = "off"
  /\ session' = "none" /\ owned' = {}
  /\ UNCHANGED <<backlog, lags, worker, broken, slot, catchUp, alive, main,
                 stopping, untracked, procLeft>>

-----------------------------------------------------------------------------
(* ConsumeClaim.                                                           *)

Receive(p) ==
  /\ session # "none" /\ worker[p] = "idle" /\ backlog[p] > 0
  /\ lags' = [lags EXCEPT ![p] = backlog[p] - 1]
  /\ worker' = [worker EXCEPT ![p] = "handling"]
  /\ UNCHANGED <<backlog, owned, broken, session, slot, catchUp, alive, main,
                 stopping, untracked, procLeft>>

\* Redis is unreachable, or the session is over: the claim ends with the message
\* unmarked, and its return cancels the session.
ProcessFails(p) ==
  /\ worker[p] = "handling"
  /\ IF session = "cancelled" THEN UNCHANGED procLeft ELSE SpendProc("failures")
  /\ ClaimReturns(p)
  /\ CancelSession
  /\ UNCHANGED <<backlog, owned, catchUp, alive, main, stopping, untracked>>

\* In catch-up mode detection and propagation are skipped.
ProcessOk(p) ==
  /\ worker[p] = "handling" /\ session = "live"
  /\ worker' = [worker EXCEPT ![p] = "spawning"]
  /\ \E n \in 0..MaxBroken :
       /\ catchUp => n = 0
       /\ broken' = [broken EXCEPT ![p] = n]
  /\ UNCHANGED <<backlog, lags, owned, session, slot, catchUp, alive, main,
                 stopping, untracked, procLeft>>

FreeSlots == {i \in Slots : slot[i] = Free}

\* Faulty variant: a full semaphore blocks.
SpawnBlocking(p) ==
  /\ worker[p] = "spawning" /\ broken[p] > 0 /\ FreeSlots # {}
  /\ LET i == CHOOSE x \in FreeSlots : TRUE IN
     slot' = [slot EXCEPT ![i] = [step |-> "propagate", live |-> session = "live"]]
  /\ broken' = [broken EXCEPT ![p] = @ - 1]
  /\ UNCHANGED <<backlog, lags, owned, worker, session, catchUp, alive, main,
                 stopping, untracked, procLeft>>

\* Acquire or shed: a full semaphore drops the propagation.
Spawn(p) ==
  /\ worker[p] = "spawning" /\ broken[p] > 0
  /\ IF FreeSlots = {} THEN UNCHANGED slot
     ELSE LET i == CHOOSE x \in FreeSlots : TRUE IN
          slot' = [slot EXCEPT ![i] =
                     [step |-> "propagate", live |-> session = "live"]]
  /\ broken' = [broken EXCEPT ![p] = @ - 1]
  /\ UNCHANGED <<backlog, lags, owned, worker, session, catchUp, alive, main,
                 stopping, untracked, procLeft>>

MarkDone(p) ==
  /\ worker[p] = "spawning" /\ broken[p] = 0
  /\ backlog' = [backlog EXCEPT ![p] = @ - 1]
  /\ worker' = [worker EXCEPT ![p] = "idle"]
  /\ UNCHANGED <<lags, owned, broken, session, slot, catchUp, alive, main,
                 stopping, untracked, procLeft>>

-----------------------------------------------------------------------------
(* runPropagation.                                                         *)

SlotStep(i, from, to) ==
  slot[i].step = from /\ slot' = [slot EXCEPT ![i] = to]

\* A cancelled context only degrades Propagate: no live delays, no history.
Propagate(i) ==
  /\ \/ SlotStep(i, "propagate", [slot[i] EXCEPT !.step = "track"])
     \/ SlotStep(i, "propagate", Free)  \* no downstream impacts
  /\ UNCHANGED untracked

\* TrackPrediction's writes need a live context; its error is only logged.
TrackResult(i) ==
  /\ SlotStep(i, "track", [slot[i] EXCEPT !.step = "publish"])
  /\ untracked' = (untracked \/ ~slot[i].live)

\* The publisher ignores the context.
PublishResult(i) == SlotStep(i, "publish", Free) /\ UNCHANGED untracked

RunPropagation(i) ==
  /\ Propagate(i) \/ TrackResult(i) \/ PublishResult(i)
  /\ UNCHANGED <<backlog, lags, owned, worker, broken, session, catchUp, alive,
                 main, stopping, procLeft>>

-----------------------------------------------------------------------------
(* monitorLag.                                                             *)

SumLags == FoldSet(LAMBDA p, n : IF lags[p] = NoLag THEN n ELSE lags[p] + n,
                   0, Partitions)

MonitorLag ==
  /\ "monitor" \in alive
  /\ \/ SumLags > EnterLag /\ ~catchUp /\ catchUp' = TRUE
     \/ SumLags < ExitLag /\ catchUp /\ catchUp' = FALSE
  /\ UNCHANGED <<backlog, lags, owned, worker, broken, session, slot, alive, main,
                 stopping, untracked, procLeft>>

-----------------------------------------------------------------------------
(* main: the signal, the consume loop, the joins.                          *)

Signal ==
  /\ ~stopping
  /\ SpendProc("signals")
  /\ stopping' = TRUE
  /\ IF session = "live" THEN CancelSession ELSE UNCHANGED <<session, slot>>
  /\ UNCHANGED <<backlog, lags, owned, worker, broken, catchUp, alive, main, untracked>>

\* Faulty variant: main goes on to the joins while Consume still runs.
LeaveLoopEarly ==
  /\ main = "consuming" /\ stopping
  /\ main' = "joining"
  /\ UNCHANGED <<backlog, lags, owned, worker, broken, session, slot, catchUp,
                 alive, stopping, untracked, procLeft>>

LeaveLoop ==
  /\ main = "consuming" /\ stopping /\ session = "none"
  /\ main' = "joining"
  /\ UNCHANGED <<backlog, lags, owned, worker, broken, session, slot, catchUp,
                 alive, stopping, untracked, procLeft>>

\* wg.Wait()
JoinBackground ==
  /\ main = "joining" /\ alive \cap Joined = {}
  /\ main' = "draining"
  /\ UNCHANGED <<backlog, lags, owned, worker, broken, session, slot, catchUp,
                 alive, stopping, untracked, procLeft>>

\* propWG.Wait(), then the deferred closes.
DrainPropagations ==
  /\ main = "draining" /\ FreeSlots = Slots
  /\ main' = "exited"
  /\ UNCHANGED <<backlog, lags, owned, worker, broken, session, slot, catchUp,
                 alive, stopping, untracked, procLeft>>

BackgroundReturns(b) ==
  /\ b \in alive
  /\ IF b = "errors" THEN main = "exited" ELSE stopping
  /\ alive' = alive \ {b}
  /\ UNCHANGED <<backlog, lags, owned, worker, broken, session, slot, catchUp,
                 main, stopping, untracked, procLeft>>

\* New messages in a partition; the ones it leaves behind go to other members.
Produce(p) ==
  /\ SpendProc("messages")
  /\ backlog' = [backlog EXCEPT ![p] = @ + 1]
  /\ UNCHANGED <<lags, owned, worker, broken, session, slot, catchUp, alive, main,
                 stopping, untracked>>

WorkerStep(p) == ClaimCloses(p) \/ Receive(p) \/ ProcessOk(p) \/ Spawn(p)
                   \/ MarkDone(p) \/ (session = "cancelled" /\ ProcessFails(p))
MainStep   == OpenSession \/ CloseSession \/ LeaveLoop \/ JoinBackground
                \/ DrainPropagations

ProcNext ==
  \/ MainStep \/ Rebalance \/ Signal \/ MonitorLag
  \/ \E p \in Partitions : WorkerStep(p) \/ ProcessFails(p) \/ Produce(p)
  \/ \E i \in Slots : RunPropagation(i)
  \/ \E b \in Background : BackgroundReturns(b)

ProcSpec == ProcInit /\ [][ProcNext]_procVars

\* Go schedules every runnable goroutine; only a propagation may hang in a Redis
\* or Kafka call for ever.
ProcFairSpec ==
  /\ ProcSpec
  /\ \A p \in Partitions : WF_procVars(WorkerStep(p))
  /\ WF_procVars(MainStep)
  /\ WF_procVars(MonitorLag)
  /\ \A b \in Background : WF_procVars(BackgroundReturns(b))

PropagationsReturn == \A i \in Slots : WF_procVars(RunPropagation(i))

-----------------------------------------------------------------------------
(* What the processor promises.                                            *)

\* propWG.Add never races propWG.Wait: once main waits for the propagations, no
\* claim is left that could start another.
NoAddAfterWait ==
  main \in {"draining", "exited"} => \A p \in Partitions : worker[p] = "off"

\* Shutdown ends: no goroutine main joins waits for something only main's exit
\* brings about (main.go:134-137), and every propagation gives its slot back, if
\* none hangs.
ShutdownCompletes == PropagationsReturn => (stopping ~> main = "exited")

\* Propagations that hang do not stall consumption: "blocking here would stall
\* consumption during exactly the storms that produce the load" (main.go:278-279).
StormDoesNotStall ==
  \A p \in Partitions : worker[p] \in {"handling", "spawning"}
    ~> worker[p] \in {"idle", "off"}

\* Catch-up mode ends once the backlog is consumed, also when a partition with a
\* large lag was rebalanced away: it "must not linger in the lag sum"
\* (main.go:219-220).
CatchUpEnds == catchUp ~> (~catchUp \/ stopping)

\* "Resume full processing when lag drops below 100" (TRANSIT_ENGINE_SPEC.md:614):
\* catch-up mode is not left while that many messages are waiting.
ResumesWhenDrained ==
  [][catchUp /\ ~catchUp' =>
       \A p \in owned : backlog[p] <= ExitLag]_procVars

\* "Let in-flight propagation goroutines finish writing predictions"
\* (main.go:192): a result that is published was also tracked.
InFlightTracked == ~untracked
=============================================================================
