--------------------------- MODULE ProcessorProofs ---------------------------
(***************************************************************************)
(* Proofs about Processor, for any partitions, slots, thresholds and       *)
(* budgets: its types, and the order in which shutdown joins the claims    *)
(* before it waits for the propagations they start.                        *)
(***************************************************************************)
EXTENDS Processor, TLAPS

\* main leaves the consume loop after a signal, with no session left, and a claim
\* that has a message in hand has not yet taken it off the backlog.
LoopOK  == main # "consuming" => stopping /\ session = "none"
InHandOK == \A p \in Partitions : worker[p] \in {"handling", "spawning"} => backlog[p] > 0

ProcInv == ProcTypeOK /\ LoopOK /\ InHandOK

-----------------------------------------------------------------------------
Steps == {"free", "propagate", "track", "publish"}
Jobs  == [step : Steps, live : BOOLEAN]

\* The jobs of the slots have their types,
LEMMA JobType ==
  /\ Free \in Jobs
  /\ \A job \in Jobs, to \in Steps : [job EXCEPT !.step = to] \in Jobs
  /\ \A live \in BOOLEAN : [step |-> "propagate", live |-> live] \in Jobs
  BY DEF Free, Jobs, Steps

\* after a cancellation too.
LEMMA CancelledType ==
  ASSUME NEW S \in [Slots -> Jobs]
  PROVE  Cancelled(S) \in [Slots -> Jobs]
  BY DEF Cancelled, Jobs

\* Spending from a budget leaves it a number.
LEMMA SpendType ==
  ASSUME procLeft \in [ProcBudgetKinds -> Nat], NEW k \in ProcBudgetKinds, SpendProc(k)
  PROVE  procLeft' \in [ProcBudgetKinds -> Nat]
  BY DEF SpendProc

\* A claim that returns keeps the types and what the others have in hand.
LEMMA ClaimReturnsKeeps ==
  ASSUME ProcInv, NEW p \in Partitions, ClaimReturns(p), UNCHANGED backlog
  PROVE  /\ worker' \in [Partitions -> {"off", "idle", "handling", "spawning"}]
         /\ lags' \in [Partitions -> Nat \cup {NoLag}]
         /\ broken' \in [Partitions -> 0..MaxBroken]
         /\ \A q \in Partitions : worker'[q] # "off" => worker[q] # "off"
         /\ InHandOK'
  BY ProcessorAssumption DEF ProcInv, ProcTypeOK, InHandOK, ClaimReturns

\* The initial states satisfy the invariant.
LEMMA ProcStart == ProcInit => ProcInv
<1> SUFFICES ASSUME ProcInit PROVE ProcInv
  OBVIOUS
<1>1. slot \in [Slots -> Jobs]
  BY JobType DEF ProcInit
<1>2. catchUp \in BOOLEAN /\ stopping \in BOOLEAN /\ untracked \in BOOLEAN
  BY DEF ProcInit
<1>3. broken \in [Partitions -> 0..MaxBroken] /\ backlog \in [Partitions -> Nat]
  BY ProcessorAssumption DEF ProcInit
<1> QED
  BY <1>1, <1>2, <1>3, ProcessorAssumption
  DEF ProcInit, ProcInv, ProcTypeOK, LoopOK, InHandOK, Jobs, Steps

\* Every step keeps the invariant.
LEMMA ProcStep == ProcInv /\ [ProcNext]_procVars => ProcInv'
<1> SUFFICES ASSUME ProcInv, [ProcNext]_procVars PROVE ProcInv'
  OBVIOUS
<1> USE DEF ProcInv, ProcTypeOK, LoopOK, InHandOK
<1>0. slot \in [Slots -> Jobs]
  BY DEF Jobs, Steps
<1>1. CASE OpenSession
  BY <1>1 DEF OpenSession
<1>2. CASE CloseSession
  BY <1>2 DEF CloseSession
<1>3. CASE LeaveLoop
  BY <1>3 DEF LeaveLoop
<1>4. CASE JoinBackground
  BY <1>4 DEF JoinBackground
<1>5. CASE DrainPropagations
  BY <1>5 DEF DrainPropagations
<1>6. CASE Rebalance
  <2>1. procLeft' \in [ProcBudgetKinds -> Nat]
    BY <1>6, SpendType DEF Rebalance, ProcBudgetKinds
  <2> QED BY <1>6, <2>1, CancelledType DEF Rebalance, CancelSession, Jobs, Steps
<1>7. CASE Signal
  <2>1. procLeft' \in [ProcBudgetKinds -> Nat]
    BY <1>7, SpendType DEF Signal, ProcBudgetKinds
  <2> QED BY <1>7, <2>1, CancelledType DEF Signal, CancelSession, Jobs, Steps
<1>8. CASE MonitorLag
  BY <1>8 DEF MonitorLag
<1>9. ASSUME NEW p \in Partitions, WorkerStep(p) \/ ProcessFails(p) \/ Produce(p)
      PROVE  ProcInv'
  <2>1. CASE ClaimCloses(p)
    BY <2>1, ClaimReturnsKeeps DEF ClaimCloses
  <2>2. CASE Receive(p)
    BY <2>2 DEF Receive
  <2>3. CASE ProcessOk(p)
    BY <2>3, ProcessorAssumption DEF ProcessOk
  <2>4. CASE Spawn(p)
    <3>1. slot' \in [Slots -> Jobs]
      <4>1. (session = "live") \in BOOLEAN
        OBVIOUS
      <4>2. [step |-> "propagate", live |-> session = "live"] \in Jobs
        BY <4>1, JobType
      <4> QED BY <1>0, <2>4, <4>2 DEF Spawn
    <3>2. broken' \in [Partitions -> 0..MaxBroken]
      BY <2>4, ProcessorAssumption DEF Spawn
    <3> QED BY <2>4, <3>1, <3>2 DEF Spawn, Jobs, Steps
  <2>5. CASE MarkDone(p)
    BY <2>5 DEF MarkDone
  <2>6. CASE ProcessFails(p)
    <3>1. procLeft' \in [ProcBudgetKinds -> Nat]
      BY <2>6, SpendType DEF ProcessFails, ProcBudgetKinds
    <3> QED BY <2>6, <3>1, CancelledType, ClaimReturnsKeeps DEF ProcessFails, CancelSession, Jobs, Steps
  <2>7. CASE Produce(p)
    <3>1. procLeft' \in [ProcBudgetKinds -> Nat]
      BY <2>7, SpendType DEF Produce, ProcBudgetKinds
    <3> QED BY <2>7, <3>1 DEF Produce
  <2> QED BY <1>9, <2>1, <2>2, <2>3, <2>4, <2>5, <2>6, <2>7 DEF WorkerStep
<1>10. ASSUME NEW i \in Slots, RunPropagation(i) PROVE ProcInv'
  <2>1. slot' \in [Slots -> Jobs]
    <3>1. \E job \in Jobs : slot' = [slot EXCEPT ![i] = job]
      <4>1. slot[i] \in Jobs
        BY <1>0
      <4>2. /\ [slot[i] EXCEPT !.step = "track"] \in Jobs
            /\ [slot[i] EXCEPT !.step = "publish"] \in Jobs
            /\ Free \in Jobs
        BY <4>1, JobType DEF Steps
      <4>3. \/ slot' = [slot EXCEPT ![i] = [slot[i] EXCEPT !.step = "track"]]
            \/ slot' = [slot EXCEPT ![i] = [slot[i] EXCEPT !.step = "publish"]]
            \/ slot' = [slot EXCEPT ![i] = Free]
        BY <1>10, Zenon DEF RunPropagation, Propagate, TrackResult, PublishResult, SlotStep
      <4> QED BY <4>2, <4>3
    <3> QED BY <1>0, <3>1
  <2>2. untracked' \in BOOLEAN
    BY <1>10 DEF RunPropagation, Propagate, TrackResult, PublishResult
  <2> QED BY <1>10, <2>1, <2>2 DEF RunPropagation, Jobs, Steps
<1>11. ASSUME NEW b \in Background, BackgroundReturns(b) PROVE ProcInv'
  BY <1>11 DEF BackgroundReturns
<1>12. CASE UNCHANGED procVars
  BY <1>12 DEF procVars
<1> QED
  BY <1>1, <1>2, <1>3, <1>4, <1>5, <1>6, <1>7, <1>8, <1>9, <1>10, <1>11, <1>12
  DEF ProcNext, MainStep

-----------------------------------------------------------------------------
\* The types, the consume loop and the messages in hand, in every reachable state.
THEOREM ProcessorInvariant == ProcSpec => []ProcInv
  BY ProcStart, ProcStep, PTL DEF ProcSpec

\* Every reachable state of the processor has its types.
THEOREM TypeCorrect == ProcSpec => []ProcTypeOK
  BY ProcessorInvariant, PTL DEF ProcInv

\* "propWG.Wait()" (main.go:193) runs after every claim has returned: no claim is
\* left that could call propWG.Add, for any number of partitions, rebalances and
\* failures.
THEOREM WaitAfterLastAdd == ProcSpec => []NoAddAfterWait
<1>1. ProcInv => NoAddAfterWait
  BY DEF ProcInv, ProcTypeOK, LoopOK, NoAddAfterWait
<1> QED BY <1>1, ProcessorInvariant, PTL
=============================================================================
