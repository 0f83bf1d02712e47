-------------------------- MODULE PendingStoreProofs --------------------------
(***************************************************************************)
(* Proofs about PendingStore: for any predictions, any number of sweepers, *)
(* any events and any faults, every variable keeps its type, a prediction  *)
(* has a single owner, its outcome is recorded at most once, a deleted key *)
(* does not come back, no acknowledged observation is lost, a prediction   *)
(* with an open window is found, and the store implements                  *)
(* PredictionLifecycle.                                                    *)
(***************************************************************************)
EXTENDS PendingStore, FiniteSetTheorems, TLAPS

USE DEF EvalBudgetKinds

\* The matcher has an event in hand, and a sweeper between its claim and its
\* delete an id.
InHandOK ==
  /\ match.step # "idle" => match.event \in Events
  /\ \A s \in Sweepers : step[s] \in {"get", "delete"} => cur[s] \in Ids

\* The inductive invariant: SingleOwner alone is not inductive, because Fetch and
\* Delete dereference the id in hand.
StoreInv == PendingTypeOK /\ InHandOK /\ SingleOwner

-----------------------------------------------------------------------------
(* Lemmas about the operators.                                             *)

\* Spending a budget leaves a budget.
LEMMA SpendType ==
  ASSUME NEW what \in EvalBudgetKinds,
         evalLeft \in [EvalBudgetKinds -> Nat], SpendEval(what)
  PROVE  evalLeft' \in [EvalBudgetKinds -> Nat]
BY DEF SpendEval

\* The matcher is idle with no copies in hand.
LEMMA NoMatchType ==
  NoMatch \in [step : {"idle", "get", "update"}, event : Events \cup {Idle},
               ids : SUBSET Ids, copies : [Ids -> Observed \cup {Gone}]]
BY DEF NoMatch

\* An additional delay is an integer, whatever the baseline.
LEMMA AdditionalType ==
  ASSUME NEW ev \in Events, NEW id \in Ids
  PROVE  Additional(ev, id) \in Int
BY PendingAssumption DEF Additional, Larger

-----------------------------------------------------------------------------
(* Initially.                                                              *)

\* Nothing is tracked, claimed or judged at the start.
LEMMA InitInv == PendingInit => StoreInv
<1> SUFFICES ASSUME PendingInit PROVE StoreInv
  OBVIOUS
<1>1. PendingTypeOK
  BY NoMatchType, PendingAssumption DEF PendingInit, PendingTypeOK, Observed, Unmatched
<1>2. InHandOK
  BY DEF PendingInit, InHandOK, NoMatch
<1>3. SingleOwner
  BY DEF PendingInit, SingleOwner, Holds
<1> QED BY <1>1, <1>2, <1>3 DEF StoreInv

-----------------------------------------------------------------------------
(* Every action preserves the types.                                       *)

\* Add's pipeline writes well-typed values, however far it gets.
LEMMA AddType ==
  ASSUME PendingTypeOK, NEW id \in Ids, NEW n \in 0..4, AddCommands(id, n),
         UNCHANGED <<now, match, sweepVars, acked>>,
         evalLeft' \in [EvalBudgetKinds -> Nat]
  PROVE  PendingTypeOK'
<1> USE PendingAssumption DEF PendingTypeOK, AddCommands
<1>1. [seen |-> Unmatched, until |-> now + Window + Slack] \in Pending
  BY DEF Pending, Observed, Unmatched
<1>2. json' \in [Ids -> Pending \cup {Gone}]
  BY <1>1
<1>3. idxUntil' \in Nat
  BY DEF IndexUntil, Never
<1>4. index' \in SUBSET Ids /\ expiry' \in SUBSET Ids /\ added' \in SUBSET Ids
  OBVIOUS
<1>5. expiresAt' \in [Ids -> Nat]
  OBVIOUS
<1> QED BY <1>2, <1>3, <1>4, <1>5 DEF sweepVars

\* The matcher's record keeps its shape.
LEMMA MatchType ==
  ASSUME PendingTypeOK, NEW id \in Ids, Handled(id)
  PROVE  match' \in [step : {"idle", "get", "update"}, event : Events \cup {Idle},
                    ids : SUBSET Ids, copies : [Ids -> Observed \cup {Gone}]]
BY NoMatchType DEF PendingTypeOK, Handled

\* Every step of every process keeps the types.
LEMMA TypeStep ==
  ASSUME StoreInv, [PendingNext]_evalVars
  PROVE  PendingTypeOK'
<1> USE DEF StoreInv
<1>1. ASSUME NEW id \in Ids, Add(id) PROVE PendingTypeOK'
  BY <1>1, AddType DEF Add, PendingTypeOK
<1>2. ASSUME NEW id \in Ids, AddFails(id) PROVE PendingTypeOK'
  <2>1. evalLeft' \in [EvalBudgetKinds -> Nat]
    BY <1>2, SpendType DEF AddFails, PendingTypeOK
  <2>2. PICK n \in 0..3 : AddCommands(id, n)
    BY <1>2 DEF AddFails
  <2> QED BY <1>2, <2>1, <2>2, AddType DEF AddFails
<1>3. ASSUME NEW ev \in Events, EventArrives(ev) PROVE PendingTypeOK'
  <2>1. evalLeft' \in [EvalBudgetKinds -> Nat]
    BY <1>3, SpendType DEF EventArrives, PendingTypeOK
  <2>2. match' \in [step : {"idle", "get", "update"}, event : Events \cup {Idle},
                    ids : SUBSET Ids, copies : [Ids -> Observed \cup {Gone}]]
    BY <1>3 DEF EventArrives, NoMatch, Active, PendingTypeOK
  <2> QED BY <1>3, <2>1, <2>2 DEF EventArrives, PendingTypeOK, storeVars, sweepVars
<1>4. ASSUME NEW id \in Ids, GetPending(id) PROVE PendingTypeOK'
  <2>1. (IF json[id] = Gone THEN Gone ELSE json[id].seen) \in Observed \cup {Gone}
    BY DEF PendingTypeOK, Pending
  <2>2. match' \in [step : {"idle", "get", "update"}, event : Events \cup {Idle},
                    ids : SUBSET Ids, copies : [Ids -> Observed \cup {Gone}]]
    BY <1>4, <2>1 DEF GetPending, PendingTypeOK
  <2> QED BY <1>4, <2>2 DEF GetPending, PendingTypeOK, storeVars, sweepVars
<1>5. ASSUME NEW id \in Ids, UpdatePending(id) PROVE PendingTypeOK'
  <2>1. Raises(match.event, id, match.copies[id]) => Additional(match.event, id) \in Int
    BY <1>5, AdditionalType DEF UpdatePending, InHandOK
  <2>2. json' \in [Ids -> Pending \cup {Gone}]
    BY <1>5, <2>1 DEF UpdatePending, Rewritten, PendingTypeOK, Pending, Observed
  <2>3. acked' \in [Ids -> Observed]
    BY <1>5, <2>1 DEF UpdatePending, PendingTypeOK, Larger, Observed
  <2> QED BY <1>5, <2>2, <2>3, MatchType DEF UpdatePending, PendingTypeOK, sweepVars
<1>6. ASSUME NEW id \in Ids, UpdateFails(id) PROVE PendingTypeOK'
  <2>1. evalLeft' \in [EvalBudgetKinds -> Nat]
    BY <1>6, SpendType DEF UpdateFails, PendingTypeOK
  <2> QED BY <1>6, <2>1, MatchType DEF UpdateFails, PendingTypeOK, storeVars, sweepVars
<1>7. CASE NothingRead
  BY <1>7, NoMatchType DEF NothingRead, PendingTypeOK, storeVars, sweepVars
<1>8. CASE MatcherDies
  <2>1. evalLeft' \in [EvalBudgetKinds -> Nat]
    BY <1>8, SpendType DEF MatcherDies, PendingTypeOK
  <2> QED BY <1>8, <2>1, NoMatchType DEF MatcherDies, PendingTypeOK, storeVars, sweepVars
<1>9. ASSUME NEW s \in Sweepers, StartSweep(s) PROVE PendingTypeOK'
  <2>1. \A b \in Batches : b \in SUBSET Ids
    <3> SUFFICES ASSUME NEW b \in Batches PROVE b \subseteq Ids
      OBVIOUS
    <3>1. b \in SUBSET Expired
      BY Zenon DEF Batches
    <3> QED BY <3>1 DEF Expired, PendingTypeOK
  <2>2. /\ todo' \in [Sweepers -> SUBSET Ids] /\ swept' \in Nat
        /\ step' \in [Sweepers -> {"idle", "claim", "get", "delete", "record"}]
    <3>1. CASE Expired = {}
      BY <1>9, <3>1 DEF StartSweep, PendingTypeOK
    <3>2. CASE Expired # {}
      <4>1. PICK b \in Batches : todo' = [todo EXCEPT ![s] = b]
        BY <1>9, <3>2 DEF StartSweep
      <4> QED BY <1>9, <2>1, <3>2, <4>1 DEF StartSweep, PendingTypeOK
    <3> QED BY <3>1, <3>2
  <2> QED BY <1>9, <2>2 DEF StartSweep, PendingTypeOK, storeVars
<1>10. ASSUME NEW s \in Sweepers, NEW id \in Ids, Claim(s, id) PROVE PendingTypeOK'
  <2>1. /\ todo' = [todo EXCEPT ![s] = todo[s] \ {id}]
        /\ todo' \in [Sweepers -> SUBSET Ids]
    BY <1>10 DEF Claim, PendingTypeOK
  <2>2. /\ cur' \in [Sweepers -> Ids \cup {Idle}]
        /\ step' \in [Sweepers -> {"idle", "claim", "get", "delete", "record"}]
    <3>1. CASE id \in expiry
      <4>1. cur' = [cur EXCEPT ![s] = id] /\ step' = [step EXCEPT ![s] = "get"]
        BY <1>10, <3>1 DEF Claim
      <4> QED BY <4>1 DEF PendingTypeOK
    <3>2. CASE id \notin expiry
      BY <1>10, <3>2 DEF Claim, PendingTypeOK
    <3> QED BY <3>1, <3>2
  <2>3. \A t \in Sweepers : step'[t] \in {"idle", "record"} => todo'[t] = {}
    BY <1>10, <2>1 DEF Claim, PendingTypeOK
  <2> QED BY <1>10, <2>1, <2>2, <2>3 DEF Claim, PendingTypeOK
<1>11. ASSUME NEW s \in Sweepers, Fetch(s) PROVE PendingTypeOK'
  <2>1. cur[s] \in Ids /\ json[cur[s]].seen \in Observed
    BY <1>11 DEF Fetch, InHandOK, PendingTypeOK, Pending
  <2> QED BY <1>11, <2>1 DEF Fetch, PendingTypeOK, storeVars
<1>12. ASSUME NEW s \in Sweepers, Abandon(s) PROVE PendingTypeOK'
  <2>1. evalLeft' \in [EvalBudgetKinds -> Nat]
    BY <1>12, SpendType DEF Abandon, PendingTypeOK
  <2> QED BY <1>12, <2>1 DEF Abandon, PendingTypeOK, storeVars
<1>13. ASSUME NEW s \in Sweepers, Delete(s) PROVE PendingTypeOK'
  <2>1. evalLeft' \in [EvalBudgetKinds -> Nat]
    BY <1>13, SpendType DEF Delete, PendingTypeOK
  <2>2. json' \in [Ids -> Pending \cup {Gone}] /\ index' \in SUBSET Ids
    BY <1>13 DEF Delete, PendingTypeOK
  <2> QED BY <1>13, <2>1, <2>2 DEF Delete, PendingTypeOK
<1>14. ASSUME NEW s \in Sweepers, AllTried(s) \/ EndSweep(s) PROVE PendingTypeOK'
  BY <1>14 DEF AllTried, EndSweep, PendingTypeOK, storeVars
<1>15. ASSUME NEW s \in Sweepers, NEW id \in Ids, Record(s, id) PROVE PendingTypeOK'
  BY <1>15 DEF Record, PendingTypeOK, storeVars
<1>16. ASSUME NEW s \in Sweepers, SweeperDies(s) PROVE PendingTypeOK'
  <2>1. evalLeft' \in [EvalBudgetKinds -> Nat]
    BY <1>16, SpendType DEF SweeperDies, PendingTypeOK
  <2> QED BY <1>16, <2>1 DEF SweeperDies, PendingTypeOK, storeVars
<1>17. CASE Tick
  <2>1. now' \in Nat /\ json' \in [Ids -> Pending \cup {Gone}] /\ index' \in SUBSET Ids
    BY <1>17 DEF Tick, PendingTypeOK
  <2> QED BY <1>17, <2>1 DEF Tick, PendingTypeOK, sweepVars
<1>18. CASE UNCHANGED evalVars
  BY <1>18 DEF evalVars, storeVars, sweepVars, PendingTypeOK
<1> QED
  BY <1>1, <1>2, <1>3, <1>4, <1>5, <1>6, <1>7, <1>8, <1>9, <1>10, <1>11, <1>12,
     <1>13, <1>14, <1>15, <1>16, <1>17, <1>18
  DEF PendingNext, Tracking, Matching, Sweeping, SweepStep

-----------------------------------------------------------------------------
(* Every action keeps what is in hand, and a single owner.                 *)

\* Every step keeps the matcher's and the sweepers' hands in order.
LEMMA InHandStep ==
  ASSUME StoreInv, [PendingNext]_evalVars
  PROVE  InHandOK'
<1> USE DEF StoreInv, InHandOK
<1>1. CASE Tracking
  BY <1>1 DEF Tracking, Add, AddFails, sweepVars
<1>2. CASE Matching
  <2>1. ASSUME NEW ev \in Events, EventArrives(ev) PROVE InHandOK'
    BY <2>1 DEF EventArrives, NoMatch, sweepVars
  <2>2. ASSUME NEW id \in Ids, GetPending(id) PROVE InHandOK'
    BY <2>2 DEF GetPending, sweepVars, PendingTypeOK
  <2>3. ASSUME NEW id \in Ids, Handled(id), match.step = "update", UNCHANGED sweepVars
        PROVE InHandOK'
    BY <2>3 DEF Handled, NoMatch, sweepVars, PendingTypeOK
  <2>4. ASSUME NothingRead \/ MatcherDies PROVE InHandOK'
    BY <2>4 DEF NothingRead, MatcherDies, NoMatch, sweepVars
  <2> QED BY <1>2, <2>1, <2>2, <2>3, <2>4 DEF Matching, UpdatePending, UpdateFails
<1>3. CASE Sweeping
  <2> USE DEF PendingTypeOK
  <2>1. ASSUME NEW s \in Sweepers, NEW id \in Ids, Claim(s, id) PROVE InHandOK'
    <3>1. CASE id \in expiry
      BY <2>1, <3>1 DEF Claim
    <3>2. CASE id \notin expiry
      BY <2>1, <3>2 DEF Claim
    <3> QED BY <3>1, <3>2
  <2>2. ASSUME NEW s \in Sweepers, StartSweep(s) \/ AllTried(s) \/ EndSweep(s)
        PROVE  InHandOK'
    BY <2>2 DEF StartSweep, AllTried, EndSweep
  <2>3. ASSUME NEW s \in Sweepers, Fetch(s) \/ Abandon(s) \/ Delete(s) PROVE InHandOK'
    BY <2>3 DEF Fetch, Abandon, Delete
  <2>4. ASSUME NEW s \in Sweepers, NEW id \in Ids, Record(s, id) PROVE InHandOK'
    BY <2>4 DEF Record
  <2>5. ASSUME NEW s \in Sweepers, SweeperDies(s) PROVE InHandOK'
    BY <2>5 DEF SweeperDies
  <2> QED BY <1>3, <2>1, <2>2, <2>3, <2>4, <2>5, Zenon DEF Sweeping, SweepStep
<1>4. CASE Tick \/ UNCHANGED evalVars
  BY <1>4 DEF Tick, evalVars, sweepVars
<1> QED BY <1>1, <1>2, <1>3, <1>4 DEF PendingNext

\* Steps that leave the sweepers alone, queue nothing and bring no key of an
\* unknown id into being disturb no ownership.
LEMMA OwnerUnchanged ==
  ASSUME SingleOwner, UNCHANGED <<expiry, added, step, cur, popped, outcome>>,
         \A id \in Ids : id \notin added => json'[id] = json[id]
  PROVE  SingleOwner'
BY DEF SingleOwner, Holds

\* Every step leaves each prediction with at most one owner.
LEMMA OwnerStep ==
  ASSUME StoreInv, [PendingNext]_evalVars
  PROVE  SingleOwner'
<1> USE DEF StoreInv
<1>1. ASSUME NEW id \in Ids, NEW n \in 0..4, Fresh(id), AddCommands(id, n),
             UNCHANGED sweepVars
      PROVE  SingleOwner'
  BY <1>1 DEF SingleOwner, Holds, Fresh, AddCommands, PendingTypeOK, sweepVars
<1>2. CASE Tracking
  <2>1. ASSUME NEW id \in Ids, Add(id) PROVE SingleOwner'
    BY <1>1, <2>1 DEF Add
  <2>2. ASSUME NEW id \in Ids, AddFails(id) PROVE SingleOwner'
    <3>1. PICK n \in 0..3 : AddCommands(id, n)
      BY <2>2 DEF AddFails
    <3> QED BY <1>1, <2>2, <3>1 DEF AddFails
  <2> QED BY <1>2, <2>1, <2>2 DEF Tracking
<1>3. CASE Matching
  <2>1. UNCHANGED <<expiry, added, step, cur, popped, outcome>>
    BY <1>3 DEF Matching, EventArrives, GetPending, UpdatePending, UpdateFails,
                NothingRead, MatcherDies, storeVars, sweepVars
  <2>2. \A id \in Ids : json[id] = Gone => json'[id] = Gone
    BY <1>3 DEF Matching, EventArrives, GetPending, UpdatePending, Rewritten,
                UpdateFails, NothingRead, MatcherDies, storeVars, PendingTypeOK
  <2> QED BY <2>1, <2>2, OwnerUnchanged DEF SingleOwner
<1>4. ASSUME NEW s \in Sweepers, StartSweep(s) \/ AllTried(s) \/ EndSweep(s)
      PROVE  SingleOwner'
  <2>1. \A t \in Sweepers : step'[t] = "get" <=> step[t] = "get"
    BY <1>4 DEF StartSweep, AllTried, EndSweep, PendingTypeOK
  <2>2. UNCHANGED <<expiry, added, json, cur, popped, outcome>>
    BY <1>4 DEF StartSweep, AllTried, EndSweep, storeVars
  <2>3. \A t \in Sweepers, id \in Ids : Holds(t, id)' <=> Holds(t, id)
    BY <2>1, <2>2 DEF Holds
  <2> QED BY <2>2, <2>3 DEF SingleOwner
<1>5. ASSUME NEW s \in Sweepers, NEW id \in Ids, Claim(s, id) PROVE SingleOwner'
  <2>1. UNCHANGED <<added, json, popped, outcome>>
    BY <1>5 DEF Claim
  <2>2. expiry' = expiry \ {id}
    BY <1>5 DEF Claim
  <2>3. CASE id \notin expiry
    <3>1. UNCHANGED <<cur, step, expiry>>
      BY <1>5, <2>2, <2>3 DEF Claim
    <3> QED BY <2>1, <3>1, OwnerUnchanged
  <2>4. CASE id \in expiry
    <3>1. /\ cur' = [cur EXCEPT ![s] = id]
          /\ step' = [step EXCEPT ![s] = "get"]
      BY <1>5, <2>4 DEF Claim
    <3>2. \A t \in Sweepers, j \in Ids : Holds(t, j)' => Holds(t, j) \/ (t = s /\ j = id)
      BY <2>1, <3>1 DEF Holds, PendingTypeOK
    <3>3. id \in added /\ outcome[id] = Gone /\ \A t \in Sweepers : ~Holds(t, id)
      BY <2>4 DEF SingleOwner
    <3> QED BY <2>1, <2>2, <3>2, <3>3 DEF SingleOwner
  <2> QED BY <2>3, <2>4
<1>6. ASSUME NEW s \in Sweepers, Fetch(s) PROVE SingleOwner'
  BY <1>6 DEF Fetch, SingleOwner, Holds, PendingTypeOK, InHandOK, storeVars
<1>7. ASSUME NEW s \in Sweepers, Abandon(s) PROVE SingleOwner'
  BY <1>7 DEF Abandon, SingleOwner, Holds, PendingTypeOK, storeVars
<1>8. ASSUME NEW s \in Sweepers, Delete(s) PROVE SingleOwner'
  BY <1>8 DEF Delete, SingleOwner, Holds, PendingTypeOK, InHandOK
<1>9. ASSUME NEW s \in Sweepers, NEW id \in Ids, Record(s, id) PROVE SingleOwner'
  BY <1>9 DEF Record, SingleOwner, Holds, PendingTypeOK, storeVars
<1>10. ASSUME NEW s \in Sweepers, SweeperDies(s) PROVE SingleOwner'
  BY <1>10 DEF SweeperDies, SingleOwner, Holds, PendingTypeOK, storeVars
<1>11. CASE Tick
  BY <1>11, OwnerUnchanged DEF Tick, sweepVars, PendingTypeOK, SingleOwner
<1>12. CASE UNCHANGED evalVars
  BY <1>12, OwnerUnchanged DEF evalVars, storeVars, sweepVars
<1> QED
  BY <1>2, <1>3, <1>4, <1>5, <1>6, <1>7, <1>8, <1>9, <1>10, <1>11, <1>12
  DEF PendingNext, Sweeping, SweepStep

-----------------------------------------------------------------------------
(* The theorems.                                                           *)

\* The inductive invariant holds of every behaviour, without any fairness.
THEOREM StoreInvariant == PendingSpec => []StoreInv
<1>1. StoreInv /\ [PendingNext]_evalVars => StoreInv'
  BY TypeStep, InHandStep, OwnerStep DEF StoreInv
<1> QED BY InitInv, <1>1, PTL DEF PendingSpec

\* Type correctness of the store, the matcher and the sweepers.
THEOREM TypeCorrect == PendingSpec => []PendingTypeOK
BY StoreInvariant, PTL DEF StoreInv

\* A prediction is in one place at a time (pending.go:148-177, evaluator.go:
\* 335-394), for any number of predictions and processor instances.
THEOREM OwnerIsUnique == PendingSpec => []SingleOwner
BY StoreInvariant, PTL DEF StoreInv

\* No outcome is recorded twice: sweepers that race for an id, die holding it or
\* fail to delete it never make another one judge it again.
THEOREM JudgedAtMostOnce == PendingSpec => FinalizedOnce
<1> DEFINE Once == \A s \in Sweepers, id \in Ids : Record(s, id) => outcome[id] = Gone
<1>1. StoreInv => Once
  BY DEF StoreInv, SingleOwner, Holds, Record
<1>2. StoreInv /\ [PendingNext]_evalVars => [Once]_evalVars
  BY <1>1
<1> QED BY StoreInvariant, <1>2, PTL DEF PendingSpec, FinalizedOnce

\* No step of any process re-creates the key of a prediction that was added: the
\* XX of the Update (pending.go:125-143) is enough, whoever deletes or evicts it.
THEOREM KeysStayGone == PendingSpec => NoResurrection
<1> DEFINE Kept == \A id \in added : json[id] = Gone => json'[id] = Gone
<1>1. ASSUME StoreInv, PendingNext PROVE Kept
  <2> USE DEF StoreInv, PendingTypeOK
  <2>1. CASE Tracking
    BY <1>1, <2>1 DEF Tracking, Add, AddFails, Fresh, AddCommands
  <2>2. CASE Matching
    BY <1>1, <2>2 DEF Matching, EventArrives, GetPending, UpdatePending, Rewritten,
                      UpdateFails, NothingRead, MatcherDies, storeVars
  <2>3. CASE Sweeping
    BY <1>1, <2>3 DEF Sweeping, SweepStep, SweeperDies, StartSweep, Claim, Fetch,
                      Abandon, Delete, AllTried, Record, EndSweep, storeVars
  <2>4. CASE Tick
    BY <1>1, <2>4 DEF Tick
  <2> QED BY <1>1, <2>1, <2>2, <2>3, <2>4 DEF PendingNext
<1>2. StoreInv /\ [PendingNext]_evalVars => [Kept]_evalVars
  BY <1>1
<1> QED BY StoreInvariant, <1>2, PTL DEF PendingSpec, NoResurrection

-----------------------------------------------------------------------------
(* PendingStore implements PredictionLifecycle.                            *)

\* A sweeper has read the prediction it deletes, and not yet the one it fetches.
PoppedOK ==
  \A s \in Sweepers : /\ step[s] = "get" => popped[s][cur[s]] = Gone
                      /\ step[s] = "delete" => popped[s][cur[s]] # Gone

\* The matcher is the only writer of what it has read.
CopiesOK ==
  \A id \in Ids : match.copies[id] # Gone =>
    id \in added /\ (json[id] # Gone => match.copies[id] = json[id].seen)

AckedOK == \A id \in Ids : id \notin added => acked[id] = Unmatched

LifeInv == StoreInv /\ PoppedOK /\ CopiesOK /\ AckedOK /\ ObservationsKept

\* No window ends after a window from now, nor after the index; a queued prediction
\* with an open window is indexed and outlives the window.
FindInv ==
  /\ \A id \in Ids : expiresAt[id] <= now + Window /\ expiresAt[id] < Never
  /\ \A id \in expiry :
       /\ expiresAt[id] < idxUntil
       /\ expiresAt[id] >= now =>
            id \in index /\ json[id] # Gone /\ json[id].until > expiresAt[id]

-----------------------------------------------------------------------------
(* The strengthened invariant.                                             *)

\* A queued prediction's observation is an integer, and its key expires some time.
LEMMA SeenType ==
  ASSUME PendingTypeOK, NEW id \in Ids, json[id] # Gone
  PROVE  json[id].seen \in Int /\ json[id].seen # Gone /\ json[id].until \in Nat
  BY GoneAssumption DEF PendingTypeOK, Pending, Observed

\* Nothing is tracked at the start.
LEMMA LifeStart == PendingInit => LifeInv
<1> SUFFICES ASSUME PendingInit PROVE LifeInv
  OBVIOUS
<1>1. PoppedOK /\ CopiesOK /\ AckedOK /\ ObservationsKept
  BY DEF PendingInit, NoMatch, PoppedOK, CopiesOK, AckedOK, ObservationsKept
<1> QED BY <1>1, InitInv DEF LifeInv

\* Every step keeps what a sweeper popped.
LEMMA PoppedStep == LifeInv /\ [PendingNext]_evalVars => PoppedOK'
<1> SUFFICES ASSUME LifeInv, [PendingNext]_evalVars PROVE PoppedOK'
  OBVIOUS
<1> USE DEF LifeInv, StoreInv, PendingTypeOK, PoppedOK
<1>1. CASE UNCHANGED sweepVars
  BY <1>1 DEF sweepVars
<1>2. ASSUME NEW s \in Sweepers, StartSweep(s) \/ AllTried(s) \/ EndSweep(s) PROVE PoppedOK'
  BY <1>2 DEF StartSweep, AllTried, EndSweep
<1>3. ASSUME NEW s \in Sweepers, NEW id \in Ids, Claim(s, id) PROVE PoppedOK'
  <2>1. UNCHANGED popped
    BY <1>3 DEF Claim
  <2>2. CASE id \in expiry
    <3>1. cur' = [cur EXCEPT ![s] = id] /\ step' = [step EXCEPT ![s] = "get"]
      BY <1>3, <2>2 DEF Claim
    <3>2. popped[s][id] = Gone
      BY <2>2 DEF SingleOwner, Holds
    <3> QED BY <2>1, <3>1, <3>2
  <2>3. CASE id \notin expiry
    BY <1>3, <2>1, <2>3 DEF Claim
  <2> QED BY <2>2, <2>3
<1>4. ASSUME NEW s \in Sweepers, Fetch(s) PROVE PoppedOK'
  <2>1. /\ cur[s] \in Ids /\ json[cur[s]].seen # Gone /\ UNCHANGED cur
        /\ popped' = [popped EXCEPT ![s][cur[s]] = json[cur[s]].seen]
        /\ step' = [step EXCEPT ![s] = "delete"]
    BY <1>4, SeenType DEF Fetch, InHandOK
  <2>2. popped'[s][cur[s]] # Gone /\ \A t \in Sweepers \ {s} : popped'[t] = popped[t]
    BY <2>1
  <2> QED BY <2>1, <2>2
<1>5. ASSUME NEW s \in Sweepers, Abandon(s) \/ Delete(s) PROVE PoppedOK'
  BY <1>5 DEF Abandon, Delete
<1>6. ASSUME NEW s \in Sweepers, NEW id \in Ids, Record(s, id) PROVE PoppedOK'
  BY <1>6 DEF Record
<1>7. ASSUME NEW s \in Sweepers, SweeperDies(s) PROVE PoppedOK'
  BY <1>7 DEF SweeperDies
<1>8. CASE Tracking \/ Matching \/ Tick \/ UNCHANGED evalVars
  BY <1>1, <1>8 DEF Tracking, Add, AddFails, Matching, EventArrives, GetPending, UpdatePending,
     UpdateFails, NothingRead, MatcherDies, Tick, evalVars
<1> QED BY <1>2, <1>3, <1>4, <1>5, <1>6, <1>7, <1>8 DEF PendingNext, Sweeping, SweepStep

\* A step that rewrites no key leaves what the matcher has read as it is.
LEMMA NothingRewritten ==
  ASSUME LifeInv, UNCHANGED <<acked, added>>,
         match' = match \/ (\A id \in Ids : match'.copies[id] \in {Gone, match.copies[id]}),
         \A id \in Ids : json'[id] \in {Gone, json[id]}
  PROVE  CopiesOK' /\ AckedOK' /\ ObservationsKept'
  BY DEF LifeInv, CopiesOK, AckedOK, ObservationsKept

\* Every step keeps the matcher's copies those of the store.
LEMMA CopiesStep ==
  LifeInv /\ [PendingNext]_evalVars => CopiesOK' /\ AckedOK' /\ ObservationsKept'
<1> SUFFICES ASSUME LifeInv, [PendingNext]_evalVars
             PROVE  CopiesOK' /\ AckedOK' /\ ObservationsKept'
  OBVIOUS
<1> USE DEF StoreInv
<1>1. ASSUME NEW id \in Ids, NEW n \in 0..4, Fresh(id), AddCommands(id, n), UNCHANGED <<match, acked>>
      PROVE  CopiesOK' /\ AckedOK' /\ ObservationsKept'
  <2>1. /\ id \notin added /\ added' = added \cup {id}
        /\ \A j \in Ids \ {id} : json'[j] = json[j]
        /\ json'[id] # Gone => json'[id].seen = Unmatched
    <3>1. id \notin added /\ json[id] = Gone
      BY <1>1 DEF LifeInv, Fresh, SingleOwner
    <3> QED BY <1>1, <3>1 DEF LifeInv, AddCommands, PendingTypeOK
  <2>2. match.copies[id] = Gone /\ acked[id] = Unmatched
    BY <2>1 DEF LifeInv, CopiesOK, AckedOK
  <2>3. CopiesOK' /\ AckedOK'
    BY <1>1, <2>1, <2>2 DEF LifeInv, CopiesOK, AckedOK
  <2>4. ObservationsKept'
    BY <1>1, <2>1, <2>2 DEF LifeInv, ObservationsKept, Unmatched
  <2> QED BY <2>3, <2>4
<1>2. CASE Tracking
  <2>1. ASSUME NEW id \in Ids, Add(id) PROVE CopiesOK' /\ AckedOK' /\ ObservationsKept'
    BY <1>1, <2>1 DEF Add
  <2>2. ASSUME NEW id \in Ids, AddFails(id) PROVE CopiesOK' /\ AckedOK' /\ ObservationsKept'
    <3>1. PICK n \in 0..3 : AddCommands(id, n)
      BY <2>2 DEF AddFails
    <3> QED BY <1>1, <2>2, <3>1 DEF AddFails
  <2> QED BY <1>2, <2>1, <2>2 DEF Tracking
<1>3. ASSUME NEW ev \in Events, EventArrives(ev) PROVE CopiesOK' /\ AckedOK' /\ ObservationsKept'
  BY <1>3, NothingRewritten DEF EventArrives, NoMatch, storeVars
<1>4. ASSUME NEW id \in Ids, GetPending(id) PROVE CopiesOK' /\ AckedOK' /\ ObservationsKept'
  <2>1. match'.copies = [match.copies EXCEPT ![id] = IF json[id] = Gone THEN Gone ELSE json[id].seen]
    BY <1>4 DEF GetPending, LifeInv, PendingTypeOK
  <2>2. json[id] # Gone => id \in added
    BY DEF LifeInv, SingleOwner
  <2>3. UNCHANGED <<json, added, acked>>
    BY <1>4 DEF GetPending, storeVars
  <2>4. \A j \in Ids \ {id} : match'.copies[j] = match.copies[j]
    BY <2>1
  <2>5. match'.copies[id] = IF json[id] = Gone THEN Gone ELSE json[id].seen
    BY <2>1 DEF LifeInv, PendingTypeOK
  <2>6. CopiesOK'
    BY <2>2, <2>3, <2>4, <2>5 DEF LifeInv, CopiesOK
  <2> QED BY <2>3, <2>6 DEF LifeInv, AckedOK, ObservationsKept
<1>5. ASSUME NEW id \in Ids, Handled(id)
      PROVE  match'.copies[id] = Gone /\ \A j \in Ids : match'.copies[j] \in {Gone, match.copies[j]}
  BY <1>5 DEF Handled, NoMatch, LifeInv, PendingTypeOK
<1>6. ASSUME NEW id \in Ids, UpdatePending(id) PROVE CopiesOK' /\ AckedOK' /\ ObservationsKept'
  <2>1. match.step = "update" /\ match.copies[id] # Gone /\ UNCHANGED added
    BY <1>6 DEF UpdatePending
  <2>2. CASE UNCHANGED <<json, acked>>
    BY <1>5, <1>6, <2>1, <2>2, NothingRewritten DEF UpdatePending
  <2>3. CASE json[id] # Gone /\ Raises(match.event, id, match.copies[id])
    <3> DEFINE seen == Additional(match.event, id)
    <3>1. /\ json' = [json EXCEPT ![id] = [seen |-> seen, until |-> json[id].until]]
          /\ acked' = [acked EXCEPT ![id] = Larger(acked[id], seen)]
      BY <1>6, <2>3 DEF UpdatePending, Rewritten
    <3>2. /\ match.copies[id] = json[id].seen /\ json[id].seen >= acked[id] /\ id \in added
      BY <2>1, <2>3 DEF LifeInv, CopiesOK, ObservationsKept
    <3>3. seen \in Int /\ seen > json[id].seen /\ json[id].seen \in Int /\ acked[id] \in Int
      BY <2>1, <2>3, <3>2, AdditionalType, SeenType DEF Raises, LifeInv, InHandOK, PendingTypeOK, Observed
    <3> HIDE DEF seen
    <3>4. json'[id] # Gone => json'[id].seen = seen /\ acked'[id] = seen
      BY <3>1, <3>2, <3>3 DEF Larger, LifeInv, PendingTypeOK
    <3>5. \A j \in Ids \ {id} : json'[j] = json[j] /\ acked'[j] = acked[j]
      BY <3>1 DEF LifeInv, PendingTypeOK
    <3>6. match'.copies[id] = Gone /\ \A j \in Ids : match'.copies[j] \in {Gone, match.copies[j]}
      BY <1>5, <1>6 DEF UpdatePending
    <3> QED BY <2>1, <3>2, <3>3, <3>4, <3>5, <3>6 DEF LifeInv, CopiesOK, AckedOK, ObservationsKept
  <2> QED BY <1>6, <2>2, <2>3 DEF UpdatePending, Rewritten
<1>7. ASSUME NEW id \in Ids, UpdateFails(id) PROVE CopiesOK' /\ AckedOK' /\ ObservationsKept'
  BY <1>5, <1>7, NothingRewritten DEF UpdateFails, storeVars
<1>8. CASE NothingRead \/ MatcherDies
  BY <1>8, NothingRewritten DEF NothingRead, MatcherDies, NoMatch, storeVars
<1>9. CASE Sweeping
  <2>1. UNCHANGED <<acked, added, match>>
    BY <1>9 DEF Sweeping, SweepStep, SweeperDies, StartSweep, Claim, Fetch, Abandon, Delete, AllTried,
       Record, EndSweep, storeVars
  <2>2. \A id \in Ids : json'[id] \in {Gone, json[id]}
    BY <1>9 DEF Sweeping, SweepStep, SweeperDies, StartSweep, Claim, Fetch, Abandon, Delete, AllTried,
       Record, EndSweep, storeVars, LifeInv, PendingTypeOK
  <2> QED BY <2>1, <2>2, NothingRewritten
<1>10. CASE Tick
  BY <1>10, NothingRewritten DEF Tick
<1>11. CASE UNCHANGED evalVars
  BY <1>11, NothingRewritten DEF evalVars, storeVars
<1> QED BY <1>2, <1>3, <1>4, <1>6, <1>7, <1>8, <1>9, <1>10, <1>11 DEF PendingNext, Matching

\* The strengthened invariant holds of every behaviour (pending.go, evaluator.go).
THEOREM LifeInvariant == PendingSpec => []LifeInv
<1>1. LifeInv /\ [PendingNext]_evalVars => LifeInv'
  BY TypeStep, InHandStep, OwnerStep, PoppedStep, CopiesStep DEF LifeInv, StoreInv
<1> QED BY <1>1, LifeStart, PTL DEF PendingSpec

\* For any events, sweepers and faults: although Update rewrites a copy that it read
\* earlier (pending.go:130), it never lowers an acknowledged observation.
THEOREM LargestObservationKept == PendingSpec => []ObservationsKept
  BY LifeInvariant, PTL DEF LifeInv

-----------------------------------------------------------------------------
(* Finding.                                                                *)

\* Nothing is queued at the start.
LEMMA FindStart == PendingInit => FindInv
  BY PendingAssumption DEF PendingInit, FindInv, Never

\* Adding a prediction indexes it for longer than its window.
LEMMA AddKeepsFind ==
  ASSUME StoreInv, FindInv, NEW id \in Ids, NEW n \in 0..4, Fresh(id), AddCommands(id, n),
         UNCHANGED now
  PROVE  FindInv'
<1> USE PendingAssumption DEF StoreInv, PendingTypeOK
<1>1. /\ id \notin expiry /\ now + Window + Slack < MaxTime
      /\ expiresAt' = [expiresAt EXCEPT ![id] = now + Window]
      /\ \A j \in Ids \ {id} : json'[j] = json[j]
      /\ index \subseteq index'
      /\ expiry' = IF n >= 4 THEN expiry \cup {id} ELSE expiry
      /\ idxUntil' = IndexUntil(n)
  BY DEF Fresh, AddCommands, SingleOwner
<1>2. \A j \in Ids : expiresAt'[j] <= now + Window /\ expiresAt'[j] < Never
  BY <1>1 DEF FindInv, Never
<1>3. \A j \in expiry : expiresAt'[j] = expiresAt[j] /\ json'[j] = json[j]
  BY <1>1
<1>4. \A j \in expiry' : expiresAt'[j] < idxUntil'
  <2>1. CASE n >= 3
    BY <1>2, <1>1, <2>1 DEF IndexUntil
  <2>2. CASE n < 3
    <3>1. expiry' = expiry /\ idxUntil' \in {idxUntil, Never}
      BY <1>1, <2>2 DEF IndexUntil
    <3> QED BY <1>2, <1>3, <3>1 DEF FindInv
  <2> QED BY <2>1, <2>2
<1>5. n >= 4 => /\ id \in index' /\ json'[id] # Gone /\ json'[id].until > expiresAt'[id]
  <2>1. [seen |-> Unmatched, until |-> now + Window + Slack] \in Pending
    BY DEF Pending, Observed, Unmatched
  <2>2. [seen |-> Unmatched, until |-> now + Window + Slack] # Gone
    BY <2>1, GoneAssumption
  <2>3. n >= 4 => /\ json'[id] = [seen |-> Unmatched, until |-> now + Window + Slack]
                  /\ id \in index'
    BY DEF AddCommands
  <2> QED BY <1>1, <2>2, <2>3
<1> QED BY <1>1, <1>2, <1>3, <1>4, <1>5 DEF FindInv

\* A step that takes only claimed predictions out of the index and the keys.
LEMMA QueuedKept ==
  ASSUME PendingTypeOK, FindInv, UNCHANGED <<now, expiresAt, idxUntil>>, expiry' \subseteq expiry,
         \A id \in expiry' : /\ id \in index => id \in index'
                             /\ json[id] # Gone => json'[id] # Gone /\ json'[id].until = json[id].until
  PROVE  FindInv'
  BY DEF PendingTypeOK, FindInv, Never

\* The matcher rewrites keys and leaves their time to live.
LEMMA MatchingKeepsQueue ==
  ASSUME LifeInv, Matching
  PROVE  /\ UNCHANGED <<now, index, idxUntil, expiry, expiresAt, sweepVars>>
         /\ \A id \in Ids : json[id] # Gone => json'[id] # Gone /\ json'[id].until = json[id].until
<1> USE DEF LifeInv, StoreInv
<1>1. UNCHANGED <<now, index, idxUntil, expiry, expiresAt, sweepVars>>
  BY DEF Matching, EventArrives, GetPending, UpdatePending, UpdateFails, NothingRead,
     MatcherDies, storeVars
<1>2. ASSUME NEW id \in Ids, UpdatePending(id)
      PROVE  \A j \in Ids : json[j] # Gone => json'[j] # Gone /\ json'[j].until = json[j].until
  <2>1. CASE UNCHANGED json
    BY <2>1
  <2>2. CASE json[id] # Gone /\ Raises(match.event, id, match.copies[id])
    <3> DEFINE new == [seen |-> Additional(match.event, id), until |-> json[id].until]
    <3>1. json' = [json EXCEPT ![id] = new]
      BY <1>2, <2>2 DEF UpdatePending, Rewritten
    <3>2. new \in Pending
      BY <1>2, <2>2, AdditionalType, SeenType DEF UpdatePending, InHandOK, Pending, Observed
    <3>3. new # Gone /\ new.until = json[id].until
      BY <3>2, GoneAssumption
    <3> HIDE DEF new
    <3> QED BY <3>1, <3>3 DEF PendingTypeOK
  <2> QED BY <1>2, <2>1, <2>2 DEF UpdatePending, Rewritten
<1>3. CASE ~(\E id \in Ids : UpdatePending(id))
  BY <1>3 DEF Matching, EventArrives, GetPending, UpdateFails, NothingRead, MatcherDies,
     storeVars
<1> QED BY <1>1, <1>2, <1>3

\* A sweeper takes predictions out of the queue, and out of the store once they are
\* out of the queue.
LEMMA SweepingKeepsQueue ==
  ASSUME LifeInv, Sweeping
  PROVE  /\ UNCHANGED <<now, expiresAt, idxUntil>> /\ expiry' \subseteq expiry
         /\ \A id \in expiry' : json'[id] = json[id] /\ (id \in index => id \in index')
<1> USE DEF LifeInv, StoreInv
<1>1. ASSUME NEW s \in Sweepers, Delete(s)
      PROVE  /\ UNCHANGED <<now, expiresAt, idxUntil, expiry>>
             /\ \A id \in expiry : json'[id] = json[id] /\ (id \in index => id \in index')
  <2>1. cur[s] \in Ids /\ cur[s] \notin expiry
    BY <1>1 DEF Delete, InHandOK, PoppedOK, SingleOwner, Holds
  <2>2. /\ UNCHANGED <<now, expiresAt, idxUntil, expiry>>
        /\ index \ {cur[s]} \subseteq index'
        /\ \A id \in Ids \ {cur[s]} : json'[id] = json[id]
    BY <1>1 DEF Delete, PendingTypeOK
  <2> QED BY <2>1, <2>2 DEF PendingTypeOK
<1>2. CASE ~(\E s \in Sweepers : Delete(s))
  BY <1>2 DEF Sweeping, SweepStep, SweeperDies, StartSweep, Claim, Fetch, Abandon, AllTried,
     Record, EndSweep, storeVars
<1> QED BY <1>1, <1>2

\* Every step keeps queued predictions with an open window indexed.
LEMMA FindStep == LifeInv /\ FindInv /\ [PendingNext]_evalVars => FindInv'
<1> SUFFICES ASSUME LifeInv, FindInv, [PendingNext]_evalVars PROVE FindInv'
  OBVIOUS
<1> USE DEF LifeInv, StoreInv
<1>1. CASE Tracking
  <2>1. ASSUME NEW id \in Ids, Add(id) PROVE FindInv'
    BY <2>1, AddKeepsFind DEF Add
  <2>2. ASSUME NEW id \in Ids, AddFails(id) PROVE FindInv'
    <3>1. PICK n \in 0..3 : AddCommands(id, n)
      BY <2>2 DEF AddFails
    <3> QED BY <2>2, <3>1, AddKeepsFind DEF AddFails
  <2> QED BY <1>1, <2>1, <2>2 DEF Tracking
<1>2. CASE Matching
  <2>1. expiry \subseteq Ids
    BY DEF PendingTypeOK
  <2> QED BY <1>2, <2>1, MatchingKeepsQueue, QueuedKept
<1>3. CASE Sweeping
  BY <1>3, SweepingKeepsQueue, QueuedKept
<1>4. CASE Tick
  <2>1. /\ now' = now + 1 /\ UNCHANGED <<expiresAt, idxUntil, expiry>>
        /\ index' = IF idxUntil <= now' THEN {} ELSE index
        /\ \A id \in Ids : json'[id] = IF json[id] # Gone /\ json[id].until <= now' THEN Gone
                                       ELSE json[id]
    BY <1>4 DEF Tick
  <2>2. \A id \in Ids : expiresAt'[id] <= now' + Window /\ expiresAt'[id] < Never
    BY <2>1, PendingAssumption DEF FindInv, PendingTypeOK, Never
  <2>3. ASSUME NEW id \in expiry, expiresAt[id] >= now'
        PROVE  id \in index' /\ json'[id] # Gone /\ json'[id].until > expiresAt[id]
    <3>1. /\ id \in Ids /\ expiresAt[id] \in Nat /\ now \in Nat /\ idxUntil \in Nat
      BY DEF PendingTypeOK
    <3>2. expiresAt[id] < idxUntil /\ id \in index /\ json[id] # Gone /\ json[id].until > expiresAt[id]
      BY <2>1, <2>3, <3>1 DEF FindInv
    <3>3. json[id].until \in Nat
      BY <3>1, <3>2, SeenType
    <3> QED BY <2>1, <2>3, <3>1, <3>2, <3>3
  <2> QED BY <2>1, <2>2, <2>3 DEF FindInv, Never
<1>5. CASE UNCHANGED evalVars
  BY <1>5 DEF evalVars, storeVars, FindInv, Never
<1> QED BY <1>1, <1>2, <1>3, <1>4, <1>5 DEF PendingNext

\* For any windows with an index that outlives them (pending.go:22-26): whatever is
\* added, claimed, evicted or left half done, an open prediction is found.
THEOREM OpenWindowsFound == PendingSpec => []ActiveFindable
<1>1. LifeInv /\ FindInv /\ [PendingNext]_evalVars => FindInv'
  BY FindStep
<1>2. FindInv => ActiveFindable
  BY DEF FindInv, ActiveFindable
<1> QED BY <1>1, <1>2, FindStart, LifeInvariant, PTL DEF PendingSpec

-----------------------------------------------------------------------------
(* Keeping up.                                                             *)

\* The queued predictions due at a time, what n sweeps claim at most and how long
\* they take to come, and what the queue can drain within the slack.
Due(t) == {id \in expiry : expiresAt[id] <= t}
Claimed(n) == n * SweepBatch
Elapsed(n) == n * SweepEvery
Drainable  == Claimed(Slack \div SweepEvery)

\* "bursts a batch per interval can drain within the slack" (NoneEvictedUnswept).
BurstsDrain == Cardinality(Expired) <= Drainable

\* What is left of a burst after n batches.
Drained(ids, n) == ids = {} \/ Cardinality(ids) + Claimed(n) <= Drainable

\* A prediction that was due n intervals before the last sweep has seen n of them end.
QueueDrains ==
  \A t \in 0..now, n \in Nat : Elapsed(n) + t <= swept + SweepEvery => Drained(Due(t), n)

\* The first sweep of an instant takes another batch of the oldest.
SweepDrains ==
  \A s \in Sweepers : step[s] # "idle" /\ swept < now =>
    \A t \in 0..now, n \in Nat :
      Elapsed(n) + t <= swept + SweepEvery => Drained(Due(t) \ todo[s], n + 1)

QueueInv ==
  /\ IsFiniteSet(expiry)
  /\ swept <= now /\ now <= swept + SweepEvery
  /\ \A id \in expiry : json[id] # Gone /\ json[id].until = expiresAt[id] + Slack
  /\ QueueDrains /\ SweepDrains

\* One more sweep.
LEMMA OneMoreSweep ==
  /\ Drainable \in Nat /\ SweepBatch \in Nat \ {0} /\ SweepEvery \in Nat \ {0} /\ Slack \in Nat \ {0}
  /\ Claimed(0) = 0 /\ Elapsed(0) = 0
  /\ \A n \in Nat : /\ Claimed(n) \in Nat /\ Claimed(n + 1) = Claimed(n) + SweepBatch
                    /\ Elapsed(n) \in Nat /\ Elapsed(n + 1) = Elapsed(n) + SweepEvery
                    /\ n # 0 => Elapsed(n) >= SweepEvery
  /\ Slack \div SweepEvery \in Nat /\ Elapsed(Slack \div SweepEvery) <= Slack
<1>1. PICK batch \in Nat \ {0} : batch = SweepBatch
  BY PendingAssumption
<1>2. PICK every \in Nat \ {0} : every = SweepEvery
  BY PendingAssumption
<1>3. PICK slack \in Nat \ {0} : slack = Slack
  BY PendingAssumption
<1>4. PICK q \in Nat : q = Slack \div SweepEvery /\ q * every <= slack
  <2>1. slack \div every \in Nat /\ (slack \div every) * every <= slack
    OBVIOUS
  <2> QED BY <1>2, <1>3, <2>1
<1>5. \A n \in Nat : n * batch \in Nat /\ (n + 1) * batch = n * batch + batch
  OBVIOUS
<1>6. \A n \in Nat : n * every \in Nat /\ (n + 1) * every = n * every + every
                     /\ (n # 0 => n * every >= every)
  OBVIOUS
<1>7. 0 * batch = 0 /\ 0 * every = 0
  OBVIOUS
<1> QED BY <1>1, <1>2, <1>3, <1>4, <1>5, <1>6, <1>7 DEF Claimed, Elapsed, Drainable

\* Less is left of less.
LEMMA LessDrained ==
  ASSUME NEW ids, IsFiniteSet(ids), NEW fewer, fewer \subseteq ids, NEW n \in Nat, Drained(ids, n)
  PROVE  Drained(fewer, n)
<1>1. IsFiniteSet(fewer) /\ Cardinality(fewer) <= Cardinality(ids)
  BY FS_Subset
<1>2. Cardinality(fewer) \in Nat /\ Cardinality(ids) \in Nat
  BY <1>1, FS_CardinalityType
<1>3. Claimed(n) \in Nat /\ Drainable \in Nat
  BY OneMoreSweep
<1> QED BY <1>1, <1>2, <1>3 DEF Drained

\* At first nothing is queued.
LEMMA QueueStart == PendingInit => QueueInv
<1> SUFFICES ASSUME PendingInit PROVE QueueInv
  OBVIOUS
<1>1. expiry = {} /\ now = 0 /\ swept = 0
  BY DEF PendingInit
<1>2. IsFiniteSet({}) /\ \A t : Due(t) = {}
  BY <1>1, FS_EmptySet DEF Due
<1> QED BY <1>1, <1>2, OneMoreSweep DEF QueueInv, QueueDrains, SweepDrains, Drained

\* A step within an instant that ends no sweep, and after which nothing more is due.
LEMMA NothingMoreDue ==
  ASSUME QueueInv, UNCHANGED <<now, swept>>,
         \A t \in 0..now : Due(t)' \subseteq Due(t),
         \A s \in Sweepers : step'[s] # "idle" =>
           step[s] # "idle" /\ \A t \in 0..now : Due(t)' \ todo'[s] \subseteq Due(t) \ todo[s]
  PROVE  QueueDrains' /\ SweepDrains'
<1>1. \A t \in 0..now : IsFiniteSet(Due(t))
  BY FS_Subset DEF QueueInv, Due
<1>2. QueueDrains'
  <2>1. ASSUME NEW t \in 0..now, NEW n \in Nat, Elapsed(n) + t <= swept + SweepEvery
        PROVE  Drained(Due(t)', n)
    <3>1. Drained(Due(t), n)
      BY <2>1 DEF QueueInv, QueueDrains
    <3> QED BY <1>1, <3>1, LessDrained
  <2> QED BY <2>1 DEF QueueDrains, Drained
<1>3. SweepDrains'
  <2>1. ASSUME NEW s \in Sweepers, step'[s] # "idle", swept < now,
               NEW t \in 0..now, NEW n \in Nat, Elapsed(n) + t <= swept + SweepEvery
        PROVE  Drained(Due(t)' \ todo'[s], n + 1)
    <3>1. step[s] # "idle" /\ Due(t)' \ todo'[s] \subseteq Due(t) \ todo[s]
      BY <2>1
    <3>2. Drained(Due(t) \ todo[s], n + 1)
      BY <2>1, <3>1 DEF QueueInv, SweepDrains
    <3>3. IsFiniteSet(Due(t) \ todo[s]) /\ n + 1 \in Nat
      BY <1>1, FS_Subset
    <3> QED BY <3>1, <3>2, <3>3, LessDrained
  <2> QED BY <2>1 DEF SweepDrains, Drained
<1> QED BY <1>2, <1>3

\* Adding a prediction: it is due later.
LEMMA AddKeepsQueue ==
  ASSUME LifeInv, QueueInv, NEW id \in Ids, NEW n \in 0..4, Fresh(id), AddCommands(id, n),
         UNCHANGED <<now, sweepVars>>
  PROVE  QueueInv'
<1> USE PendingAssumption DEF LifeInv, StoreInv, PendingTypeOK
<1>1. /\ id \notin expiry /\ expiresAt' = [expiresAt EXCEPT ![id] = now + Window]
      /\ \A j \in Ids \ {id} : json'[j] = json[j]
      /\ expiry' = IF n >= 4 THEN expiry \cup {id} ELSE expiry
      /\ UNCHANGED <<now, swept, step, todo>>
  BY DEF Fresh, AddCommands, SingleOwner, sweepVars
<1>2. IsFiniteSet(expiry')
  BY <1>1, FS_AddElement DEF QueueInv
<1>3. \A j \in expiry' : json'[j] # Gone /\ json'[j].until = expiresAt'[j] + Slack
  <2> DEFINE new == [seen |-> Unmatched, until |-> now + Window + Slack]
  <2>1. new \in Pending
    BY DEF Pending, Observed, Unmatched
  <2>2. new # Gone /\ new.until = (now + Window) + Slack
    BY <2>1, GoneAssumption
  <2>3. n >= 4 => json'[id] = new
    BY DEF AddCommands
  <2> HIDE DEF new
  <2> QED BY <1>1, <2>2, <2>3 DEF QueueInv
<1>4. \A t \in 0..now : Due(t)' \subseteq Due(t)
  <2>1. now \in Nat /\ now + Window > now
    OBVIOUS
  <2>2. \A t \in 0..now : ~(expiresAt'[id] <= t)
    BY <1>1, <2>1
  <2>3. \A j \in expiry' \ {id} : j \in expiry /\ expiresAt'[j] = expiresAt[j]
    BY <1>1
  <2> QED BY <2>2, <2>3 DEF Due
<1>5. QueueDrains' /\ SweepDrains'
  BY <1>1, <1>4, NothingMoreDue
<1> QED BY <1>1, <1>2, <1>3, <1>5 DEF QueueInv

\* A step of the matcher or of a sweeper within its sweep.
LEMMA QuietKeepsQueue ==
  ASSUME LifeInv, QueueInv, UNCHANGED <<now, swept, expiresAt>>, expiry' \subseteq expiry,
         \A id \in expiry' : json[id] # Gone => json'[id] # Gone /\ json'[id].until = json[id].until,
         \A s \in Sweepers : step'[s] # "idle" =>
           step[s] # "idle" /\ expiry' \ todo'[s] \subseteq expiry \ todo[s]
  PROVE  QueueInv'
<1>1. IsFiniteSet(expiry')
  BY FS_Subset DEF QueueInv
<1>2. \A t \in 0..now : Due(t)' \subseteq Due(t)
  BY DEF Due
<1>3. \A s \in Sweepers : step'[s] # "idle" =>
        step[s] # "idle" /\ \A t \in 0..now : Due(t)' \ todo'[s] \subseteq Due(t) \ todo[s]
  BY DEF Due
<1>4. QueueDrains' /\ SweepDrains'
  BY <1>2, <1>3, NothingMoreDue
<1> QED BY <1>1, <1>4 DEF QueueInv

\* The batch of a sweep: what it leaves is due after all of it.
LEMMA BatchDrains ==
  ASSUME LifeInv, QueueInv, NEW batch \in Batches, NEW t \in 0..now, NEW n \in Nat, Drained(Due(t), n)
  PROVE  Drained(Due(t) \ batch, n + 1)
<1> USE DEF LifeInv, StoreInv, PendingTypeOK
<1>1. Due(t) \subseteq Expired /\ IsFiniteSet(Due(t)) /\ batch \subseteq Expired
  BY FS_Subset DEF QueueInv, Due, Expired, Batches
<1>2. CASE batch = Expired
  BY <1>1, <1>2 DEF Drained
<1>3. CASE Due(t) \subseteq batch
  BY <1>3 DEF Drained
<1>4. CASE batch # Expired /\ ~(Due(t) \subseteq batch)
  <2>1. Cardinality(batch) = SweepBatch
    BY <1>4 DEF Batches
  <2>2. PICK j \in Due(t) : j \notin batch
    BY <1>4
  <2>3. batch \subseteq Due(t)
    <3>1. ASSUME NEW i \in batch PROVE i \in Due(t)
      <4>1. i \in expiry /\ i \in Ids /\ j \in Ids /\ expiresAt[j] <= t /\ j \in Expired
        BY <1>1, <2>2 DEF Due, Expired
      <4>2. expiresAt[i] <= expiresAt[j]
        BY <2>2, <4>1 DEF Batches
      <4>3. expiresAt[i] \in Nat /\ expiresAt[j] \in Nat /\ t \in Nat
        BY <4>1
      <4>4. expiresAt[i] <= t
        BY <4>1, <4>2, <4>3
      <4> QED BY <4>1, <4>4 DEF Due
    <3> QED BY <3>1
  <2>4. /\ IsFiniteSet(batch) /\ IsFiniteSet(Due(t) \ batch)
        /\ Cardinality(Due(t) \ batch) = Cardinality(Due(t)) - Cardinality(batch)
    <3>1. IsFiniteSet(batch) /\ IsFiniteSet(Due(t) \ batch)
      BY <1>1, <2>3, FS_Subset
    <3>2. Cardinality(Due(t) \ batch) = Cardinality(Due(t)) - Cardinality(Due(t) \cap batch)
      BY <1>1, <3>1, FS_Difference
    <3>3. Due(t) \cap batch = batch
      BY <2>3
    <3> QED BY <3>1, <3>2, <3>3
  <2>5. Cardinality(Due(t)) \in Nat /\ Cardinality(Due(t) \ batch) \in Nat
    BY <1>1, <2>4, FS_CardinalityType
  <2>6. Due(t) # {}
    BY <2>2
  <2>7. Cardinality(Due(t)) + Claimed(n) <= Drainable
    BY <2>6 DEF Drained
  <2>8. Claimed(n) \in Nat /\ Claimed(n + 1) = Claimed(n) + SweepBatch /\ Drainable \in Nat
        /\ SweepBatch \in Nat
    BY OneMoreSweep
  <2>9. Cardinality(Due(t) \ batch) + Claimed(n + 1) <= Drainable
    BY <2>1, <2>4, <2>5, <2>7, <2>8
  <2> QED BY <2>9 DEF Drained
<1> QED BY <1>2, <1>3, <1>4

\* A sweep that starts.
LEMMA StartKeepsQueue ==
  ASSUME LifeInv, QueueInv, NEW s \in Sweepers, StartSweep(s)
  PROVE  QueueInv'
<1> USE DEF LifeInv, StoreInv, PendingTypeOK
<1>1. /\ UNCHANGED <<now, expiry, expiresAt, json>>
      /\ now \in Nat /\ swept \in Nat /\ SweepEvery \in Nat \ {0}
  BY PendingAssumption DEF StartSweep, storeVars
<1>2. CASE Expired = {}
  <2>1. swept' = now
    BY <1>2 DEF StartSweep
  <2>2. \A t \in 0..now : Due(t) = {}
    BY <1>1, <1>2 DEF Due, Expired
  <2>3. QueueDrains' /\ SweepDrains'
    BY <1>1, <2>1, <2>2 DEF QueueDrains, SweepDrains, Drained, Due
  <2> QED BY <1>1, <2>1, <2>3 DEF QueueInv
<1>3. CASE Expired # {}
  <2>1. PICK batch \in Batches : todo' = [todo EXCEPT ![s] = batch]
    BY <1>3 DEF StartSweep
  <2>2. swept' = swept /\ step' = [step EXCEPT ![s] = "claim"]
    BY <1>3 DEF StartSweep
  <2>3. \A t \in 0..now : Due(t)' = Due(t)
    BY <1>1 DEF Due
  <2>4. QueueDrains'
    BY <1>1, <2>2, <2>3 DEF QueueInv, QueueDrains, Drained
  <2>5. SweepDrains'
    <3>1. ASSUME NEW w \in Sweepers, step'[w] # "idle", swept < now,
                 NEW t \in 0..now, NEW n \in Nat, Elapsed(n) + t <= swept + SweepEvery
          PROVE  Drained(Due(t) \ todo'[w], n + 1)
      <4>1. CASE w = s
        <5>1. Drained(Due(t), n)
          BY <3>1 DEF QueueInv, QueueDrains
        <5> QED BY <2>1, <4>1, <5>1, BatchDrains
      <4>2. CASE w # s
        <5>1. step[w] # "idle" /\ todo'[w] = todo[w]
          BY <2>1, <2>2, <3>1, <4>2
        <5> QED BY <3>1, <5>1 DEF QueueInv, SweepDrains
      <4> QED BY <4>1, <4>2
    <3> QED BY <1>1, <2>2, <2>3, <3>1 DEF SweepDrains, Drained
  <2> QED BY <1>1, <2>2, <2>4, <2>5 DEF QueueInv
<1> QED BY <1>2, <1>3

\* A sweep that ends: its batch is gone from the queue.
LEMMA EndKeepsQueue ==
  ASSUME LifeInv, QueueInv, BurstsDrain, NEW s \in Sweepers, EndSweep(s)
  PROVE  QueueInv'
<1> USE DEF LifeInv, StoreInv, PendingTypeOK
<1>1. /\ UNCHANGED <<now, expiry, expiresAt, json>> /\ swept' = now
      /\ step[s] = "record" /\ todo[s] = {}
      /\ now \in Nat /\ swept \in Nat /\ SweepEvery \in Nat \ {0}
      /\ swept <= now /\ now <= swept + SweepEvery
  BY PendingAssumption DEF EndSweep, storeVars, QueueInv
<1>2. \A t \in 0..now : Due(t)' = Due(t)
  BY <1>1 DEF Due
<1>3. ASSUME NEW t \in 0..now, NEW n \in Nat, Elapsed(n) + t <= now + SweepEvery
      PROVE  Drained(Due(t), n)
  <2>1. CASE swept = now
    BY <1>3, <2>1 DEF QueueInv, QueueDrains
  <2>2. CASE n = 0
    <3>1. Due(t) \subseteq Expired /\ IsFiniteSet(Expired)
      BY <1>1, FS_Subset DEF Due, Expired, QueueInv
    <3>2. Drained(Expired, 0)
      <4>1. Cardinality(Expired) \in Nat
        BY <3>1, FS_CardinalityType
      <4> QED BY <4>1, OneMoreSweep DEF BurstsDrain, Drained
    <3> QED BY <2>2, <3>1, <3>2, LessDrained
  <2>3. CASE swept < now /\ n # 0
    <3>1. PICK m \in Nat : n = m + 1
      <4>1. n - 1 \in Nat /\ n = (n - 1) + 1
        BY <2>3
      <4> QED BY <4>1
    <3>2. Elapsed(m) \in Nat /\ Elapsed(n) = Elapsed(m) + SweepEvery
      BY <3>1, OneMoreSweep
    <3>3. Elapsed(m) + t <= swept + SweepEvery
      BY <1>1, <1>3, <3>2
    <3>4. Drained(Due(t) \ todo[s], m + 1)
      BY <1>1, <2>3, <3>3 DEF QueueInv, SweepDrains
    <3>5. Due(t) \ todo[s] = Due(t)
      BY <1>1
    <3> QED BY <3>1, <3>4, <3>5
  <2> QED BY <1>1, <2>1, <2>2, <2>3
<1>4. QueueDrains'
  BY <1>1, <1>2, <1>3 DEF QueueDrains, Drained
<1>5. SweepDrains'
  BY <1>1 DEF SweepDrains
<1> QED BY <1>1, <1>4, <1>5 DEF QueueInv

\* The clock: what reaches its time to live has drained before.
LEMMA TickKeepsQueue ==
  ASSUME LifeInv, LifeInv', QueueInv, BurstsDrain', Punctual, Tick
  PROVE  QueueInv'
<1> USE DEF LifeInv, StoreInv, PendingTypeOK
<1>1. /\ now' = now + 1 /\ UNCHANGED <<swept, expiry, expiresAt, step, todo>>
      /\ now - swept < SweepEvery /\ \A s \in Sweepers : step[s] = "idle"
      /\ now \in Nat /\ swept \in Nat /\ swept <= now
      /\ \A id \in Ids : json'[id] = IF json[id] # Gone /\ json[id].until <= now' THEN Gone
                                     ELSE json[id]
  BY DEF Tick, SweepsKeepUp, sweepVars, QueueInv
<1>2. /\ SweepEvery \in Nat \ {0} /\ Slack \in Nat \ {0} /\ Drainable \in Nat
      /\ Slack \div SweepEvery \in Nat /\ Elapsed(Slack \div SweepEvery) <= Slack
      /\ Elapsed(Slack \div SweepEvery) \in Nat
  BY OneMoreSweep
<1>3. \A t \in Nat : IsFiniteSet(Due(t)) /\ Due(t)' = Due(t)
  BY <1>1, FS_Subset DEF Due, QueueInv
<1>4. \A id \in expiry : json'[id] # Gone /\ json'[id].until = expiresAt[id] + Slack
  <2>1. ASSUME NEW id \in expiry, expiresAt[id] + Slack <= now + 1 PROVE FALSE
    <3>1. expiresAt[id] \in Nat /\ expiresAt[id] \in 0..now
      BY <1>1, <1>2, <2>1
    <3>2. Elapsed(Slack \div SweepEvery) + expiresAt[id] <= swept + SweepEvery
      BY <1>1, <1>2, <2>1, <3>1
    <3>3. Drained(Due(expiresAt[id]), Slack \div SweepEvery)
      BY <1>2, <3>1, <3>2 DEF QueueInv, QueueDrains
    <3>4. id \in Due(expiresAt[id])
      BY <3>1 DEF Due
    <3>5. Cardinality(Due(expiresAt[id])) \in Nat
      BY <1>3, <3>1, FS_CardinalityType
    <3>6. Cardinality(Due(expiresAt[id])) = 0
      BY <1>2, <3>3, <3>4, <3>5 DEF Drained, Drainable
    <3> QED BY <1>3, <3>1, <3>4, <3>6, FS_EmptySet
  <2>2. ASSUME NEW id \in expiry
        PROVE  json'[id] # Gone /\ json'[id].until = expiresAt[id] + Slack
    <3>1. json[id] # Gone /\ json[id].until = expiresAt[id] + Slack /\ id \in Ids
      BY DEF QueueInv
    <3>2. ~(expiresAt[id] + Slack <= now')
      BY <1>1, <2>1
    <3> QED BY <1>1, <3>1, <3>2
  <2> QED BY <2>2
<1>5. QueueDrains'
  <2>1. ASSUME NEW t \in 0..(now + 1), NEW n \in Nat, Elapsed(n) + t <= swept + SweepEvery
        PROVE  Drained(Due(t), n)
    <3>1. CASE t \in 0..now
      BY <2>1, <3>1 DEF QueueInv, QueueDrains
    <3>2. CASE t = now + 1
      <4>1. n = 0
        <5>1. n # 0 => Elapsed(n) >= SweepEvery /\ Elapsed(n) \in Nat
          BY OneMoreSweep
        <5> QED BY <1>1, <1>2, <2>1, <3>2, <5>1
      <4>2. Expired' = Due(t)
        BY <1>1, <3>2 DEF Expired, Due
      <4>3. Cardinality(Due(t)) <= Drainable /\ Cardinality(Due(t)) \in Nat
        <5>1. BurstsDrain' <=> Cardinality(Expired') <= Drainable
          BY DEF BurstsDrain, Drainable, Claimed
        <5> QED BY <1>3, <4>2, <5>1, FS_CardinalityType
      <4> QED BY <4>1, <4>3, OneMoreSweep DEF Drained
    <3> QED BY <1>1, <3>1, <3>2
  <2> QED BY <1>1, <1>3, <2>1 DEF QueueDrains, Drained, Drainable, Claimed, Elapsed
<1>6. SweepDrains'
  BY <1>1 DEF SweepDrains
<1>7. swept <= now + 1 /\ now + 1 <= swept + SweepEvery
  BY <1>1, <1>2
<1> QED BY <1>1, <1>4, <1>5, <1>6, <1>7 DEF QueueInv

\* Every step of a store whose sweeps keep up keeps the queue draining.
LEMMA QueueStep ==
  ASSUME LifeInv, LifeInv', QueueInv, BurstsDrain, BurstsDrain', Punctual, [PendingNext]_evalVars
  PROVE  QueueInv'
<1> USE DEF LifeInv, StoreInv, PendingTypeOK
<1>1. CASE Tracking
  <2>1. ASSUME NEW id \in Ids, Add(id) PROVE QueueInv'
    BY <2>1, AddKeepsQueue DEF Add
  <2>2. ASSUME NEW id \in Ids, AddFails(id) PROVE QueueInv'
    <3>1. PICK n \in 0..3 : AddCommands(id, n)
      BY <2>2 DEF AddFails
    <3> QED BY <2>2, <3>1, AddKeepsQueue DEF AddFails
  <2> QED BY <1>1, <2>1, <2>2 DEF Tracking
<1>2. CASE Matching
  <2>1. UNCHANGED <<now, swept, expiresAt, expiry, step, todo>>
    BY <1>2, MatchingKeepsQueue DEF sweepVars
  <2>2. \A id \in expiry' : json[id] # Gone => json'[id] # Gone /\ json'[id].until = json[id].until
    BY <1>2, <2>1, MatchingKeepsQueue
  <2> QED BY <2>1, <2>2, QuietKeepsQueue
<1>3. CASE Sweeping
  <2>0. /\ UNCHANGED <<now, expiresAt>> /\ expiry' \subseteq expiry
        /\ \A id \in expiry' : json'[id] = json[id]
    BY <1>3, SweepingKeepsQueue
  <2>1. ASSUME NEW s \in Sweepers, StartSweep(s) PROVE QueueInv'
    BY <2>1, StartKeepsQueue
  <2>2. ASSUME NEW s \in Sweepers, EndSweep(s) PROVE QueueInv'
    BY <2>2, EndKeepsQueue
  <2>3. ASSUME NEW s \in Sweepers, NEW id \in Ids, Claim(s, id) PROVE QueueInv'
    <3>1. /\ swept' = swept /\ step[s] = "claim" /\ expiry' = expiry \ {id}
          /\ todo' = [todo EXCEPT ![s] = @ \ {id}]
          /\ \A w \in Sweepers \ {s} : step'[w] = step[w]
      BY <2>3 DEF Claim
    <3>2. \A w \in Sweepers : step'[w] # "idle" =>
            step[w] # "idle" /\ expiry' \ todo'[w] \subseteq expiry \ todo[w]
      BY <3>1
    <3> QED BY <2>0, <3>1, <3>2, QuietKeepsQueue
  <2>4. ASSUME NEW s \in Sweepers,
               \/ Fetch(s) \/ Abandon(s) \/ Delete(s) \/ AllTried(s)
               \/ \E id \in Ids : Record(s, id)
        PROVE  QueueInv'
    <3>1. swept' = swept /\ todo' = todo /\ step[s] # "idle"
          /\ \A w \in Sweepers \ {s} : step'[w] = step[w]
      BY <2>4 DEF Fetch, Abandon, Delete, AllTried, Record
    <3> QED BY <2>0, <3>1, QuietKeepsQueue
  <2>5. ASSUME NEW s \in Sweepers, SweeperDies(s) PROVE QueueInv'
    <3>1. swept' = swept /\ step' = [step EXCEPT ![s] = "idle"] /\ todo' = [todo EXCEPT ![s] = {}]
      BY <2>5 DEF SweeperDies
    <3>2. \A w \in Sweepers : step'[w] # "idle" => step[w] # "idle" /\ todo'[w] = todo[w]
      BY <3>1
    <3> QED BY <2>0, <3>1, <3>2, QuietKeepsQueue
  <2> QED BY <1>3, <2>1, <2>2, <2>3, <2>4, <2>5, Zenon DEF Sweeping, SweepStep
<1>4. CASE Tick
  BY <1>4, TickKeepsQueue
<1>5. CASE UNCHANGED evalVars
  <2>1. UNCHANGED <<now, swept, expiresAt, expiry, step, todo, json>>
    BY <1>5 DEF evalVars, storeVars, sweepVars
  <2> QED BY <2>1, QuietKeepsQueue
<1> QED BY <1>1, <1>2, <1>3, <1>4, <1>5 DEF PendingNext

\* As long as no more predictions are due at once than a batch per interval drains
\* within the slack, and sweeps keep their interval, no queued prediction is evicted
\* before a sweep pops it (pending.go:168, evaluator.go:276-289), for any number of
\* sweepers and whichever of them die.
THEOREM QueuedNotEvicted ==
  ASSUME Punctual
  PROVE  PendingSpec /\ []BurstsDrain => []NoneEvictedUnswept
<1>1. LifeInv /\ LifeInv' /\ QueueInv /\ BurstsDrain /\ BurstsDrain' /\ [PendingNext]_evalVars
        => QueueInv'
  BY QueueStep
<1>2. QueueInv => NoneEvictedUnswept
  BY DEF QueueInv, NoneEvictedUnswept
<1> QED BY <1>1, <1>2, QueueStart, LifeInvariant, PTL DEF PendingSpec

-----------------------------------------------------------------------------
(* The refinement: what each abstract step is, prediction by prediction.   *)

SameLife(i) == StageOf(i)' = StageOf(i) /\ BestOf(i)' = BestOf(i)

LifeMove(i) ==
  \/ StageOf(i) = "new" /\ StageOf(i)' = "tracked" /\ BestOf(i)' = -1
  \/ StageOf(i) = "new" /\ StageOf(i)' = "lost" /\ BestOf(i)' = BestOf(i)
  \/ StageOf(i) = "tracked" /\ StageOf(i)' = "tracked" /\ BestOf(i)' \in Int /\ BestOf(i)' > BestOf(i)
  \/ StageOf(i) = "tracked" /\ StageOf(i)' = "decided" /\ BestOf(i)' = BestOf(i)
  \/ StageOf(i) = "decided" /\ StageOf(i)' = "judged" /\ BestOf(i)' = BestOf(i)

Lost(i) == StageOf(i) \in {"tracked", "decided"} /\ StageOf(i)' = "lost" /\ BestOf(i)' = Gone

LifeVars == <<[i \in Ids |-> StageOf(i)], [i \in Ids |-> BestOf(i)]>>

\* A step that changes nobody's state is a stutter.
LEMMA NobodyMoves ==
  ASSUME \A i \in Ids : SameLife(i)
  PROVE  UNCHANGED LifeVars
  BY DEF SameLife, LifeVars

\* A step that changes one prediction's state is that prediction's step.
LEMMA OneMoves ==
  ASSUME NEW id \in Ids, LifeMove(id), \A j \in Ids \ {id} : SameLife(j)
  PROVE  Abstract!LifecycleNext
  BY DEF SameLife, LifeMove, Abstract!LifecycleNext, Abstract!Track, Abstract!TrackFails,
     Abstract!Observe, Abstract!Decide, Abstract!Judge, Abstract!Move

\* Predictions evicted together are lost together.
LEMMA SomeAreLost ==
  ASSUME \A i \in Ids : SameLife(i) \/ Lost(i)
  PROVE  Abstract!LifecycleNext
<1> DEFINE ids == {i \in Ids : Lost(i)}
<1>1. ids \in SUBSET Ids
  OBVIOUS
<1>2. Abstract!Lose(ids)
  BY DEF SameLife, Lost, Abstract!Lose
<1> QED BY <1>1, <1>2 DEF Abstract!LifecycleNext

-----------------------------------------------------------------------------
(* Reading the stage and the best observation off the store.               *)

Readings ==
  \A i \in Ids :
    /\ StageOf(i) = "tracked" => BestOf(i) = json[i].seen
    /\ StageOf(i) = "decided" => \A s \in Sweepers : popped[s][i] # Gone => BestOf(i) = popped[s][i]
    /\ StageOf(i) = "judged" => BestOf(i) = outcome[i]
    /\ StageOf(i) \in {"new", "lost"} => BestOf(i) = Gone

\* The refinement mapping, read off the invariant.
LEMMA ReadingsHold == LifeInv => Readings
<1> SUFFICES ASSUME LifeInv, NEW i \in Ids
             PROVE  /\ StageOf(i) = "tracked" => BestOf(i) = json[i].seen
                    /\ StageOf(i) = "decided" =>
                         \A s \in Sweepers : popped[s][i] # Gone => BestOf(i) = popped[s][i]
                    /\ StageOf(i) = "judged" => BestOf(i) = outcome[i]
                    /\ StageOf(i) \in {"new", "lost"} => BestOf(i) = Gone
  BY DEF Readings
<1>1. StageOf(i) = "decided" => BestOf(i) = popped[CHOOSE s \in Holder(i) : TRUE][i]
  BY DEF BestOf
<1>2. ASSUME NEW s \in Sweepers, popped[s][i] # Gone PROVE (CHOOSE t \in Holder(i) : TRUE) = s
  <2>1. s \in Holder(i) /\ \A t \in Holder(i) : t = s
    BY <1>2 DEF Holder, LifeInv, StoreInv, SingleOwner, Holds
  <2>2. (CHOOSE t \in Holder(i) : TRUE) \in Holder(i)
    BY <2>1
  <2> QED BY <2>1, <2>2
<1>3. /\ StageOf(i) = "tracked" => BestOf(i) = json[i].seen
      /\ StageOf(i) = "judged" => BestOf(i) = outcome[i]
      /\ StageOf(i) \in {"new", "lost"} => BestOf(i) = Gone
  BY DEF BestOf
<1> QED BY <1>1, <1>2, <1>3

\* The life of a prediction whose traces in the store stay as they are.
LEMMA TracesStay ==
  ASSUME Readings, Readings', NEW i \in Ids, i \in added' <=> i \in added, outcome'[i] = outcome[i],
         json'[i] = json[i], \A s \in Sweepers : popped'[s][i] = popped[s][i],
         Waiting(i)' <=> Waiting(i)
  PROVE  SameLife(i)
<1>1. Holder(i)' = Holder(i)
  BY DEF Holder
<1>2. StageOf(i)' = StageOf(i)
  BY <1>1 DEF StageOf
<1>3. StageOf(i) \in {"new", "judged", "decided", "tracked", "lost"}
  BY DEF StageOf
<1>4. CASE StageOf(i) = "decided"
  <2>1. PICK s \in Sweepers : popped[s][i] # Gone
    BY <1>4 DEF StageOf, Holder
  <2> QED BY <1>2, <1>4, <2>1 DEF Readings, SameLife
<1>5. CASE StageOf(i) # "decided"
  BY <1>2, <1>3, <1>5 DEF Readings, SameLife
<1> QED BY <1>4, <1>5

\* What the store says of the stage.
StageFacts ==
  \A i \in Ids :
    /\ i \notin added => StageOf(i) = "new"
    /\ \A s \in Sweepers : popped[s][i] # Gone => StageOf(i) = "decided"
    /\ i \in added /\ outcome[i] # Gone => StageOf(i) = "judged"
    /\ i \in added /\ outcome[i] = Gone /\ (\A s \in Sweepers : popped[s][i] = Gone) =>
         StageOf(i) = IF json[i] # Gone /\ Waiting(i) THEN "tracked" ELSE "lost"

LifeView == LifeInv /\ Readings /\ StageFacts

\* The abstract state of each prediction.
LEMMA ViewHolds == LifeInv => LifeView
<1>1. LifeInv => StageFacts
  BY DEF StageFacts, StageOf, Holder, LifeInv, StoreInv, SingleOwner, Holds
<1> QED BY <1>1, ReadingsHold DEF LifeView

-----------------------------------------------------------------------------
(* Each step of the store.                                                 *)

\* Adding a prediction is tracking it.
LEMMA AddIsTrack ==
  ASSUME LifeView, LifeView', NEW id \in Ids, NEW n \in 0..4, Fresh(id), AddCommands(id, n),
         UNCHANGED sweepVars
  PROVE  Abstract!LifecycleNext
<1> USE DEF LifeView, LifeInv, StoreInv
<1>1. /\ id \notin added /\ added' = added \cup {id}
      /\ \A j \in Ids \ {id} : json'[j] = json[j]
      /\ expiry' = IF n >= 4 THEN expiry \cup {id} ELSE expiry
      /\ UNCHANGED <<step, cur, popped, outcome>>
  BY DEF Fresh, AddCommands, PendingTypeOK, sweepVars
<1>2. /\ outcome[id] = Gone /\ id \notin expiry
      /\ \A s \in Sweepers : popped[s][id] = Gone /\ ~(step[s] = "get" /\ cur[s] = id)
  BY <1>1 DEF SingleOwner, Holds
<1>3. ASSUME NEW j \in Ids \ {id} PROVE SameLife(j)
  <2>1. Waiting(j)' <=> Waiting(j)
    BY <1>1 DEF Waiting
  <2> QED BY <1>1, <2>1, TracesStay
<1>4. StageOf(id) = "new" /\ BestOf(id) = Gone
  BY <1>1 DEF StageFacts, Readings
<1>5. StageOf(id)' = IF json'[id] # Gone /\ Waiting(id)' THEN "tracked" ELSE "lost"
  BY <1>1, <1>2 DEF StageFacts
<1>6. CASE n >= 4
  <2>1. json'[id] = [seen |-> Unmatched, until |-> now + Window + Slack]
    BY <1>6 DEF AddCommands, PendingTypeOK
  <2>2. json'[id] # Gone
    <3>1. [seen |-> Unmatched, until |-> now + Window + Slack] \in Pending
      BY PendingAssumption DEF Pending, Observed, Unmatched, PendingTypeOK
    <3> QED BY <2>1, <3>1, GoneAssumption
  <2>3. Waiting(id)'
    BY <1>1, <1>6 DEF Waiting
  <2>4. StageOf(id)' = "tracked" /\ BestOf(id)' = json'[id].seen
    BY <1>5, <2>2, <2>3 DEF Readings
  <2>5. LifeMove(id)
    BY <1>4, <2>1, <2>4 DEF LifeMove, Unmatched
  <2> QED BY <1>3, <2>5, OneMoves
<1>7. CASE n < 4
  <2>1. ~Waiting(id)'
    BY <1>1, <1>2, <1>7 DEF Waiting
  <2>2. StageOf(id)' = "lost" /\ BestOf(id)' = Gone
    BY <1>5, <2>1 DEF Readings
  <2> QED BY <1>3, <1>4, <2>2, OneMoves DEF LifeMove
<1> QED BY <1>6, <1>7

\* An Update that reaches the key raises what is observed: the copy it was compared
\* with is what the key still holds.
LEMMA UpdateIsObserve ==
  ASSUME LifeView, LifeView', NEW id \in Ids, UpdatePending(id)
  PROVE  Abstract!LifecycleNext \/ UNCHANGED LifeVars
<1> USE DEF LifeView, LifeInv, StoreInv
<1>1. UNCHANGED <<added, expiry, step, cur, popped, outcome>>
  BY DEF UpdatePending, sweepVars
<1>2. \A j \in Ids : Waiting(j)' <=> Waiting(j)
  BY <1>1 DEF Waiting
<1>3. CASE UNCHANGED json
  <2>1. \A j \in Ids : SameLife(j)
    BY <1>1, <1>2, <1>3, TracesStay
  <2> QED BY <2>1, NobodyMoves
<1>4. CASE json[id] # Gone /\ Raises(match.event, id, match.copies[id])
  <2> DEFINE seen == Additional(match.event, id)
             p == [seen |-> seen, until |-> json[id].until]
  <2>1. json' = [json EXCEPT ![id] = p]
    BY <1>4 DEF UpdatePending, Rewritten
  <2>2. match.copies[id] = json[id].seen
    BY <1>4 DEF UpdatePending, CopiesOK
  <2>3. seen \in Int /\ json[id].seen \in Int /\ json[id].until \in Nat /\ seen > json[id].seen
    BY <1>4, <2>2, AdditionalType, SeenType DEF UpdatePending, Raises, InHandOK
  <2>4. p \in Pending /\ p.seen = seen
    BY <2>3 DEF Pending, Observed
  <2>5. p # Gone
    BY <2>4, GoneAssumption
  <2> HIDE DEF seen, p
  <2>6. json'[id] = p /\ \A j \in Ids \ {id} : json'[j] = json[j]
    BY <2>1 DEF PendingTypeOK
  <2>7. \A j \in Ids \ {id} : SameLife(j)
    BY <1>1, <1>2, <2>6, TracesStay
  <2>8. StageOf(id)' = StageOf(id)
    <3>1. Holder(id)' = Holder(id)
      BY <1>1 DEF Holder
    <3> QED BY <1>1, <1>2, <1>4, <2>5, <2>6, <3>1 DEF StageOf
  <2>9. CASE StageOf(id) = "tracked"
    <3>1. BestOf(id) = json[id].seen /\ BestOf(id)' = seen
      BY <2>4, <2>6, <2>8, <2>9 DEF Readings
    <3> QED BY <2>3, <2>7, <2>8, <2>9, <3>1, OneMoves DEF LifeMove
  <2>10. CASE StageOf(id) # "tracked"
    <3>1. SameLife(id)
      <4>1. CASE StageOf(id) = "decided"
        <5>1. PICK s \in Sweepers : popped[s][id] # Gone
          BY <4>1 DEF StageOf, Holder
        <5> QED BY <1>1, <2>8, <4>1, <5>1 DEF Readings, SameLife
      <4>2. CASE StageOf(id) # "decided"
        <5>1. StageOf(id) \in {"new", "judged", "lost"}
          BY <2>10, <4>2 DEF StageOf
        <5> QED BY <1>1, <2>8, <5>1 DEF Readings, SameLife
      <4> QED BY <4>1, <4>2
    <3> QED BY <2>7, <3>1, NobodyMoves
  <2> QED BY <2>9, <2>10
<1> QED BY <1>3, <1>4 DEF UpdatePending, Rewritten

\* A claim hands a prediction over without changing its life.
LEMMA ClaimIsSilent ==
  ASSUME LifeView, LifeView', NEW s \in Sweepers, NEW id \in Ids, Claim(s, id)
  PROVE  UNCHANGED LifeVars
<1> USE DEF LifeView, LifeInv, StoreInv
<1>1. /\ UNCHANGED <<added, json, popped, outcome>> /\ expiry' = expiry \ {id}
      /\ step[s] = "claim"
  BY DEF Claim
<1>2. ASSUME NEW j \in Ids PROVE Waiting(j)' <=> Waiting(j)
  <2>1. CASE id \in expiry
    <3>1. cur' = [cur EXCEPT ![s] = id] /\ step' = [step EXCEPT ![s] = "get"]
      BY <2>1 DEF Claim
    <3>2. \A t \in Sweepers : cur'[t] = j /\ step'[t] = "get"
            <=> (cur[t] = j /\ step[t] = "get") \/ (t = s /\ j = id)
      BY <1>1, <3>1 DEF PendingTypeOK
    <3> QED BY <1>1, <2>1, <3>2 DEF Waiting
  <2>2. CASE id \notin expiry
    BY <1>1, <2>2 DEF Claim, Waiting
  <2> QED BY <2>1, <2>2
<1>3. \A j \in Ids : SameLife(j)
  BY <1>1, <1>2, TracesStay
<1> QED BY <1>3, NobodyMoves

\* Reading a popped prediction decides its outcome.
LEMMA FetchIsDecide ==
  ASSUME LifeView, LifeView', NEW s \in Sweepers, Fetch(s)
  PROVE  Abstract!LifecycleNext
<1> USE DEF LifeView, LifeInv, StoreInv
<1>0. PICK id \in Ids : id = cur[s]
  BY DEF Fetch, InHandOK
<1> DEFINE seen == json[id].seen
<1>1. /\ step[s] = "get" /\ id \in Ids /\ json[id] # Gone
      /\ UNCHANGED <<added, json, expiry, cur, outcome>>
      /\ popped' = [popped EXCEPT ![s][id] = seen] /\ step' = [step EXCEPT ![s] = "delete"]
  BY <1>0 DEF Fetch, storeVars
<1>2. seen # Gone
  BY <1>1, SeenType
<1>3. popped[s][id] = Gone
  BY <1>0, <1>1 DEF PoppedOK
<1>4. /\ id \in added /\ outcome[id] = Gone
      /\ \A t \in Sweepers : popped[t][id] # Gone => t = s
  BY <1>0, <1>1 DEF SingleOwner, Holds
<1>5. Waiting(id)
  BY <1>0, <1>1 DEF Waiting
<1> HIDE DEF seen
<1>6. StageOf(id) = "tracked" /\ BestOf(id) = json[id].seen
  BY <1>1, <1>3, <1>4, <1>5 DEF StageFacts, Readings
<1>7. popped'[s][id] = seen
  BY <1>1 DEF PendingTypeOK
<1>8. StageOf(id)' = "decided" /\ BestOf(id)' = seen
  BY <1>1, <1>2, <1>7 DEF StageFacts, Readings
<1>9. ASSUME NEW j \in Ids \ {id} PROVE SameLife(j)
  <2>1. \A t \in Sweepers : popped'[t][j] = popped[t][j]
    BY <1>1 DEF PendingTypeOK
  <2>2. Waiting(j)' <=> Waiting(j)
    BY <1>0, <1>1 DEF Waiting, PendingTypeOK
  <2> QED BY <1>1, <2>1, <2>2, TracesStay
<1>10. LifeMove(id)
  BY <1>6, <1>8 DEF LifeMove, seen
<1> QED BY <1>1, <1>9, <1>10, OneMoves

\* What a failed get drops is lost, unless it was before.
LEMMA AbandonIsLose ==
  ASSUME LifeView, LifeView', NEW s \in Sweepers, Abandon(s)
  PROVE  Abstract!LifecycleNext
<1> USE DEF LifeView, LifeInv, StoreInv
<1>0. PICK id \in Ids : id = cur[s]
  BY DEF Abandon, InHandOK
<1>1. /\ step[s] = "get" /\ id \in Ids
      /\ UNCHANGED <<added, json, expiry, popped, outcome>>
      /\ cur' = [cur EXCEPT ![s] = Idle] /\ step' = [step EXCEPT ![s] = "claim"]
  BY <1>0 DEF Abandon, storeVars
<1>2. /\ id \in added /\ id \notin expiry /\ outcome[id] = Gone
      /\ \A t \in Sweepers : popped[t][id] = Gone
      /\ \A t \in Sweepers : cur[t] = id /\ step[t] = "get" => t = s
  BY <1>0, <1>1 DEF SingleOwner, Holds, PoppedOK
<1>3. ~Waiting(id)'
  BY <1>1, <1>2 DEF Waiting, PendingTypeOK
<1>4. StageOf(id)' = "lost" /\ BestOf(id)' = Gone
  BY <1>1, <1>2, <1>3 DEF StageFacts, Readings
<1>5. SameLife(id) \/ Lost(id)
  <2>1. StageOf(id) \in {"tracked", "lost"}
    BY <1>1, <1>2 DEF StageFacts
  <2> QED BY <1>1, <1>4, <2>1 DEF Readings, SameLife, Lost
<1>6. ASSUME NEW j \in Ids \ {id} PROVE SameLife(j)
  <2>1. Waiting(j)' <=> Waiting(j)
    <3>1. \A t \in Sweepers : cur'[t] = j /\ step'[t] = "get" <=> cur[t] = j /\ step[t] = "get"
      BY <1>0, <1>1 DEF PendingTypeOK
    <3> QED BY <1>1, <3>1 DEF Waiting
  <2> QED BY <1>1, <2>1, TracesStay
<1> QED BY <1>5, <1>6, SomeAreLost

\* Deleting what was read does not change what was decided.
LEMMA DeleteIsSilent ==
  ASSUME LifeView, LifeView', NEW s \in Sweepers, Delete(s)
  PROVE  UNCHANGED LifeVars
<1> USE DEF LifeView, LifeInv, StoreInv
<1>0. PICK id \in Ids : id = cur[s]
  BY DEF Delete, InHandOK
<1>1. /\ step[s] = "delete" /\ id \in Ids
      /\ UNCHANGED <<added, expiry, popped, outcome>>
      /\ \A j \in Ids \ {id} : json'[j] = json[j]
      /\ cur' = [cur EXCEPT ![s] = Idle] /\ step' = [step EXCEPT ![s] = "claim"]
  BY <1>0 DEF Delete, PendingTypeOK
<1>2. popped[s][id] # Gone
  BY <1>0, <1>1 DEF PoppedOK
<1>3. SameLife(id)
  BY <1>1, <1>2 DEF StageFacts, Readings, SameLife
<1>4. ASSUME NEW j \in Ids \ {id} PROVE SameLife(j)
  <2>1. Waiting(j)' <=> Waiting(j)
    <3>1. \A t \in Sweepers : cur'[t] = j /\ step'[t] = "get" <=> cur[t] = j /\ step[t] = "get"
      BY <1>1 DEF PendingTypeOK
    <3> QED BY <1>1, <3>1 DEF Waiting
  <2> QED BY <1>1, <2>1, TracesStay
<1> QED BY <1>3, <1>4, NobodyMoves

\* Recording an outcome judges its prediction.
LEMMA RecordIsJudge ==
  ASSUME LifeView, LifeView', NEW s \in Sweepers, NEW id \in Ids, Record(s, id)
  PROVE  Abstract!LifecycleNext
<1> USE DEF LifeView, LifeInv, StoreInv
<1>1. /\ popped[s][id] # Gone
      /\ UNCHANGED <<added, json, expiry, step, cur>>
      /\ outcome' = [outcome EXCEPT ![id] = popped[s][id]]
      /\ popped' = [popped EXCEPT ![s][id] = Gone]
  BY DEF Record, storeVars
<1>2. id \in added
  BY <1>1 DEF SingleOwner, Holds
<1>3. StageOf(id) = "decided" /\ BestOf(id) = popped[s][id]
  BY <1>1 DEF StageFacts, Readings
<1>4. outcome'[id] = popped[s][id]
  BY <1>1 DEF PendingTypeOK
<1>5. StageOf(id)' = "judged" /\ BestOf(id)' = popped[s][id]
  BY <1>1, <1>2, <1>4 DEF StageFacts, Readings
<1>6. ASSUME NEW j \in Ids \ {id} PROVE SameLife(j)
  <2>1. outcome'[j] = outcome[j] /\ \A t \in Sweepers : popped'[t][j] = popped[t][j]
    BY <1>1 DEF PendingTypeOK
  <2>2. Waiting(j)' <=> Waiting(j)
    BY <1>1 DEF Waiting
  <2> QED BY <1>1, <2>1, <2>2, TracesStay
<1>7. LifeMove(id)
  BY <1>3, <1>5 DEF LifeMove
<1> QED BY <1>6, <1>7, OneMoves

\* A sweeper that dies takes with it what it alone had: the prediction it had
\* claimed and those it had decided.
LEMMA DeathIsLose ==
  ASSUME LifeView, LifeView', NEW s \in Sweepers, SweeperDies(s)
  PROVE  Abstract!LifecycleNext
<1> USE DEF LifeView, LifeInv, StoreInv
<1>1. /\ UNCHANGED <<added, json, expiry, outcome>>
      /\ step' = [step EXCEPT ![s] = "idle"] /\ cur' = [cur EXCEPT ![s] = Idle]
      /\ popped' = [popped EXCEPT ![s] = [i \in Ids |-> Gone]]
  BY DEF SweeperDies, storeVars
<1>2. ASSUME NEW j \in Ids, Holds(s, j) PROVE SameLife(j) \/ Lost(j)
  <2>1. /\ j \in added /\ j \notin expiry /\ outcome[j] = Gone
        /\ \A t \in Sweepers : Holds(t, j) => t = s
    BY <1>2 DEF SingleOwner
  <2>2. \A t \in Sweepers : popped'[t][j] = Gone
    BY <1>1, <2>1 DEF Holds, PendingTypeOK
  <2>3. ~Waiting(j)'
    BY <1>1, <2>1 DEF Waiting, Holds, PendingTypeOK
  <2>4. StageOf(j)' = "lost" /\ BestOf(j)' = Gone
    BY <1>1, <2>1, <2>2, <2>3 DEF StageFacts, Readings
  <2>5. StageOf(j) \in {"tracked", "decided", "lost"}
    BY <2>1 DEF StageFacts
  <2> QED BY <2>4, <2>5 DEF Readings, SameLife, Lost
<1>3. ASSUME NEW j \in Ids, ~Holds(s, j) PROVE SameLife(j)
  <2>1. \A t \in Sweepers : popped'[t][j] = popped[t][j]
    BY <1>1, <1>3 DEF Holds, PendingTypeOK
  <2>2. Waiting(j)' <=> Waiting(j)
    BY <1>1, <1>3 DEF Waiting, Holds, PendingTypeOK
  <2> QED BY <1>1, <2>1, <2>2, TracesStay
<1> QED BY <1>2, <1>3, SomeAreLost

\* What Redis evicts is lost while it is tracked, and no matter otherwise.
LEMMA TickIsLose ==
  ASSUME LifeView, LifeView', Tick
  PROVE  Abstract!LifecycleNext
<1> USE DEF LifeView, LifeInv, StoreInv
<1>1. /\ UNCHANGED <<added, expiry, step, cur, popped, outcome>>
      /\ \A j \in Ids : json'[j] \in {json[j], Gone}
  BY DEF Tick, sweepVars
<1>2. ASSUME NEW j \in Ids PROVE SameLife(j) \/ Lost(j)
  <2>1. Waiting(j)' <=> Waiting(j)
    BY <1>1 DEF Waiting
  <2>2. CASE json'[j] = json[j]
    BY <1>1, <2>1, <2>2, TracesStay
  <2>3. CASE json'[j] = Gone
    <3>1. CASE j \notin added
      BY <1>1, <3>1 DEF StageFacts, Readings, SameLife
    <3>2. CASE \E s \in Sweepers : popped[s][j] # Gone
      BY <1>1, <3>2 DEF StageFacts, Readings, SameLife
    <3>3. CASE j \in added /\ outcome[j] # Gone
      BY <1>1, <3>3 DEF StageFacts, Readings, SameLife
    <3>4. CASE j \in added /\ outcome[j] = Gone /\ \A s \in Sweepers : popped[s][j] = Gone
      <4>1. StageOf(j)' = "lost" /\ BestOf(j)' = Gone
        BY <1>1, <2>3, <3>4 DEF StageFacts, Readings
      <4>2. StageOf(j) \in {"tracked", "lost"}
        BY <3>4 DEF StageFacts
      <4> QED BY <4>1, <4>2 DEF Readings, SameLife, Lost
    <3> QED BY <3>1, <3>2, <3>3, <3>4
  <2> QED BY <1>1, <2>2, <2>3
<1> QED BY <1>2, SomeAreLost

\* Every step of the store is a step of the lifecycle or a stutter.
LEMMA LifeStep ==
  ASSUME LifeView, LifeView', [PendingNext]_evalVars
  PROVE  Abstract!LifecycleNext \/ UNCHANGED LifeVars
<1> USE DEF LifeView, LifeInv, StoreInv
<1>1. CASE Tracking
  <2>1. ASSUME NEW id \in Ids, Add(id) PROVE Abstract!LifecycleNext
    BY <2>1, AddIsTrack DEF Add
  <2>2. ASSUME NEW id \in Ids, AddFails(id) PROVE Abstract!LifecycleNext
    <3>1. PICK n \in 0..3 : AddCommands(id, n)
      BY <2>2 DEF AddFails
    <3> QED BY <2>2, <3>1, AddIsTrack DEF AddFails
  <2> QED BY <1>1, <2>1, <2>2 DEF Tracking
<1>2. CASE UNCHANGED <<added, json, expiry, cur, popped, outcome>>
           /\ \A t \in Sweepers : step'[t] = "get" <=> step[t] = "get"
  <2>1. \A j \in Ids : Waiting(j)' <=> Waiting(j)
    BY <1>2 DEF Waiting
  <2>2. \A j \in Ids : SameLife(j)
    BY <1>2, <2>1, TracesStay
  <2> QED BY <2>2, NobodyMoves
<1>3. CASE Matching
  <2>1. ASSUME NEW id \in Ids, UpdatePending(id)
        PROVE  Abstract!LifecycleNext \/ UNCHANGED LifeVars
    BY <2>1, UpdateIsObserve
  <2>2. CASE ~(\E id \in Ids : UpdatePending(id))
    <3>1. UNCHANGED <<storeVars, sweepVars>>
      BY <1>3, <2>2 DEF Matching, EventArrives, GetPending, UpdateFails, NothingRead, MatcherDies
    <3> QED BY <1>2, <3>1 DEF storeVars, sweepVars
  <2> QED BY <2>1, <2>2
<1>4. CASE Sweeping
  <2>1. ASSUME NEW s \in Sweepers, StartSweep(s) \/ AllTried(s) \/ EndSweep(s)
        PROVE  UNCHANGED LifeVars
    <3>1. UNCHANGED <<added, json, expiry, cur, popped, outcome>>
      BY <2>1 DEF StartSweep, AllTried, EndSweep, storeVars
    <3>2. \A t \in Sweepers : step'[t] = "get" <=> step[t] = "get"
      BY <2>1 DEF StartSweep, AllTried, EndSweep, PendingTypeOK
    <3>3. \A j \in Ids : Waiting(j)' <=> Waiting(j)
      BY <3>1, <3>2 DEF Waiting
    <3>4. \A j \in Ids : SameLife(j)
      BY <3>1, <3>3, TracesStay
    <3> QED BY <3>4, NobodyMoves
  <2> QED BY <1>4, <2>1, ClaimIsSilent, FetchIsDecide, AbandonIsLose, DeleteIsSilent,
             RecordIsJudge, DeathIsLose DEF Sweeping, SweepStep
<1>5. CASE Tick
  BY <1>5, TickIsLose
<1>6. CASE UNCHANGED evalVars
  BY <1>2, <1>6 DEF evalVars, storeVars, sweepVars
<1> QED BY <1>1, <1>3, <1>4, <1>5, <1>6 DEF PendingNext

\* The store starts as the lifecycle does.
LEMMA LifeBegins == PendingInit => Abstract!LifecycleInit
  BY DEF PendingInit, Abstract!LifecycleInit, StageOf, BestOf

\* Redis, with its separate and failing commands, evictions and any number of
\* matchers' and sweepers' deaths, implements the life that the evaluator promises
\* of a prediction (pending.go:148-177, evaluator.go:335-394).
THEOREM StoreImplementsLifecycle == PendingSpec => ImplementsLifecycle
<1>1. LifeView /\ LifeView' /\ [PendingNext]_evalVars => [Abstract!LifecycleNext]_LifeVars
  BY LifeStep
<1>2. PendingSpec => []LifeView
  BY LifeInvariant, ViewHolds, PTL
<1>3. PendingSpec => [][Abstract!LifecycleNext]_LifeVars
  BY <1>1, <1>2, PTL DEF PendingSpec
<1> QED BY <1>3, LifeBegins, PTL DEF PendingSpec, ImplementsLifecycle, Abstract!Lifecycle, LifeVars
=============================================================================
