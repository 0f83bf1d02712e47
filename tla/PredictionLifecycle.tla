------------------------- MODULE PredictionLifecycle -------------------------
(***************************************************************************)
(* What the evaluator promises of a tracked prediction, without Redis: it  *)
(* collects observations while it is tracked, only ever raising the best   *)
(* one; it is decided once, with what it had then; it is judged at most    *)
(* once, with the decided value; and it may be lost before that, but never *)
(* comes back.                                                             *)
(***************************************************************************)
EXTENDS Integers

CONSTANTS Ids, None

VARIABLES stage, best

Stages == {"new", "tracked", "decided", "judged", "lost"}

LifecycleTypeOK ==
  /\ stage \in [Ids -> Stages]
  /\ best \in [Ids -> Int \cup {None}]

LifecycleInit ==
  /\ stage = [i \in Ids |-> "new"]
  /\ best = [i \in Ids |-> None]

Move(id, from, to) == stage[id] = from /\ stage' = [stage EXCEPT ![id] = to]

Track(id) == Move(id, "new", "tracked") /\ best' = [best EXCEPT ![id] = -1]

TrackFails(id) == Move(id, "new", "lost") /\ UNCHANGED best

Observe(id) ==
  /\ stage[id] = "tracked"
  /\ best'[id] \in Int /\ best'[id] > best[id]
  /\ best' = [best EXCEPT ![id] = best'[id]]
  /\ UNCHANGED stage

Decide(id) == Move(id, "tracked", "decided") /\ UNCHANGED best

Judge(id) == Move(id, "decided", "judged") /\ UNCHANGED best

\* An eviction or a crash loses any number of predictions at once.
Lose(ids) ==
  /\ \A i \in ids : stage[i] \in {"tracked", "decided"}
  /\ stage' = [i \in Ids |-> IF i \in ids THEN "lost" ELSE stage[i]]
  /\ best' = [i \in Ids |-> IF i \in ids THEN None ELSE best[i]]

LifecycleNext ==
  \/ \E ids \in SUBSET Ids : Lose(ids)
  \/ \E id \in Ids :
       Track(id) \/ TrackFails(id) \/ Observe(id) \/ Decide(id) \/ Judge(id)

Lifecycle == LifecycleInit /\ [][LifecycleNext]_<<stage, best>>
=============================================================================
