--------------------------- MODULE MCPendingStore ---------------------------
(***************************************************************************)
(* Small instances of PendingStore.  The code's 30-minute window, 10-minute*)
(* slack and 50-minute index TTL are 3, 1 and 5 clock units of ten minutes *)
(* where sweepers run at any pace, and 6, 2 and 10 units of five minutes   *)
(* where they run on time.                                                 *)
(***************************************************************************)
EXTENDS PendingStore, TLC

CONSTANTS p1, p2, w1, w2

TwoIds == {p1, p2}
OneSweeper == {w1}
TwoSweepers == {w1, w2}

\* The sweepers of two processor instances are interchangeable.
SweeperSymmetry == Permutations(TwoSweepers)

MCBaseline  == [i \in Ids |-> IF i = p1 THEN 0 ELSE 20]
MCDirection == [i \in Ids |-> IF i = p2 THEN 1 ELSE -1]

\* A large and a small delay, the large one in the other direction than p2's or
\* observed after the first windows closed.
MCEvents == {[delay |-> 60, at |-> 1, dir |-> 1], [delay |-> 90, at |-> 1, dir |-> 0],
             [delay |-> 90, at |-> 8, dir |-> -1]}
OneEvent == {[delay |-> 60, at |-> 1, dir |-> 1]}

Calm      == [k \in EvalBudgetKinds |-> 0]
Races     == [Calm EXCEPT !["events"] = 1, !["crashes"] = 1, !["delFailures"] = 1,
                !["getErrors"] = 1]
Matches   == [Calm EXCEPT !["events"] = 2, !["updateErrors"] = 1, !["addFailures"] = 1]
GetErrors == [Calm EXCEPT !["getErrors"] = 1]
=============================================================================
