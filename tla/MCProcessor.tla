----------------------------- MODULE MCProcessor -----------------------------
(***************************************************************************)
(* Small instances of Processor: thresholds of a few messages and one      *)
(* propagation slot, which two partitions compete for.                     *)
(***************************************************************************)
EXTENDS Processor

CONSTANTS q1, q2

OnePartition  == {q1}
TwoPartitions == {q1, q2}
OneSlot == {1}

Quiet    == [k \in ProcBudgetKinds |-> 0]
Anything == [k \in ProcBudgetKinds |-> 1]
Outage   == [Quiet EXCEPT !["failures"] = 1]
Stop     == [Quiet EXCEPT !["signals"] = 1]
=============================================================================
