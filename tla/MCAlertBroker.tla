---------------------------- MODULE MCAlertBroker ----------------------------
(***************************************************************************)
(* Small instances of AlertBroker: two partitions, one or two publishers   *)
(* and clients, and a buffer of one or two alerts.                         *)
(***************************************************************************)
EXTENDS AlertBroker, TLC

CONSTANTS a1, a2, c1, c2, p1, p2, red, blue, garbled

TwoParts   == {a1, a2}
OneClient  == {c1}
TwoClients == {c1, c2}

TwoPublishers == {p1, p2}
OnePublisher  == {p1}
\* Clients have the same filter and are interchangeable, and so are publishers.
BothSymmetry == Permutations(TwoClients) \cup Permutations(TwoPublishers)

MCTags     == {red, blue, garbled}
MCHashed   == [t \in MCTags |-> IF t = red THEN a1 ELSE a2]
MCWanted   == [c \in Clients |-> {red}]

Steady   == [k \in AlertBudgetKinds |-> 0]
Fanout   == [Steady EXCEPT !["alerts"] = 2, !["losses"] = 1]
Anything == [k \in AlertBudgetKinds |-> CASE k = "alerts" -> 2 [] k = "losses" -> 0 [] OTHER -> 1]
Flaky    == [Steady EXCEPT !["failures"] = 1]
Stop     == [Steady EXCEPT !["signals"] = 1]
=============================================================================
