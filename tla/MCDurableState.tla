--------------------------- MODULE MCDurableState ---------------------------
(* DurableState on a chain of rows, as Q-001, Q-004 and Q-007 in the queue. *)
EXTENDS DurableState, TLC

Rows2 == {"Q1", "Q4"}
Deps2 == [Q1 |-> {}, Q4 |-> {"Q1"}]
Phases2 == [Q1 |-> {0}, Q4 |-> {0, 1}]

Rows3 == {"Q1", "Q4", "S1"}
Deps3 == [Q1 |-> {}, Q4 |-> {"Q1"}, S1 |-> {}]
Phases3 == [Q1 |-> {0}, Q4 |-> {1}, S1 |-> {0, 1}]

Symmetry == Permutations(Coordinators)
=============================================================================
