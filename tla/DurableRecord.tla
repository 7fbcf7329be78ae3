--------------------------- MODULE DurableRecord ---------------------------
(***************************************************************************)
(* What the durable-state protocol promises a reader of migration/: the    *)
(* queue changes by whole transactions, each row along the allowed         *)
(* transitions, and every transaction is summarised in STATE.md before     *)
(* the next one starts (docs/11-durable-state-protocol.md).                *)
(***************************************************************************)
EXTENDS Naturals

CONSTANTS Rows

VARIABLES
    status,     \* [Rows -> status]
    gen,        \* transactions recorded so far
    published   \* the last one the project summary accounts for

vars == <<status, gen, published>>

Statuses == {"TODO", "IN_PROGRESS", "BLOCKED", "DONE"}

\* the normal life of a row, and the reopening of a finished one
Transitions == {<<"TODO", "IN_PROGRESS">>, <<"TODO", "BLOCKED">>,
                <<"IN_PROGRESS", "BLOCKED">>, <<"IN_PROGRESS", "DONE">>,
                <<"BLOCKED", "TODO">>, <<"DONE", "TODO">>}

Init ==
    /\ status \in [Rows -> Statuses]
    /\ gen = 1
    /\ published = 1

Transact ==
    /\ gen = published
    /\ gen' = gen + 1
    /\ status' \in [Rows -> Statuses]
    /\ \A r \in Rows : \/ status'[r] = status[r]
                       \/ <<status[r], status'[r]>> \in Transitions
    /\ UNCHANGED published

Publish ==
    /\ published # gen
    /\ published' = gen
    /\ UNCHANGED <<status, gen>>

Next == Transact \/ Publish

Safety == Init /\ [][Next]_vars

Spec == Safety /\ WF_vars(Publish)
=============================================================================
