--------------------------- MODULE WriteAuthority ---------------------------
(***************************************************************************)
(* What the guard promises, with no connection, audit sink, transaction or *)
(* registry in sight (docs/12-db-execution-safety-contract.md, "Safety     *)
(* model").  A session acquires the authority to write one database, which *)
(* is never a production database; it may license calls while it holds the *)
(* authority; only licensed calls take effect, and only while the session  *)
(* that licensed them still holds it.  Authority that was given up is      *)
(* never acquired again.                                                   *)
(***************************************************************************)
CONSTANTS Sessions, Calls, Databases, NoSession

VARIABLES
    production, \* databases that are production targets; never changes
    holder,     \* [Sessions -> "none", "spent", or the database it may write]
    license,    \* [Calls -> the session that licensed the call, or NoSession]
    applied     \* calls whose effects are durable

vars == <<production, holder, license, applied>>

Holds(s) == holder[s] \in Databases

Init ==
    /\ production \subseteq Databases
    /\ holder = [s \in Sessions |-> "none"]
    /\ license = [c \in Calls |-> NoSession]
    /\ applied = {}

Acquire(s, d) ==
    /\ holder[s] = "none"
    /\ d \notin production
    /\ holder' = [holder EXCEPT ![s] = d]
    /\ UNCHANGED <<production, license, applied>>

License(s, c) ==
    /\ Holds(s)
    /\ license[c] = NoSession
    /\ license' = [license EXCEPT ![c] = s]
    /\ UNCHANGED <<production, holder, applied>>

\* a commit makes everything pending in the session's transaction durable
Apply(s, C) ==
    /\ Holds(s)
    /\ \A c \in C : license[c] = s
    /\ applied' = applied \union C
    /\ UNCHANGED <<production, holder, license>>

Release(s) ==
    /\ holder[s] # "spent"
    /\ holder' = [holder EXCEPT ![s] = "spent"]
    /\ UNCHANGED <<production, license, applied>>

Next ==
    \E s \in Sessions :
        \/ \E d \in Databases : Acquire(s, d)
        \/ \E c \in Calls : License(s, c)
        \/ \E C \in SUBSET Calls : Apply(s, C)
        \/ Release(s)

Spec == Init /\ [][Next]_vars
=============================================================================
