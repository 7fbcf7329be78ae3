----------------------------- MODULE MCDbGuard -----------------------------
(***************************************************************************)
(* DbGuard on the repository's own registry: three profiles, two engines.  *)
(* Identities are named by the case-folded pair and a letter for the case. *)
(*                                                                         *)
(* A behaviour belongs to one of two instances.  "registry": every         *)
(* registry and every database a connection may lead to, one session with  *)
(* one call.  "calls": two sessions and two calls, one of which may carry  *)
(* its own transaction control, in any interleaving; connections are made  *)
(* under one profile and lead to one database, which the registry may call *)
(* a test or a production target.                                          *)
(***************************************************************************)
EXTENDS DbGuard, TLC

ProfileNames == {"mssql-prod-ro", "mssql-test-rw", "postgres-test-rw"}

EngineTable == [p \in ProfileNames |->
    IF p = "postgres-test-rw" THEN "postgresql" ELSE "mssql"]

EnvironmentTable == [p \in ProfileNames |->
    IF p = "mssql-prod-ro" THEN "production" ELSE "test"]

CapabilityTable == [p \in ProfileNames |->
    IF p = "mssql-prod-ro" THEN "read-only" ELSE "read-write"]

\* PROD and prod are one database to the registry and two to attestation
IdentityNames == {"PROD", "prod", "test"}
FoldedTable == [i \in IdentityNames |-> IF i = "test" THEN "test" ELSE "prod"]

DatabaseIdentity == [mssqlPROD |-> "PROD", mssqlprod |-> "prod",
                     mssqltest |-> "test", pgtest |-> "test"]
DatabaseEngine == [mssqlPROD |-> "mssql", mssqlprod |-> "mssql",
                   mssqltest |-> "mssql", pgtest |-> "postgresql"]
DatabaseNames == DOMAIN DatabaseIdentity

VARIABLE instance

WithinRegistry ==
    /\ \A s, t \in Sessions : s # t => "new" \in {session[s].phase, session[t].phase}
    /\ \A b, c \in Calls : b # c => "idle" \in {call[b].step, call[c].step}

\* a read batch is fetched here, and executed in the other instance, where
\* batches that nobody can classify are submitted, too
WithinCalls ==
    /\ \A s \in Sessions :
          /\ session[s].profile \in {"mssql-test-rw", NoProfile}
          /\ session[s].db \in {"mssqltest", NoDatabase}
    /\ \A c \in Calls :
          /\ call[c].class # "unknown"
          /\ call[c].class = "read" => call[c].step # "admitted"
    /\ \A b, c \in Calls : b # c => "none" \in {call[b].control, call[c].control}
    /\ \A p \in Profiles :
          targets[p] \in IF Engine[p] = "mssql" THEN {"prod", "test"} ELSE {Unresolved}

Within == IF instance = "registry" THEN WithinRegistry ELSE WithinCalls

MCInit == Init /\ instance \in {"registry", "calls"} /\ Within

MCNext == Next /\ UNCHANGED instance /\ Within'

MCSpec == MCInit /\ [][MCNext]_<<vars, instance>>

Symmetry == Permutations(Sessions) \union Permutations(Calls)
=============================================================================
