--------------------------- MODULE MCMssqlInspect ---------------------------
(***************************************************************************)
(* MssqlInspect with one catalog query for the eight of the registry, and  *)
(* the module and Agent queries.  The view is listed by the catalog, for a *)
(* computed column, and by the modules.  Two job steps, of which one may   *)
(* take the place of the other.                                            *)
(***************************************************************************)
EXTENDS MssqlInspect, TLC

CONSTANTS step1, step2

Steps == {step1, step2}

\* nothing tells the job steps apart
Symmetry == Permutations(Steps)

ObjectNames == {"view"} \union Steps

RegistryOrder == <<"columns", "modules", "jobs", "job_step_commands">>

CategoryTable == [columns |-> "database_catalog", modules |-> "module_definitions",
                  jobs |-> "agent_jobs", job_step_commands |-> "agent_job_step_text"]

ListsTable == [columns |-> {"view"}, modules |-> {"view"},
               jobs |-> Steps, job_step_commands |-> Steps]

DefiningQueries == {"columns", "modules"}

\* overlapping scopes; everything; and a named database, which is or is not
\* the one that answers
CommandLines ==
    {[scope |-> <<"schema", "object">>, jobs |-> FALSE, text |-> FALSE,
      expect |-> "none", markdown |-> TRUE],
     [scope |-> <<"all">>, jobs |-> TRUE, text |-> TRUE,
      expect |-> "none", markdown |-> FALSE],
     [scope |-> <<"all">>, jobs |-> TRUE, text |-> FALSE,
      expect |-> "same", markdown |-> FALSE],
     [scope |-> <<"all">>, jobs |-> FALSE, text |-> FALSE,
      expect |-> "other", markdown |-> FALSE]}

CoverTable == [all |-> ObjectNames, schema |-> {"view"}, object |-> {"view"}]
=============================================================================
