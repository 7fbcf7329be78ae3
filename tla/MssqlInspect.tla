---------------------------- MODULE MssqlInspect ----------------------------
(***************************************************************************)
(* The MSSQL inspector (scripts/db/mssql_inspect.py): one read-only        *)
(* session captures the catalog of a live database with a fixed registry   *)
(* of queries, grades what it captured and writes snapshot.json and,       *)
(* when asked, snapshot.md.                                                *)
(*                                                                         *)
(* The queries run one after another and in no transaction, so others      *)
(* create, alter and drop objects and grant and revoke permissions while   *)
(* the inspector works.  A row is an object and the place it had when a    *)
(* query listed it: job steps are matched by job name and step number,     *)
(* which other steps take over when a step is deleted.  A query hides what *)
(* its principal may not see, and says nothing about it.  Texts, hashes,   *)
(* sorting and rendering are left out.                                     *)
(*                                                                         *)
(* StatusOfSuccess, StatusWithoutParent, BlockOnKnownMismatch,             *)
(* ProbeDatabaseOnly, AdvancePastLast and WriteJsonAndFinish are faulty    *)
(* variants that no action uses.                                           *)
(***************************************************************************)
EXTENDS Naturals, Sequences, FiniteSets

CONSTANTS
    Objects,    \* database objects and Agent job steps
    Registry,   \* the inventory queries, in the order of QUERY_REGISTRY
    Category,   \* [queries -> capabilities]
    Lists,      \* [queries -> SUBSET Objects]: what a query is about
    Defining,   \* queries whose records carry a definition
    Commands,   \* command lines: [scope, jobs, text, expect, markdown]
    Covers,     \* [items -> SUBSET Objects]
    Encrypted,  \* objects whose text the server may give no one
    Denied,     \* objects that an object-level DENY may hide
    MaxChanges  \* bound: changes others make during a capture

Queries == {Registry[i] : i \in DOMAIN Registry}

Capabilities == {"database_catalog", "module_definitions",
                 "agent_jobs", "agent_job_step_text"}

ASSUME CatalogAssumption ==
    /\ Registry \in Seq(Queries)
    /\ Category \in [Queries -> Capabilities]
    /\ Lists \in [Queries -> SUBSET Objects] /\ Defining \subseteq Queries
    /\ Encrypted \subseteq Objects /\ Denied \subseteq Objects
    /\ MaxChanges \in Nat

Of(cap) == {q \in Queries : Category[q] = cap}

\* one query each for the jobs and for the text of their steps
ASSUME AgentAssumption ==
    /\ {"jobs", "job_step_commands"} \subseteq Queries
    /\ Of("agent_jobs") = {"jobs"} /\ Of("agent_job_step_text") = {"job_step_commands"}
    /\ Lists["job_step_commands"] \subseteq Lists["jobs"]
    /\ "jobs" \notin Defining

\* --include-job-step-text needs --include-jobs; the default scope is everything
ASSUME CommandAssumption ==
    Commands \subseteq {c \in [scope : Seq(DOMAIN Covers), jobs : BOOLEAN, text : BOOLEAN,
                              expect : {"none", "same", "other"}, markdown : BOOLEAN] :
                        (c.text => c.jobs) /\ c.scope # <<>>}

VARIABLES
    db,      \* the database: what exists, in which place, who may see it
    args,    \* the command line; expect is "none" or relates to the database
    run,     \* the inspector: [pc, query, item, proven]
    rows,    \* [Queries -> captured rows], _CaptureRun.rows
    failed,  \* executions <<query, item>> that raised
    done,    \* executions <<query, item>> that returned
    json,    \* snapshot.json: "none", "torn" or "whole"
    md,      \* snapshot.md, likewise
    steady,  \* history: objects that nobody has touched since the start
    lapsed   \* history: permissions revoked since the start

vars == <<db, args, run, rows, failed, done, json, md, steady, lapsed>>
source == <<db, steady, lapsed>>
capture == <<rows, failed, done>>
disk == <<json, md>>

-----------------------------------------------------------------------------
(* Capabilities *)

Permissions == {"database", "msdb"}

\* what must be proven visible before a capability can be COMPLETE
VisibilityOf(cap) ==
    IF cap \in {"agent_jobs", "agent_job_step_text"} THEN "msdb" ELSE "database"

Requested(cap) ==
    /\ cap = "agent_jobs" => args.jobs
    /\ cap = "agent_job_step_text" => args.text

\* the Agent queries take no scope parameters: they run once
ItemsFor(q) == IF VisibilityOf(Category[q]) = "msdb" THEN <<"all">> ELSE args.scope

\* the commands attached to a job record: those of its job name and step number
Attached(r) == {x \in rows["job_step_commands"] : x.place = r.place}

\* the job records that have a command
Merged == {r \in rows["jobs"] : Attached(r) # {}}

Records(cap) ==
    IF cap = "agent_job_step_text" THEN Merged ELSE UNION {rows[q] : q \in Of(cap)}

\* records whose definition the server withheld
Unavailable(cap) ==
    {r \in UNION {rows[q] : q \in Of(cap) \intersect Defining} : r.object \in db.encrypted}

Failed(cap) == \E x \in failed : Category[x[1]] = cap

ParentFailed(cap) ==
    cap = "agent_job_step_text" /\ Requested("agent_jobs") /\ Failed("agent_jobs")

StatusOfSuccess(cap) ==
    CASE ~Requested(cap)                        -> "NOT_REQUESTED"
      [] Failed(cap) /\ Records(cap) = {}       -> "BLOCKED"
      [] ParentFailed(cap)                      -> "PARTIAL"
      [] Failed(cap) \/ Unavailable(cap) # {}   -> "PARTIAL"
      [] OTHER                                  -> "COMPLETE"

StatusWithoutParent(cap) ==
    CASE ~Requested(cap)                        -> "NOT_REQUESTED"
      [] Failed(cap) /\ Records(cap) = {}       -> "BLOCKED"
      [] run.proven[VisibilityOf(cap)] # "yes"  -> "PARTIAL"
      [] Failed(cap) \/ Unavailable(cap) # {}   -> "PARTIAL"
      [] OTHER                                  -> "COMPLETE"

\* _CategoryTally.status: the cases do not overlap where they differ
Status(cap) ==
    IF ~Requested(cap) THEN "NOT_REQUESTED"
    ELSE IF Failed(cap) /\ Records(cap) = {} THEN "BLOCKED"
    ELSE IF \/ ParentFailed(cap) \/ run.proven[VisibilityOf(cap)] # "yes"
            \/ Failed(cap) \/ Unavailable(cap) # {}
         THEN "PARTIAL"
    ELSE "COMPLETE"

-----------------------------------------------------------------------------
(* What others do meanwhile *)

Ended == {"done", "blocked", "raised", "died"}
Working == {"db_name", "database", "msdb", "inventory"}

Init ==
    /\ db \in [exists : SUBSET Objects, place : {[o \in Objects |-> o]},
               encrypted : SUBSET Encrypted, denied : SUBSET Denied,
               granted : [Permissions -> BOOLEAN], changes : {0}]
    /\ args \in Commands
    /\ run = [pc |-> "opening", query |-> 1, item |-> 1,
              proven |-> [p \in Permissions |-> "null"]]
    /\ rows = [q \in Queries |-> {}]
    /\ failed = {} /\ done = {}
    /\ json = "none" /\ md = "none"
    /\ steady = db.exists
    /\ lapsed = {}

JobSteps == Lists["jobs"]

\* the places a change may leave: no two job steps share one, and nothing but
\* job steps ever moves
Placings(exists) ==
    {place \in [Objects -> Objects] :
        /\ \A o \in Objects : place[o] # o => o \in exists /\ {o, place[o]} \subseteq JobSteps
        /\ \A o, p \in exists \intersect JobSteps : place[o] = place[p] => o = p}

\* Someone creates, drops or alters an object.  A job step may move, and the
\* steps behind it with it.
Alter(o) ==
    /\ run.pc \in Working /\ db.changes < MaxChanges
    /\ \E exists \in {db.exists \union {o}, db.exists \ {o}} :
       \E place \in Placings(exists) :
         /\ o \in db.exists \union exists
         /\ o \in JobSteps \/ place = db.place
         /\ db' = [db EXCEPT !.exists = exists, !.place = place, !.changes = @ + 1]
         /\ steady' = {x \in steady \ {o} : place[x] = db.place[x]}
    /\ UNCHANGED <<args, run, lapsed, capture, disk>>

\* someone grants or revokes a permission of the inspector's principal
Permit(p) ==
    /\ run.pc \in Working /\ db.changes < MaxChanges
    /\ db' = [db EXCEPT !.granted[p] = ~@, !.changes = @ + 1]
    /\ lapsed' = IF db.granted[p] THEN lapsed \union {p} ELSE lapsed
    /\ UNCHANGED <<args, run, steady, capture, disk>>

-----------------------------------------------------------------------------
(* run_snapshot *)

Goto(pc) == run' = [run EXCEPT !.pc = pc]

Open ==
    /\ run.pc = "opening"
    /\ \E pc \in {"db_name", "blocked"} : Goto(pc)
    /\ UNCHANGED <<source, args, capture, disk>>

BlockOnKnownMismatch(known) ==
    /\ run.pc = "db_name"
    /\ IF args.expect = "other" /\ known
       THEN \E pc \in {"blocked", "raised"} : Goto(pc)
       ELSE Goto("database")
    /\ UNCHANGED <<source, args, capture, disk>>

\* The DB_NAME() query answers or fails; a target that is not known to be
\* the expected one ends the capture, and closing the session may raise.
CheckTarget(known) ==
    /\ run.pc = "db_name"
    /\ IF args.expect = "other" \/ (args.expect = "same" /\ ~known)
       THEN \E pc \in {"blocked", "raised"} : Goto(pc)
       ELSE Goto("database")
    /\ UNCHANGED <<source, args, capture, disk>>

ProbeDatabaseOnly(p, answer) ==
    /\ run.pc = p
    /\ answer \in {"null", IF db.granted["database"] THEN "yes" ELSE "no"}
    /\ run' = [run EXCEPT !.proven[p] = answer,
                          !.pc = IF p = "database" /\ args.jobs THEN "msdb"
                                 ELSE "inventory"]
    /\ UNCHANGED <<source, args, capture, disk>>

\* database_visibility, and agent_visibility when jobs are asked for
Probe(p, answer) ==
    /\ run.pc = p
    /\ answer \in {"null", IF db.granted[p] THEN "yes" ELSE "no"}
    /\ run' = [run EXCEPT !.proven[p] = answer,
                          !.pc = IF p = "database" /\ args.jobs THEN "msdb"
                                 ELSE "inventory"]
    /\ UNCHANGED <<source, args, capture, disk>>

AdvancePastLast(r) ==
    IF r.item <= Len(ItemsFor(Registry[r.query])) THEN [r EXCEPT !.item = @ + 1]
    ELSE [r EXCEPT !.query = @ + 1, !.item = 1]

\* the next execution: the next item, or the first item of the next query
Advance(r) ==
    IF Requested(Category[Registry[r.query]]) /\ r.item < Len(ItemsFor(Registry[r.query]))
    THEN [r EXCEPT !.item = @ + 1]
    ELSE [r EXCEPT !.query = @ + 1, !.item = 1]

AtQuery == run.pc = "inventory" /\ run.query <= Len(Registry)

Skip ==
    /\ AtQuery /\ ~Requested(Category[Registry[run.query]])
    /\ run' = Advance(run)
    /\ UNCHANGED <<source, args, capture, disk>>

\* what a query can return: all it is about, or what its principal may see
Answer(q, item) ==
    LET listed == (db.exists \intersect Lists[q] \intersect Covers[item]) \ db.denied
        full   == {[object |-> o, place |-> db.place[o]] : o \in listed}
    IN  IF db.granted[VisibilityOf(Category[q])] THEN {full} ELSE SUBSET full

Execute ==
    /\ AtQuery /\ Requested(Category[Registry[run.query]])
    /\ LET q == Registry[run.query]
           x == <<q, ItemsFor(q)[run.item]>>
       IN  \/ /\ \E answer \in Answer(q, x[2]) :
                     rows' = [rows EXCEPT ![q] = @ \union answer]
              /\ done' = done \union {x}
              /\ UNCHANGED failed
           \/ /\ failed' = failed \union {x}
              /\ UNCHANGED <<rows, done>>
    /\ run' = Advance(run)
    /\ UNCHANGED <<source, args, disk>>

\* leaving the with block closes the session, which may raise
CloseSession ==
    /\ run.pc = "inventory" /\ run.query > Len(Registry)
    /\ \E pc \in {"closed", "raised"} : Goto(pc)
    /\ UNCHANGED <<source, args, capture, disk>>

\* write_text truncates the file and then fills it
OpenJson ==
    /\ run.pc = "closed" /\ json = "none"
    /\ json' = "torn"
    /\ UNCHANGED <<source, args, run, capture, md>>

WriteJsonAndFinish ==
    /\ run.pc = "closed" /\ json = "torn"
    /\ json' = "whole"
    /\ Goto("done")
    /\ UNCHANGED <<source, args, capture, md>>

\* Nothing that Status and Records speak of changes once the session is
\* closed: in any later state they say what the file says.
WriteJson ==
    /\ run.pc = "closed" /\ json = "torn"
    /\ json' = "whole"
    /\ Goto(IF args.markdown THEN "rendering" ELSE "done")
    /\ UNCHANGED <<source, args, capture, md>>

OpenMarkdown ==
    /\ run.pc = "rendering" /\ md = "none"
    /\ md' = "torn"
    /\ UNCHANGED <<source, args, run, capture, json>>

WriteMarkdown ==
    /\ run.pc = "rendering" /\ md = "torn"
    /\ md' = "whole"
    /\ Goto("done")
    /\ UNCHANGED <<source, args, capture, json>>

\* the process dies, or a directory or file cannot be written
Die ==
    /\ run.pc \notin Ended
    /\ Goto("died")
    /\ UNCHANGED <<source, args, capture, disk>>

Inspect ==
    \/ Open \/ (\E known \in BOOLEAN : CheckTarget(known))
    \/ (\E p \in Permissions, answer \in {"null", "yes", "no"} : Probe(p, answer))
    \/ Skip \/ Execute \/ CloseSession
    \/ OpenJson \/ WriteJson \/ OpenMarkdown \/ WriteMarkdown

Next ==
    \/ Inspect \/ Die
    \/ \E o \in Objects : Alter(o)
    \/ \E p \in Permissions : Permit(p)

Spec == Init /\ [][Next]_vars

-----------------------------------------------------------------------------
(* Properties *)

Rows(q) == [object : Lists[q], place : Objects]
Executions == Queries \X ({"all"} \union DOMAIN Covers)

\* Types; an execution is one of the registry's, for an item of the scope.
TypeOK ==
    /\ db \in [exists : SUBSET Objects, place : [Objects -> Objects],
               encrypted : SUBSET Encrypted, denied : SUBSET Denied,
               granted : [Permissions -> BOOLEAN], changes : 0 .. MaxChanges]
    /\ args \in Commands
    /\ run \in [pc : Ended \union Working \union {"opening", "closed", "rendering"},
                query : 1 .. Len(Registry) + 1, item : Nat \ {0},
                proven : [Permissions -> {"null", "yes", "no"}]]
    /\ run.item <= (IF run.query > Len(Registry) THEN 1
                    ELSE Len(ItemsFor(Registry[run.query])))
    /\ DOMAIN rows = Queries /\ \A q \in Queries : rows[q] \subseteq Rows(q)
    /\ failed \subseteq Executions /\ done \subseteq Executions
    /\ {json, md} \subseteq {"none", "torn", "whole"}
    /\ steady \subseteq db.exists /\ lapsed \subseteq Permissions

InScope(q) == UNION {Covers[ItemsFor(q)[i]] : i \in DOMAIN ItemsFor(q)}

\* a step's text is captured when its record has this text and no other
Captured(q) ==
    IF Category[q] # "agent_job_step_text" THEN rows[q]
    ELSE {r \in Merged : \A x \in Attached(r) : x.object = r.object}

\* "A category is COMPLETE only when ... recorded visibility preconditions
\* support an absence claim": what a COMPLETE capability does not list was
\* not there all the time, unless an object-level DENY hides it or the proven
\* permission was revoked while the capture ran.  The text of a job step that
\* stayed where it was is that of its own record, whatever moved around it.
AbsenceIsEvidence ==
    json = "whole" =>
        \A q \in Queries :
            Status(Category[q]) = "COMPLETE" /\ VisibilityOf(Category[q]) \notin lapsed =>
                \A o \in (steady \intersect Lists[q] \intersect InScope(q)) \ db.denied :
                    \E r \in Captured(q) : r.object = o

\* Job-step text is never complete evidence beside an incomplete job list.
StepTextNeverOutranksJobs ==
    json = "whole" /\ Status("agent_job_step_text") = "COMPLETE" =>
        Status("agent_jobs") = "COMPLETE"

\* With an expected database named, no inventory query reaches another one,
\* also when the name could not be read, and nothing is written.
WrongTargetSeesNothing ==
    args.expect = "other" => done \union failed = {} /\ json = "none"

\* Exit code 0 means that every file asked for is whole and every requested
\* query ran for every item of the scope; a rendering never stands alone.
SuccessMeansWholeCapture ==
    /\ run.pc = "done" =>
         /\ json = "whole" /\ args.markdown => md = "whole"
         /\ \A q \in Queries : Requested(Category[q]) =>
              \A i \in DOMAIN ItemsFor(q) : <<q, ItemsFor(q)[i]>> \in done \union failed
    /\ md # "none" => json = "whole"

-----------------------------------------------------------------------------
(* Inductive invariant *)

Early == {"opening", "db_name", "database", "msdb"}

\* nothing follows the check of a wrong target
TargetInv ==
    args.expect = "other" =>
        /\ run.pc \in {"opening", "db_name", "blocked", "raised", "died"}
        /\ done \union failed = {} /\ json = "none"

\* the files are written in order, behind the last query
FilesInv ==
    /\ run.pc \in Early => done = {}
    /\ run.pc \in {"closed", "rendering", "done"} \/ json # "none" => run.query > Len(Registry)
    /\ run.pc \in Early \union {"inventory"} => json = "none"
    /\ run.pc \in Early \union {"inventory", "closed"} => md = "none"
    /\ run.pc \in {"rendering", "done"} \/ md # "none" => json = "whole"
    /\ run.pc = "done" /\ args.markdown => md = "whole"

Passed(i, j) == i < run.query \/ (i = run.query /\ j < run.item)

\* every requested execution before the present one was made
ProgressInv ==
    \A i \in DOMAIN Registry : Requested(Category[Registry[i]]) =>
        \A j \in DOMAIN ItemsFor(Registry[i]) :
            Passed(i, j) => <<Registry[i], ItemsFor(Registry[i])[j]>> \in done \union failed

\* the permission was there when it was proven, and ever since
Visible(p) == run.proven[p] = "yes" /\ p \notin lapsed

VisibleInv == \A p \in Permissions : Visible(p) => db.granted[p]

\* an object nobody touched has its own place, and no row shows another one
\* there, or it elsewhere
SteadyInv ==
    /\ \A o \in steady : db.place[o] = o
    /\ \A o \in Objects : db.place[o] # o => {o, db.place[o]} \subseteq JobSteps
    /\ \A o, p \in db.exists \intersect JobSteps : db.place[o] = db.place[p] => o = p
    /\ \A q \in Queries : \A r \in rows[q] :
          /\ r.object \in steady => r.place = r.object
          /\ Lists[q] \subseteq JobSteps /\ r.place \in steady => r.object = r.place

\* an execution that returned listed what had to be visible to it
CaptureInv ==
    \A x \in done : Visible(VisibilityOf(Category[x[1]])) =>
        \A o \in (steady \intersect Lists[x[1]] \intersect Covers[x[2]]) \ db.denied :
            \E r \in rows[x[1]] : r.object = o

\* Together: what a capture knows at each step of what the database was.
Inv == TypeOK /\ TargetInv /\ FilesInv /\ ProgressInv /\ VisibleInv /\ SteadyInv /\ CaptureInv
=============================================================================
