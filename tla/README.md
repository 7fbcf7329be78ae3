# Formal models of the agent migration pipeline

The repository is a harness for migrating a Microsoft SQL Server system with the
help of agents: Python scripts that guard and inspect databases, validators that
decide whether the migration's own records may be merged, and an agent protocol
that keeps the project's state in two Markdown files. This directory holds TLA+
modules for the parts of it that keep state or decide what may happen, the TLC
configurations that check them on small instances, and proofs of their main
properties for every instance, checked by TLAPS.

All paths below are relative to the repository's root.

## 1. The system

### 1.1 Components

| Component | State | Operations | Where |
|---|---|---|---|
| Database guard | a session: writable or not, open or closed, its connection; the audit trail in the sink | `open_session`, `fetch`, `execute`, `close`, attestation | `scripts/db/db_guard.py` |
| Connectors | a driver connection and its open transaction | `connect`, `identity_probe`, `fetch`, `execute` with commit and rollback, `close` | `scripts/db/connectors/` |
| Connection profiles, target metadata | two registries, read at each opening | `resolve_connection_profile`, `validate_expected_targets`, `expected_target_for` | `scripts/db/connection_profiles.py`, `target_metadata.py` |
| SQL classifier | none | `classify_batch` | `scripts/db/sql_classification.py` |
| MSSQL inspector | capture in memory, `snapshot.json`, `snapshot.md` | one capture: target check, probes, queries, writes | `scripts/db/mssql_inspect.py` |
| Durable state protocol | `migration/QUEUE.md`, `migration/STATE.md`, artifacts, gate evidence | a transaction, recovery, stop | `.opencode/agents/migration-coordinator.md`, `docs/11-durable-state-protocol.md` |
| Durable state validator | none | `validate_durable_state` | `scripts/validate_scaffold.py` |
| Evidence grade transition check | the record in the base revision and in the proposed one | compare one record or all | `scripts/validate_grade_transition.py` |
| Composite judge | none | combine verdicts | `migration/judge/` |
| STOP-condition synchronisation | the policy in `AGENTS.md`, one managed block in every agent file | check, rewrite | `scripts/sync_agent_stop_conditions.py` |
| Open-question check | two revisions of `docs/05-open-questions.md` | compare | `scripts/check_oq_updates.py` |
| Feature lifecycle | a feature's documents and card, its four queue rows, the open questions, the judge's configuration and its negative controls | sessions of `migration-spec`, `-design`, `-implement`, `-review`, `-verify`; STOP, resume, unblock, reopen | `.opencode/commands/`, `docs/11-stop-condition-contract.md`, `scripts/validate_scaffold.py` |
| Documents, commands, driver boundary, environment example | none | text, schema and syntax-tree checks | `scripts/validate_scaffold.py`, `check_doc_links.py` |
| Target backend and frontend | none | a health route, one error envelope, a page | `target/` |

### 1.2 How they interact

- The guard owns every database access. It looks the profile up in both
  registries, connects through a connector, probes the identity of what answered,
  compares, and only then hands out a session. `fetch` and `execute` classify
  the batch first; `execute` puts an event into the audit sink before and after
  the driver call. The inspector is a client of a session opened for reading.
- Coordinators (agents started by a person, one after another or side by side)
  communicate only through the two files; the validator judges the files at any
  time, from CI or from the command line.
- Within a feature, sessions communicate through its documents, the question
  registry, the card and the queue rows, written in this order. A verification
  asks the composite judge; its verdict goes into the report, from there into
  the card's stage and from there into the last row.
- The grade check reads the base revision from Git and the record from the
  working tree; what it accepts is the base of the next change.

### 1.3 What is hard here

- *Guard*: every call cuts a driver, a transaction and an audit sink in several
  places, each of which can fail, and the process can die between any two. Nothing
  excludes another call of the same session or its close in between, from a callback
  of the sink or from another thread. The audit events and the effects must never
  disagree in the wrong direction.
- *Durable state*: a transaction is two file writes with a re-hash before each.
  Sessions end anywhere, and nothing excludes a second coordinator.
- *Inspector*: the queries run one by one, in no common transaction, against a
  database other people change, with permissions that can be revoked between the
  probe that establishes visibility and the query that relies on it.
- *Grade check*: each run compares two neighbouring versions, but what is promised
  (append-only history, evidence spent once) is about all versions.
- *Feature lifecycle*: a session may end between any two of its files, and
  contract, design, code and judge may change between two sessions, so that a
  result on disk may be about something that is no longer there.
- *STOP synchronisation*: files are rewritten in place, one by one, around
  markers that people may have moved or deleted.
- *Open-question check*: it sees a diff, and git chooses which lines a diff keeps.
- *Classifier*: a pure function whose answer must survive every way of writing
  the same statements: wrapped, reordered, joined, nested.

`PROJECT.json` lists these hazards line by line with the properties that cover
them; the ones without a property say why.

## 2. The modules

| Module | Models | Builds on |
|---|---|---|
| `WriteAuthority` | what the guard promises: a session may acquire a database, a call is licensed before it takes effect, production is never held for writing | |
| `DbGuard` | guard, connectors and both registries | refines `WriteAuthority` |
| `DbGuardProofs` | its theorems | `DbGuard` |
| `DurableRecord` | what the protocol promises a reader: whole transactions, each summarised before the next | |
| `DurableState` | coordinators, the two files, crashes, the validator's rules | refines `DurableRecord` |
| `DurableStateProofs` | its theorems | `DurableState` |
| `MssqlInspect` | one capture beside a changing database | |
| `MssqlInspectProofs` | its theorems | `MssqlInspect` |
| `GradeTransition` | one record under editing, checking and acceptance | |
| `GradeTransitionProofs` | its theorems | `GradeTransition` |
| `SqlClassifier` | `classify_batch` over tokens, and the writing of a batch phrase by phrase | `Selection` |
| `Selection` | the list comprehension of the scripts, `[x for x in s if x in wanted]`, written so that it can be reasoned about | |
| `SelectionProofs` | induction over numbers, least elements, recursive functions, and the laws of `Only` | `Selection` |
| `SqlClassifierProofs` | its theorems | `SqlClassifier`, `SelectionProofs` |
| `StopSync` | the policy, the agent files, a sync that may fail anywhere, and `--check` | `Selection` |
| `CompositeJudge` | the verdict over the evidence sources | |
| `FeatureLifecycle` | one feature from specification to done, its STOPs and its verdict | extends `CompositeJudge` |
| `FeatureLifecycleProofs` | the laws of the judge and the theorems of the feature | `FeatureLifecycle` |
| `OqUpdates` | the question registry's history and the check of its diffs | |
| `MCRepoGates` | the composition of the last three components for TLC | `StopSync`, `FeatureLifecycle`, `OqUpdates` |
| `RepoGatesProofs` | the theorems of `StopSync`, `OqUpdates` and the composition | `MCRepoGates`, `FeatureLifecycleProofs`, `SelectionProofs` |
| other `MC...` | the tables and symmetries of the TLC instances | the module of that name |

Modules contain a few definitions no action uses (`LeakOnMismatch`,
`DeriveFromOldQueue`, `KeepsCommonRows` and so on). Each is a plausible mistake in
the definition that follows it; substituting it must violate the property it is
listed with under "mutants" in `PROJECT.json`. That is how we know the properties
can fail.

### 2.1 DbGuard

State and code: `session[s]` is a `GuardedSession` (`phase`, `writable`, profile,
and the database the connection really leads to); `conn[s]` the driver's
connection; `txn[s]` the calls whose work is pending in its transaction; `committed`
what is durable; `discarded` is history: the calls whose pending work another call took back;
`call[c]` one `fetch` or `execute` with the class of its batch and the step it has
reached; `audit[c]` and `openAudit` the events the sink accepted; `delivered` the
calls whose SQL a driver has seen; `targets` the content of the expected-target
registry, chosen once in `Init`.

Actions: `OpenWithoutToolId`, `OpenRefused`, `Connect`, `ProbeFails`,
`AttestationMismatch`, `AttestationMatch`, `CloseFailedConnection` are the exits
of `open_session` (each of them cleans up and audits as the code does); `Fetch`,
`FetchBlocked`, `FetchOnClosed`, `FetchFails` those of `fetch` behind `AdmitFetch`; `ExecuteDenied`,
`ExecuteOnClosed`, `Admit` (the check that the session is open), `PreAuditFails`, `PreAudit` the part
of `execute` before the driver;
`CursorFails`, `StatementRuns`, `StatementRaises`, `Rollback`, `Commit`,
`CommitFails`, `ReportSuccess`, `ReportFailure` the connector's `execute` and the
audit behind it; `Close` and `CloseConnection` the two halves of `close` (first the flag, then
the connection); `Crash`.

`_ensure_open` is asked once, before the audit event. The model lets everything happen
after that: the session is closed, its connection too, another call of the session
runs. A call that was admitted goes on after `Close`; when the connection is closed
its cursor or its commit fails. `EndedSessionIsQuiet` says exactly this: after `close()`
no call starts, and what was admitted before reaches the driver, or becomes durable, only
until the connection is closed. Calls of one session share one transaction, as
they share one driver connection: a commit of one makes durable what the other has
pending, a rollback discards it (`Discard`), and the other's own commit then
reports success. `SuccessIsDurable` excepts these calls by name.

Assumptions and abstractions:

- The registry is trusted. If it names a production server as the test target,
  attestation succeeds and the model allows what the code allows;
  `ProductionNeverWritten` speaks of the databases the registry calls
  production. The committed registry is blank, so every opening is refused today.
- A database always reports the same identity. Identities are compared folded
  inside the registry and exactly against the probe, as in the code; `PROD` and
  `prod` are in the instance for that.
- The order in which an opening's reasons are examined affects the text of the
  reason only, so `OpenRefused` is one action.
- A batch that contains its own COMMIT or ROLLBACK carries `control`; its effect
  on the transaction is part of `StatementRuns`.
- Exceptions outside `Exception` (an interrupt) appear as `Crash` only.
- Reads are not audited, and calls on a closed session are refused unaudited;
  this is what docs/12-db-execution-safety-contract.md says too.

### 2.2 DurableState

`queue` and `state` are the files, `artifacts` the completion artifacts on disk,
`passed` the gates recorded as passed. `coord[c]` is what a coordinator knows:
the copies it read, the table it plans, whether it pauses the project, and how
far it is. `human` is history: the human's last word. The program text
is the coordinator's procedure, which the agent harness executes step by step:
`Read` or `PauseOrResume` (1, with the choice of row updates, or none), `Persist` (2, artifacts and gate
results first), `CheckBoth` (3), `WriteQueue` (4), `DeriveAndCheck` (5
and 6), `WriteState` (7). `CheckBoth` and `DeriveAndCheck` abort the transaction
when a hash differs. `Recover` is what a coordinator does that finds the queue
ahead of the summary, `Stop` what it does when the summary is ahead, `Crash` the
end of its session. A blob hash is the content it stands for.

`Derive`, `Accepts`, `Status`, `RowsHold`, `ListsAgree` are
`validate_durable_state`. A coordinator records the status that the protocol
defines for the rows; where there is none it records "NONE", which the validator
rejects (see the findings).

A pause or a resume is a transaction that leaves the rows alone; a gate may be
evaluated in it. While the project is paused only a gate is evaluated, and
`Summary` keeps the pause; a resume derives the status anew. `Recover` has no pause to
carry on: it is in neither file it derives from, so a pause whose transaction died
after `QUEUE.md` was written is lost. `HumanIsObeyed` therefore speaks of behaviours
without a crash.

A run starts at generation 1 with files that the validator accepts and no DONE
row. Malformed files are left out; a feature's card and questions, which the same
transaction persists, are the subject of `FeatureLifecycle`.

### 2.3 MssqlInspect

`db` is the source as it is now, `args` the command line, `run` the position in
`run_snapshot`, `rows`, `failed`, `done` the results by query and scope item,
`json` and `md` the two files (absent, torn, whole). `steady` and `lapsed` are history: the objects
nobody has altered during the capture and the permissions that were revoked.
Every query either fails or answers with all rows its principal may see; without
the permission it may answer with any subset, silently, which is what SQL
Server's metadata visibility does. `Status` is `_CategoryTally.status`.

A row is an object and the place it had when it was listed. A table is its own
place; a job step's place is its job name and step number, by which
`_merge_job_commands` attaches a command to a step. When a step is deleted the
steps behind it are renumbered, so that a command read later can belong to the
step that was there before: `Alter` may move job steps to any places (`Placings`),
`Attached` and `Merged` match by place as the code does, and `AbsenceIsEvidence`
claims a step's text only if the step stayed where it was.

### 2.4 GradeTransition

`base` is the record as last accepted, `draft` the working tree; any edit may be made to
the draft (`Create`, `Delete`, `Decide`, `Regrade`, `Rewrite`, `Truncate`,
`Mention`, `Rename`), then `Accept` or `Reject`, the two outcomes of
the check. A reference is known when its text occurs anywhere in an earlier
text: `Inside` says which references are part of which others. `settled` and
`adopted` are history: the rows accepted so far and the record's first decision.

One record per path; the base is the last accepted revision (with an explicit
older base the tool lets rows accepted in between be rewritten). A cell of
separators only is an empty cell. CI does not run this check today.

### 2.5 SqlClassifier

`tokens` is a batch being written phrase by phrase; `torn` says that the tokenizer
found it malformed. Everything else is operators: `Statements` splits,
`StatementClass` walks a statement, `ClassOfStatements` folds `_safer_class` (`Worst` is
the fold). `CteFinal` follows the definitions of a `WITH` list from one to the next
(`AfterDefinition`), as the loop of `_cte_final_token` does.
They agree with the Python `classify_batch` on thousands of random batches of
the instance's phrases. The tokenizer's treatment of characters (comments,
quotes, numbers, dollar quoting), redaction, the statement hash and the preview are not modelled.

### 2.6 StopSync

A file is a sequence of tokens: headings, the two markers, policies, STOP
payloads, other text. `ReplaceBlock` is `_replace_agent_block` with its four ways
(markers and a heading, markers only, a heading only, neither); `SyncStart` reads
the policy once, `SyncFile` writes one file, `SyncFinish` ends, `SyncFail` ends
anywhere, with the file at hand as it was or torn at any token. `BlockErrors` and
`HandlingErrors` are `--check`. `EditPolicy` is a person at `AGENTS.md`, before, during
or after a sync, who may also break the policy.

`SyncRepairs` is claimed of files that are `Regular` at first: one stop section, with
the markers in order and not separated from it, and its heading written as `--write`
writes it (unless it stands between the markers and is replaced with them). For one begin
and one end marker in the wrong order the code repeats the text between them at every run,
and two sections or pairs of markers are reported by `--check` and never repaired; the
model does both, and neither is claimed to be otherwise.

The stop heading has two tokens, `stop` and `STOP`, the latter in another case: rewriting
a marked block heeds the case (l.192), the branch for an unmarked section and `--check` do
not (`Stops`). A file headed `## Stop Conditions` therefore gets a second heading with the
second sync and fails `--check` from then on. `sync_heading` shows it against the document's
claim, `BlocksAreRefreshed`.

### 2.7 CompositeJudge and FeatureLifecycle

`Judge` is `judge()` on the set of results, with the entries it adds for expected
sources that reported nothing (`Merge`). A list may be taken as a set since the
verdict looks at membership only.

In `FeatureLifecycle`, `docs` holds each document's revision, the revisions it was
written about and the unknown facts it declares; `card`, `questions` and `rows` the
other files; `session` the running session. `Begin` checks a command's
preconditions and claims the row; `WriteContract`, `WriteDesign`, `WriteCode`,
`WriteReview` and `WriteReport` write the document (`Keep` finds it written by a
session that died); `Register`, `UpdateCard`, `UpdateRow` persist questions, card and
row; `Die` ends the session between any two. A document that meets an unknown fact ends
in a STOP: the question is registered, the card is blocked with its stage kept, the
row is blocked by the question. This goes for all five documents: a review or a report that
meets one gets the verdict BLOCKED. `met` is history: what a session met and put into
its document, by row. A document is rewritten with what it had declared unknown and nobody has
answered (`Needs`; uncertainty-management/SKILL.md:48-53 forbids to remove a question silently).
A failed gate at the end of `spec` or `design` blocks the card, too (docs/02:28 and 66), the missing
authorization besides the row. `FinishStop` is the coordinator's half of a STOP
whose session died. `Resolve`, `Authorize`, `ChangeConfig` are humans, at any time;
`UnblockCard`, `UnblockRow` and `Reopen` the steps a coordinator takes afterwards.
`PassControl` records a passing negative control of the configuration in effect; after
`FailControl` the session's self-check is FAIL, without either it is BLOCKED, and in both cases
so is the verdict.
`Complete(r)` is the completion condition of a queue row, `FilesAlwaysValid` what
`validate_feature`, the row rules and the report's schema demand.

The procedures are read from the commands and contracts that agents execute; where
they leave something open the model takes the reading the validator enforces:

- A row is written in one step: `DurableState` is about how.
- A completed feature stays completed. docs/11-stop-condition-contract.md:94 keeps the
  stage of a stopped feature, `validate_scaffold.py:798` refuses `blocked` for
  `done`, and no command says which stage a reopened feature has (a hazard).
- `verify` asks for a review without open findings, not for a review of the present code, nor
  for one that is not BLOCKED: a review that met an unknown fact and died before registering it
  can be verified. The row stays open then, because its completion needs a review PASS
  (`ReviewedPass`), which is what `NoRowOverUnknown` comes down to for the last row.
- Failing preconditions change nothing: the durable blocker that a command may record for
  them is left out.
- The report is about the configuration it was written under. One that is changed before the
  row is completed is not looked at by any command, and no property speaks of it.
- `RowsValid` and `ReportValid` hold by the way rows and reports are written (`SetRow`,
  `WriteReport`); they are part of what the validator checks, and the other parts carry the content.
- The sources submit a PASS, a FAIL or nothing (`Submissions`): PARTIAL, and INSUFFICIENT
  results, occur in the theorems of the judge only.
- A new design starts without the implementation authorization (G3.5), whose
  absence blocks the design row.
- Left out: discovery, the schemas of evidence inside documents, several features at a time.

### 2.8 OqUpdates

`oqCommits` and `oqTree` are the registry's history and working copy. `Diffs` is
any diff: it keeps a common subsequence of lines, which one is git's choice.
`Compared` is `pick_diff` (the working tree, or else the last commit),
`StatusChanges` and `HasEvidence` the two tests, `CheckOq` the tool.
Kept as in the code: one evidence marker vouches for all changed questions, and
only the last commit is compared. IDs of which one begins with another are left out.

### 2.9 MCRepoGates

The three gates act on different files and share nothing, so their product would only
multiply states. `gate` selects the part that moves; the other two rest in one
state. Every part is explored from all of its own initial states.

## 3. What TLC checks

Each run finishes within about four minutes on two workers. Deadlock checking is on in `repo_gates`
and `sync_heading` and off in the other runs because these systems may stop: calls, crashes, edits,
captures and batches are bounded, and a finished capture or a stopped coordinator does nothing more.

| Run | Question | Instance and why it is enough |
|---|---|---|
| `guard` | Can hazardous SQL reach production, or any SQL a database its profile is not registered for, or a refused opening leave a connection? Do effects, audit trail and reported results agree while calls and closes overlap and anything fails? Does the guard implement `WriteAuthority`? | Two instances, which `MCInit` chooses between (`instance`). `registry`: one session and one call, the three profiles of the repository, all 125 contents of the registry over three identities (two differ in case only) plus blank and malformed entries, connection strings that lead to any of four databases. One session is enough: registry and opening do not depend on other sessions. `calls`: two sessions and two calls, which may be calls of one session, so that a call, a close or a crash falls into every gap of another call; connections under one profile to one database, which the registry may call a test or a production target; at most one of the two batches carries its own COMMIT or ROLLBACK; a read is fetched here and executed in `registry`. Symmetric in sessions and calls. Also checks `Inv`, the invariant of the proofs. |
| `guard_failed_call` | (expected violation) Does a call reported as failed stay without effect? | as `guard` |
| `durable_recovery` | With one coordinator at a time that may die anywhere: do the files agree, and is an interrupted transaction finished? Is the human's pause obeyed when nobody dies? Do they implement `DurableRecord`? Also checks `SerialInv`, the invariant of the proofs. | Three rows (one with a dependency, one spanning two phases), two gates, three transactions (pause, a gate evaluated while paused, resume), two crashes: a crash in a transaction and another in its recovery. |
| `durable_race` | With two coordinators: does the queue satisfy the validator's row rules whatever is overwritten? | Two coordinators, a dependency, one gate, two transactions each way, one crash. |
| `durable_overwrite` | (expected violation) Is a concurrent write never silently overwritten? | as `durable_race` |
| `durable_status` | (expected violation) Does the validator accept a status that the protocol defines for every reachable state? | as `durable_recovery` |
| `inspect_capture` | Is what the capture claims (COMPLETE, absent, exit code 0) justified by what the database was all the time? | One query each for catalog, modules, jobs and step text; three objects: a view that may be encrypted or denied, and two job steps that may take each other's place; overlapping scope items; four command lines; one change or revocation anywhere. One change is enough to fall between a probe and a query or between two queries. Symmetric in the steps. Also checks `Inv`, the invariant of the proofs. |
| `grade_transition` | Does what was accepted keep its rows and its name, and spend no evidence twice? | Three grades, two references of which one is part of the other, three rows, two edits per change, two accepted changes: a change that misuses what the change before it did. |
| `grade_adoption` | (expected violation) Does evidence spent by the baseline of an adopted record count as spent? | as `grade_transition` |
| `classify_batches` | Is a read free of dangerous words, and does no rewriting of a batch make it look safer? | All batches of at most four of 19 phrases, which hold a word of every class, `WITH`, parentheses, separators, quoted names, and `BEGIN`/`SET`. Four phrases are enough to open a list, close it and put a statement behind it. |
| `repo_gates` | Does a sync repair what a failed one left and keep the role's text? Does a feature's DONE mean a verified feature, and are its files valid whenever a session ends? Does the question check see every status change? | Two agent files, one of them any arrangement of up to four markers and stop headings, or of up to three tokens with others among them, two policies and a broken one, one edit of the policy, one failed sync: a failure and an edit around one more sync. One question, two judge configurations, two required sources, four revisions of contract, design and code together: one of them revised behind the others; one source passes, fails or is silent while the others pass. `RepoInv` is the invariant of the part that moves: `RepairInv` of the sync and `FeatureInv` of the feature, which the proofs use, or the types of the question check. Registries of at most two rows with and without evidence, two commits. Symmetric in configurations. |
| `sync_heading` | (expected violation) Does a sync that ends leave a block that passes the check in every file? | One file with a stop heading in another case and no markers, two syncs, no edit and no failure. |

The properties, with what they say of the code, are commented in the modules. The
ones to read first: `ProductionNeverWritten`, `NoEffectWithoutRecord`,
`EndedSessionIsQuiet` (DbGuard); `EqualGenerationsAgree`,
`InterruptedIsRecovered`, `HumanIsObeyed` (DurableState); `AbsenceIsEvidence` (MssqlInspect);
`PromotionsBringEvidence` (GradeTransition); `NoStatementIsHidden`, `CteNeverLowers`
(SqlClassifier); `FinishedIsVerified`, `NoRowOverUnknown` (FeatureLifecycle);
`SyncRepairs` (StopSync); `StatusChangesAreSeen` (OqUpdates).

### Fairness

Only `DurableState` states fairness: weak fairness of every step of a running
coordinator (`Finish`): an agent that runs goes on with its procedure, and the
coordinator that is started next reads the files first. Starting a transaction
and dying are not fair. `InterruptedIsRecovered` and the liveness part of
`ImplementsRecord` hold under it for one coordinator at a time. The other modules
claim safety only: nothing in the guard, the inspector or the checks must happen,
and a feature's sessions are started by people.

### What the runs found

Five runs end in a counterexample that contradicts a document, a comment or a test
(the quotations are under "findings" in `PROJECT.json`):

1. `guard_failed_call`: `commit()` is outside the block that rolls back
   (`connectors/mssql.py:84`, `postgresql.py:89`). A call whose commit fails is reported
   and audited as failed, its work stays pending in a session that remains
   usable, and the next call's commit makes it durable. The same follows from a
   rollback that fails and is swallowed.
2. `durable_overwrite`: the re-hash before writing `QUEUE.md` and the write are
   two steps; two coordinators that both pass it overwrite each other. The row
   rules survive this (`durable_race`, `QueueAlwaysHolds`); the work of one does not.
3. `durable_status`: when the last row of a phase is DONE and the gate has not
   passed, the validator accepts only PAUSED, which docs/11 reserves for an
   explicit human pause.
4. `grade_adoption`: a record adopted together with a promotion may cite for the promotion
   what its own baseline row already cites.
5. `sync_heading`: `_replace_agent_block` looks for the heading of a marked block in its exact
   case (`sync_agent_stop_conditions.py:192`), everything else in lower case. A file headed
   `## Stop Conditions` gets a second heading from the second sync and fails the check for ever.

## 4. What is proved

The theorems hold for every value of the constants that satisfies the modules'
assumptions (`RegistryAssumption`, `QueueAssumption`, `GradeAssumption`, `CatalogAssumption` and their like: the tables
are functions on the sets they are about, bounds are natural numbers; TLC evaluates the
assumptions too). Six say more: `AgentAssumption`, that jobs and step text have one query
each and the steps are those of the jobs (as `QUERY_REGISTRY` has it); `CommandAssumption`, that
step text is asked for with jobs only, and that no scope means all of it; `FeatureAssumption`,
that `G3.5` is not the name of an open question; `TokenAssumption`, that words, quoted names and
symbols are different tokens and the name `X` of the list in `CteNeverLowers` is a word;
`SyncAssumption`, that the policy text holds no generated marker and is no heading (the code does
not check that: a policy with a marker in it would be published and then reported by `--check`);
`OqAssumption`, that no question has two rows in a registry.
The bounds in the guards only remove behaviours, and their values are free.

**DbGuardProofs.** `Inv` is the conjunction of five parts: `TypeOK`; `SessionInv`
(what a phase says about how the session was opened: connected means the profile
was allowed, open means attested, refused means no connection left, pending work means a live connection);
`OwnerInv` (a call belongs to an attested session, and a running one to a session
that is open or closed, but not gone); `AuditInv` (what a call's step
says about its trail); `EffectInv` (what it says about its SQL and its work: pending, durable, or
taken back by another call). No
part is inductive alone: an effect's record depends on the call's step, the step on its
owner, the owner on the session's opening. `GuardInvariant` proves
it step by step, one lemma per part. From it follow `NoProductionWrite` (a writable
session's profile is a test profile, a registry that passes validation
separates it from every production entry, and attestation ties the connection to
its own entry), `SqlOnlyToAttested`, `NoLeakOnRefusal`, `EffectsAreRecorded`,
`ReportedSuccessIsDurable` and `RefusalIsFinal`. None of them assumes anything about how calls
and closes overlap. `EndedSessionsStayQuiet` is an action property from the same invariant: the work that a
closed session may still make durable is that of calls admitted before, over a connection not yet closed; `GuardImplementsAuthority` maps every step to a
step of `WriteAuthority` or a stutter.

**DurableStateProofs.** For any number of coordinators: `TypeCorrect`, and `RaceInv`, the queue
rules together with what a coordinator is about to write, is inductive (the lemma
`PlansAlwaysHold`), hence `QueueAlwaysHolds`. `QueueHolds` alone is not: the table written
was checked three steps earlier. For one coordinator at a time
(`OneAtATime`, the hypothesis of these theorems): `SerialInv` says that a
coordinator's copies are the files and that a summary is the one its rows call
for; `StateFollowsQueue`, `EqualGenerationsAlwaysAgree` and
`SerialImplementsRecord` (the safety part of `DurableRecord`) follow.
`HumanAlwaysObeyed` needs `PauseInv` besides: until somebody dies, what a coordinator
carries through its transaction (the pause it was told of in step 1, or the summary
it has derived) is the human's last word, and the file follows when it is written.

**MssqlInspectProofs.** `Inv` has seven parts: `TypeOK`; `TargetInv` (nothing follows a
wrong target); `FilesInv` (the files come in order, behind the last query); `ProgressInv` (every
requested execution before the position was made); `VisibleInv` (a permission that was
proven, and not revoked since, is there); `SteadyInv` (what nobody touched is in its own
place, and no row shows anything else there); `CaptureInv` (an execution that returned listed what
it had to see). `CaptureInvariant` proves them together: what an answer must contain needs the
permission at that moment, which only the probe and the absence of a revocation give. From it
follow `AbsenceIsAlwaysEvidence` (COMPLETE means no failed execution, so that by `ProgressInv`
every one returned, and each listed its steady objects; for step text two queries
must agree about a place, which is what `SteadyInv` is for), `WrongTargetNeverSeen`,
`SuccessAlwaysMeansWhole`, `StepTextNeverAlone` and `TypeCorrect`.

**FeatureLifecycleProofs.** `FeatureInv` is the types and the validator's rules together
with `SessionInv` (a session works on a row in progress, and what it carries on is on disk),
`StageInv` (a finished feature has its first rows behind it), `DoneInv` (a DONE row is complete),
`ReportInv` and `ReviewInv` (a PASS was earned, a review's PASS by one that left nothing unknown) and
`MetInv` (no document forgets an unknown fact, reviews and reports among them). The heart is `ClaimedRow`: while a session runs the rows before its
own are DONE and no other is (`RowChain`, from the row order), so what it writes cannot
take a completed row's documents away, and the documents of the stage it will put on the card
exist already (`StageHasFiles`). `FeatureInvariant` has one lemma per action. From it
follow `FilesStayValid`; `FinishedAlwaysVerified`, where a PASS is traced to the sources with
`PassIsEarned` of the composite judge; and `NoDoneRowOverUnknown`.

The same module holds the laws of the composite judge, for any sets of sources and results:
`PassIsEarned` (a PASS is exactly: somebody reported, every expected source did, and every
result is PASS), `FailOutranks` and `FailIsReported` (FAIL is exactly a reported FAIL),
`PassIsMonotone` (a PASS survives dropping results as long as the sources still expected
report), `OnlyTheMissingReportLifts` (more evidence makes a PASS of something else
only by being the report that was missing).

**SqlClassifierProofs.** For batches of any length over any words and phrases, all five
properties. Rank and tie-break together are one order of the classes (`Order`;
`SaferCommutes`, `SaferAssociates`, `SaferNeverLowers`), so that a fold of `_safer_class`
returns the greatest of a *set* of classes (`WorstIsGreatest`): the class of a statement and
that of a batch depend on their parts only through such a set (`StatementIsGreatest`,
`ClassIsGreatest`), which is why `OrderNeverMatters`. The statements of a batch are what lies
between neighbouring separators (`StatementsAre`), every other token is in one of them
(`EveryTokenIsInAStatement`), and only `read` is below everything (`OnlyReadIsLeast`): hence
`ReadIsAlwaysPure`. A batch divided at a separator outside parentheses has the statements of both
sides (`Levels`, `EndsOfJoin`, `StatementsOfJoin`), and what is passed over in the whole cannot
make it safer than a side: `NoStatementIsEverHidden`. Its special case of a wrapper whose two
statements are transaction control gives `WrapperIsAlwaysTransparent`. For
`CteNeverLowersAny` the chase through the definitions is shown to move forward
(`DefinitionsEndBehind`), so that the recursive function is defined (`CteUnfold`) and ends at the
statement behind the list (`FinalBehindList`); every danger of the statement is still one
behind it (`ClassesBehind`). The property speaks of statements that begin with a word or a
quoted name other than `WITH`: one that begins with a comma continues the list, and one that
begins with `WITH` is no statement there.

**RepoGatesProofs.** `SyncRepairs` is not inductive; `RepairInv` is: no sync makes a regular file
irregular, even if it ends inside the write (`TornIsRegular`: the prefixes of a clean file, with
or without a cut token, are regular), and the files the sync is through with have no block error
under the policy it read. Each way of `_replace_agent_block` puts the block into the file as a
splice (`Splice`, `SectionSplice`, `HeadingSplice`), after which the places of headings and
markers are known (`ReplaceIsClean`). From this `SyncRepairsHolds`. For `RoleTextIsKeptHolds` the text
outside the block is a selection of the file, and selecting distributes over the pieces
of a splice (`ReplaceKeepsText`). `StatusChangesAlwaysSeen` holds for every diff that keeps a common
subsequence: a kept row is the same in both registries, and since an ID has one row, a
row whose status differs is kept nowhere, hence removed and added (`DiffsSeeStatus`). `RepoInvariant` puts
the three parts together: they share no state.

**SelectionProofs.** The library's induction theorems cannot be instantiated, so statements about all
numbers are proved through sets: the naturals that satisfy the statement contain 0 and the
successors of their elements, and a least element outside that set is impossible (`SetInduction`, from the
well-foundedness of `<`). From it `MinIsLeast`, the existence of recursively defined functions
(`LeftRecursion`), and what `Only` does to concatenations, ranges and increasing sequences.

**GradeTransitionProofs.** Only `Accept` changes what is accepted
(`OnlyAcceptance`), and an accepted history has the earlier one as a prefix
(`PrefixRows`), so what held of earlier rows still does: `TypeCorrect`,
`HistoryStaysAppendOnly`. For `PromotionsAlwaysBringEvidence` the argument is that the
text the check knows covers everything earlier rows cite (`KnownCoversCited`),
whatever the text-occurrence relation is.

**Only model-checked.** Liveness: `InterruptedIsRecovered` and the part of `ImplementsRecord`
that `DurableRecord` states by fairness. Temporal reasoning under fairness needs ENABLED, which
the prover does not handle. `Inv`, `SerialInv` and `RepoInv`, invariants of the
proofs, are checked by TLC as well.

## 5. Not modelled, and why

- Driver boundary (`validate_db_driver_boundary`), environment example and secret
  scan, document links, command, skill and agent contracts: checks of one text
  or syntax tree, without state or order.
- Target backend and frontend: stateless skeletons.
- CI: a list of commands.
- Markdown grammar, hashes, normalisation, redaction and rendering, wherever they occur.
- The abstract ports of the judge (`migration/judge/ports.py`): interfaces without
  logic; the reasons and summary texts of verdicts.
- Discovery, the schemas of the evidence inside documents, and several features at a time.

## 6. Plan

Done, in this order, the most important behaviour first: `DbGuard` with
`WriteAuthority`; `DurableState` with `DurableRecord`, then its pause and resume;
`MssqlInspect`; `GradeTransition`; `SqlClassifier`; `StopSync`; `CompositeJudge`;
`FeatureLifecycle`; `OqUpdates`. Proofs: `DbGuard`, `DurableState`, `GradeTransition`,
`CompositeJudge`, `MssqlInspect`, `FeatureLifecycle`, `SqlClassifier`, `StopSync`, `OqUpdates`
and `MCRepoGates`.

Left:

1. The tokenizer (comments, quotes, dollar quotes, `GO`), as a machine over classes of characters.
2. The schemas of evidence inside a feature's documents, if they come to depend on more than
   one document.

Small components share the run `repo_gates`, as one run per distinct question is the rule.
