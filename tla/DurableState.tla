---------------------------- MODULE DurableState ----------------------------
(***************************************************************************)
(* The durable state of the migration: migration/QUEUE.md and STATE.md,    *)
(* the transaction by which a coordinator changes them                     *)
(* (.opencode/agents/migration-coordinator.md, the procedure the agent     *)
(* harness has the coordinator execute), what a coordinator does with an   *)
(* interrupted transaction, and the validator of the two files             *)
(* (validate_durable_state in scripts/validate_scaffold.py).               *)
(*                                                                         *)
(* Coordinators run side by side and may die between any two steps; the    *)
(* files survive.  The blob hash of a file is its content.  A blocker cell *)
(* is empty or not; a phase is the number of gates passed before it.       *)
(*                                                                         *)
(* StatusElsePaused, PersistNothing, PersistNextGate, WriteQueueInPlace,   *)
(* DeriveFromOldQueue and RecoverAsNewTransaction are faulty variants that *)
(* no action uses.                                                         *)
(***************************************************************************)
EXTENDS Naturals, FiniteSets

CONSTANTS
    Coordinators,
    Rows,
    Deps,           \* [Rows -> SUBSET Rows], acyclic
    PhasesOf,       \* [Rows -> SUBSET phases]; a row may span a range
    Gates,          \* number of gates; phase Gates means all are passed
    MaxGeneration,  \* bound: no transaction starts at this generation
    MaxCrashes      \* bound: coordinators that die

ASSUME QueueAssumption ==
    /\ Deps \in [Rows -> SUBSET Rows]
    /\ Gates \in Nat \ {0} /\ MaxGeneration \in Nat /\ MaxCrashes \in Nat
    /\ PhasesOf \in [Rows -> SUBSET (0 .. Gates)]

VARIABLES
    queue,      \* QUEUE.md: [gen, row]
    state,      \* STATE.md: [gen, phase, status, active, next, blocked]
    artifacts,  \* rows whose completion artifact is on disk
    passed,     \* gates whose passing is recorded in the gate evidence
    coord,      \* what each coordinator knows
    human,      \* history: the last word of the human, "go" or "pause"
    crashes

vars == <<queue, state, artifacts, passed, coord, human, crashes>>

-----------------------------------------------------------------------------
(* validate_durable_state: rows *)

Statuses == {"TODO", "IN_PROGRESS", "BLOCKED", "DONE"}

Tables == [Rows -> [status : Statuses, blocked : BOOLEAN]]

DepsDone(t, r) == \A d \in Deps[r] : t[d].status = "DONE"

\* the invariants of the live table's statuses
RowsHold(t) ==
    \A r \in Rows :
        IF t[r].status = "BLOCKED" THEN t[r].blocked \/ ~DepsDone(t, r)
        ELSE DepsDone(t, r) /\ ~t[r].blocked

\* a DONE row's completion artifact exists
ArtifactsExist(t, onDisk) == \A r \in Rows : t[r].status = "DONE" => r \in onDisk

-----------------------------------------------------------------------------
(* validate_durable_state: the summary against the rows *)

Relevant(phase) == {r \in Rows : phase \in PhasesOf[r]}

With(t, phase, st) == {r \in Relevant(phase) : t[r].status = st}

Actionable(t, phase) == With(t, phase, "TODO") \union With(t, phase, "IN_PROGRESS")

ListsAgree(t, s) ==
    /\ s.active = With(t, s.phase, "IN_PROGRESS")
    /\ s.next = With(t, s.phase, "TODO")
    /\ s.blocked = With(t, s.phase, "BLOCKED")

\* the project statuses the validator accepts for a table and a phase
Accepts(t, phase, st) ==
    CASE st = "PAUSED"   -> TRUE
      [] st = "COMPLETE" -> phase = Gates /\ \A r \in Rows : t[r].status = "DONE"
      [] st = "ACTIVE"   -> Actionable(t, phase) # {}
      [] st = "BLOCKED"  -> Actionable(t, phase) = {} /\ With(t, phase, "BLOCKED") # {}
      [] OTHER           -> FALSE

-----------------------------------------------------------------------------
(* Step 5: deriving the summary *)

StatusElsePaused(t, phase) ==
    IF phase = Gates THEN "COMPLETE"
    ELSE IF Actionable(t, phase) # {} THEN "ACTIVE"
    ELSE IF With(t, phase, "BLOCKED") # {} THEN "BLOCKED"
    ELSE "PAUSED"

\* "NONE" stands for a coordinator that finds no status the protocol defines
Status(t, phase) ==
    IF phase = Gates THEN "COMPLETE"
    ELSE IF Actionable(t, phase) # {} THEN "ACTIVE"
    ELSE IF With(t, phase, "BLOCKED") # {} THEN "BLOCKED"
    ELSE "NONE"

Derive(t, phase, gen) ==
    [gen |-> gen, phase |-> phase, status |-> Status(t, phase),
     active |-> With(t, phase, "IN_PROGRESS"), next |-> With(t, phase, "TODO"),
     blocked |-> With(t, phase, "BLOCKED")]

Transitions == {<<"TODO", "IN_PROGRESS">>, <<"TODO", "BLOCKED">>,
                <<"IN_PROGRESS", "BLOCKED">>, <<"IN_PROGRESS", "DONE">>,
                <<"BLOCKED", "TODO">>, <<"DONE", "TODO">>}

Paused(s) == [s EXCEPT !.status = "PAUSED"]

Summary(t, phase, gen, pause) ==
    IF pause THEN Paused(Derive(t, phase, gen)) ELSE Derive(t, phase, gen)

Mutation(t, new) ==
    /\ \A r \in Rows : \/ new[r].status = t[r].status
                       \/ <<t[r].status, new[r].status>> \in Transitions
    /\ RowsHold(new)

\* A gate re-evaluation passes the current gate, withdraws the last one, or
\* changes nothing; the last gate passes only when the queue is finished.
GateResults(new) ==
    {g \in 0 .. Gates : /\ g + 1 >= passed /\ passed + 1 >= g
                        /\ g = Gates => \A r \in Rows : new[r].status = "DONE"}

Finished(t) == {r \in Rows : t[r].status = "DONE"}

Idle == [pc |-> "idle"]

Init ==
    \E t \in Tables :
        /\ RowsHold(t) /\ Finished(t) = {}
        /\ queue = [gen |-> 1, row |-> t]
        /\ state = Derive(t, 0, 1)
        /\ artifacts = {}
        /\ passed = 0
        /\ coord = [c \in Coordinators |-> Idle]
        /\ human = "go"
        /\ crashes = 0

-----------------------------------------------------------------------------
(* The generation transaction *)

Become(c, k) == coord' = [coord EXCEPT ![c] = k]

Advanced(k, pc) == [pc |-> pc, queue |-> k.queue, state |-> k.state,
                    new |-> k.new, gate |-> k.gate, pause |-> k.pause]

\* step 1, and what the transaction is for
Plan(c, new, gate, pause) ==
    /\ coord[c].pc = "idle"
    /\ queue.gen = state.gen /\ queue.gen < MaxGeneration
    /\ Become(c, [pc |-> "read", queue |-> queue, state |-> state,
                  new |-> new, gate |-> gate, pause |-> pause])
    /\ UNCHANGED <<queue, state, artifacts, passed, crashes>>

\* work on rows and gates; a paused project only has its gate evaluated, and
\* stays paused
Read(c, new, gate) ==
    /\ Plan(c, new, gate, state.status = "PAUSED")
    /\ Mutation(queue.row, new) /\ gate \in GateResults(new)
    /\ <<new, gate>> # <<queue.row, passed>>
    /\ state.status = "PAUSED" => new = queue.row
    /\ UNCHANGED human

\* the human has the project paused or resumed: a transaction that leaves the
\* table as it is
PauseOrResume(c, gate) ==
    /\ gate \in GateResults(queue.row)
    /\ Plan(c, queue.row, gate, state.status # "PAUSED")
    /\ human' = IF state.status = "PAUSED" THEN "go" ELSE "pause"

PersistNothing(c) ==
    /\ coord[c].pc = "read"
    /\ passed' = coord[c].gate
    /\ Become(c, Advanced(coord[c], "persisted"))
    /\ UNCHANGED <<queue, state, artifacts, human, crashes>>

PersistNextGate(c) ==
    /\ coord[c].pc = "read"
    /\ artifacts' = artifacts \union Finished(coord[c].new)
    /\ passed' = passed + 1
    /\ Become(c, Advanced(coord[c], "persisted"))
    /\ UNCHANGED <<queue, state, human, crashes>>

\* step 2: completion artifacts and gate evidence
Persist(c) ==
    /\ coord[c].pc = "read"
    /\ artifacts' = artifacts \union Finished(coord[c].new)
    /\ passed' = coord[c].gate
    /\ Become(c, Advanced(coord[c], "persisted"))
    /\ UNCHANGED <<queue, state, human, crashes>>

\* step 3: both hashes are as observed, or the transaction is aborted
CheckBoth(c) ==
    /\ coord[c].pc = "persisted"
    /\ Become(c, IF queue = coord[c].queue /\ state = coord[c].state
                 THEN Advanced(coord[c], "checked") ELSE Idle)
    /\ UNCHANGED <<queue, state, artifacts, passed, human, crashes>>

WriteQueueInPlace(c) ==
    /\ coord[c].pc = "checked"
    /\ queue' = [gen |-> coord[c].queue.gen, row |-> coord[c].new]
    /\ Become(c, [pc |-> "written", queue |-> queue', pause |-> coord[c].pause])
    /\ UNCHANGED <<state, artifacts, passed, human, crashes>>

\* step 4
WriteQueue(c) ==
    /\ coord[c].pc = "checked"
    /\ queue' = [gen |-> coord[c].queue.gen + 1, row |-> coord[c].new]
    /\ Become(c, [pc |-> "written", queue |-> queue', pause |-> coord[c].pause])
    /\ UNCHANGED <<state, artifacts, passed, human, crashes>>

DeriveFromOldQueue(c) ==
    /\ coord[c].pc = "written"
    /\ Become(c, IF queue = coord[c].queue
                 THEN [pc |-> "derived",
                       state |-> [state EXCEPT !.gen = queue.gen]]
                 ELSE Idle)
    /\ UNCHANGED <<queue, state, artifacts, passed, human, crashes>>

\* steps 5 and 6: derive, and check that QUEUE.md is still the one written
DeriveAndCheck(c) ==
    /\ coord[c].pc = "written"
    /\ Become(c, IF queue = coord[c].queue
                 THEN [pc |-> "derived",
                       state |-> Summary(queue.row, passed, queue.gen, coord[c].pause)]
                 ELSE Idle)
    /\ UNCHANGED <<queue, state, artifacts, passed, human, crashes>>

\* step 7
WriteState(c) ==
    /\ coord[c].pc = "derived"
    /\ state' = coord[c].state
    /\ Become(c, Idle)
    /\ UNCHANGED <<queue, artifacts, passed, human, crashes>>

-----------------------------------------------------------------------------
(* What a coordinator does with files it finds out of step *)

RecoverAsNewTransaction(c) ==
    /\ coord[c].pc = "idle"
    /\ queue.gen > state.gen
    /\ Become(c, [pc |-> "derived",
                  state |-> Derive(queue.row, passed, queue.gen + 1)])
    /\ UNCHANGED <<queue, state, artifacts, passed, human, crashes>>

\* an interrupted ordered write: recompute the summary and finish; a pause is
\* in none of the files it is recomputed from
Recover(c) ==
    /\ coord[c].pc = "idle"
    /\ queue.gen > state.gen
    /\ Become(c, [pc |-> "written", queue |-> queue, pause |-> FALSE])
    /\ UNCHANGED <<queue, state, artifacts, passed, human, crashes>>

\* a protocol violation: stop, and leave the files to a human
Stop(c) ==
    /\ coord[c].pc = "idle"
    /\ state.gen > queue.gen
    /\ Become(c, [pc |-> "stopped"])
    /\ UNCHANGED <<queue, state, artifacts, passed, human, crashes>>

\* the session ends between two steps; a later one remembers nothing
Crash(c) ==
    /\ coord[c].pc \notin {"idle", "stopped"}
    /\ crashes < MaxCrashes
    /\ crashes' = crashes + 1
    /\ Become(c, Idle)
    /\ UNCHANGED <<queue, state, artifacts, passed, human>>

Finish(c) == \/ Persist(c) \/ CheckBoth(c) \/ WriteQueue(c)
             \/ DeriveAndCheck(c) \/ WriteState(c) \/ Recover(c) \/ Stop(c)

Next ==
    \E c \in Coordinators :
        \/ \E new \in Tables, gate \in 0 .. Gates : Read(c, new, gate)
        \/ \E gate \in 0 .. Gates : PauseOrResume(c, gate)
        \/ Finish(c) \/ Crash(c)

\* A coordinator that runs goes on, and one that was interrupted is invoked
\* again: nothing makes it start a transaction of its own.
Fairness == \A c \in Coordinators : WF_vars(Finish(c))

Spec == Init /\ [][Next]_vars /\ Fairness

-----------------------------------------------------------------------------
(* Properties *)

\* Types of the files and of what coordinators know.
Summaries == [gen : Nat, phase : 0 .. Gates,
              status : {"COMPLETE", "ACTIVE", "BLOCKED", "PAUSED", "NONE"},
              active : SUBSET Rows, next : SUBSET Rows, blocked : SUBSET Rows]

Queues == [gen : Nat, row : Tables]

Progress ==
    [pc : {"idle", "stopped"}]
        \union [pc : {"read", "persisted", "checked"}, queue : Queues,
                state : Summaries, new : Tables, gate : 0 .. Gates, pause : BOOLEAN]
        \union [pc : {"written"}, queue : Queues, pause : BOOLEAN]
        \union [pc : {"derived"}, state : Summaries]

TypeOK ==
    /\ queue \in Queues
    /\ state \in Summaries
    /\ artifacts \subseteq Rows
    /\ passed \in 0 .. Gates
    /\ coord \in [Coordinators -> Progress]
    /\ human \in {"go", "pause"}
    /\ crashes \in 0 .. MaxCrashes

\* QUEUE.md satisfies the validator's row invariants in every state, also when
\* coordinators die between steps or overwrite each other: every writer writes
\* a whole table, after the artifacts that its DONE rows declare.
QueueHolds == RowsHold(queue.row) /\ ArtifactsExist(queue.row, artifacts)

\* STATE.md is at the queue's generation or one behind (coordinators that run
\* one after the other): recovery never has to guess.
StateNeverAhead == state.gen <= queue.gen /\ queue.gen <= state.gen + 1

\* Two files of one generation agree: the lists are those of the rows, the
\* status is one the validator accepts whenever a relevant row is unfinished,
\* and a completed migration has no unfinished row.
EqualGenerationsAgree ==
    queue.gen = state.gen =>
        /\ ListsAgree(queue.row, state)
        /\ (\E r \in Relevant(state.phase) : queue.row[r].status # "DONE") =>
             Accepts(queue.row, state.phase, state.status)
        /\ state.status = "COMPLETE" => Accepts(queue.row, state.phase, "COMPLETE")

\* "PAUSED: explicit human pause only": with no crash, a project is paused
\* between transactions exactly when the last word of the human was to pause
\* it, whatever gates were evaluated and rows were changed since.  (A crash may
\* lose the word: recovery derives the status from files that do not hold it.)
HumanIsObeyed ==
    (crashes = 0 /\ queue.gen = state.gen /\ \A c \in Coordinators : coord[c] = Idle) =>
        (state.status = "PAUSED" <=> human = "pause")

\* An interrupted transaction is finished by whoever comes next.
InterruptedIsRecovered == queue.gen > state.gen ~> queue.gen = state.gen

\* what the abstract record sees of the queue
Progressed == [r \in Rows |-> queue.row[r].status]

Record == INSTANCE DurableRecord WITH
    status <- Progressed, gen <- queue.gen, published <- state.gen

\* Transactions are whole, in order, and each is summarised before the next.
ImplementsRecord == Record!Spec

\* "so a concurrent writer is never silently overwritten"
NeverOverwritten ==
    [][ queue' # queue =>
          \A c \in Coordinators : coord[c].pc = "checked" /\ coord'[c].pc = "written"
              => queue = coord[c].queue ]_vars

\* "PAUSED: explicit human pause only": every finished transaction leaves files
\* for which another status is accepted.
StatusIsDefined ==
    queue.gen = state.gen =>
        \E st \in {"ACTIVE", "BLOCKED", "COMPLETE"} : Accepts(queue.row, state.phase, st)

-----------------------------------------------------------------------------
(* Inductive invariants *)

Planning == {"read", "persisted", "checked"}

\* Any number of coordinators: what a coordinator is about to write is a table
\* that holds, and its artifacts are on disk before it can be written.
PlansHold ==
    \A c \in Coordinators :
        /\ coord[c].pc \in Planning => RowsHold(coord[c].new)
        /\ coord[c].pc \in {"persisted", "checked"} =>
             ArtifactsExist(coord[c].new, artifacts)

RaceInv == QueueHolds /\ PlansHold

AllDone(t) == \A r \in Rows : t[r].status = "DONE"

MaybePaused(s) == {s, Paused(s)}

\* One coordinator at a time: it knows the files as they are.
KnowsFiles(c) ==
    LET k == coord[c] IN
    /\ k.pc \in Planning =>
         /\ k.queue = queue /\ k.state = state /\ queue.gen = state.gen
         /\ k.new \in Tables /\ Mutation(queue.row, k.new)
         /\ k.gate \in 0 .. Gates
         /\ k.gate = Gates => AllDone(k.new)
    /\ k.pc \in {"persisted", "checked"} => passed = k.gate
    /\ k.pc = "written" => k.queue = queue /\ queue.gen = state.gen + 1
    /\ k.pc = "derived" => /\ queue.gen = state.gen + 1
                          /\ k.state \in MaybePaused(Derive(queue.row, passed, queue.gen))
    /\ k.pc # "stopped"

\* A summary is the one the rows it was derived from call for.
Summarised ==
    /\ queue.gen \in Nat /\ state.gen \in Nat /\ passed \in 0 .. Gates
    /\ queue.row \in Tables
    /\ queue.gen = state.gen \/ queue.gen = state.gen + 1
    /\ queue.gen = state.gen =>
         /\ state \in MaybePaused(Derive(queue.row, state.phase, state.gen))
         /\ state.phase = Gates => AllDone(queue.row)
    /\ queue.gen # state.gen => (passed = Gates => AllDone(queue.row))

\* Without a crash, what a coordinator is about to record of a pause is what the
\* human last said, and an idle coordinator has left no transaction open.
KnowsPause(c) ==
    LET k == coord[c] IN
    crashes = 0 =>
        /\ k.pc = "idle" =>
             queue.gen = state.gen /\ (state.status = "PAUSED" <=> human = "pause")
        /\ k.pc \in Planning \union {"written"} => k.pause = (human = "pause")
        /\ k.pc = "derived" => (k.state.status = "PAUSED" <=> human = "pause")

PauseInv ==
    /\ human \in {"go", "pause"} /\ crashes \in Nat
    /\ \A c \in Coordinators : KnowsPause(c)

\* With one coordinator at a time, the files are those of the last transaction
\* or of the one that was interrupted, and a coordinator knows them as they are.
SerialInv == Summarised /\ \A c \in Coordinators : KnowsFiles(c)
=============================================================================
