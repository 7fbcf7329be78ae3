------------------------------ MODULE DbGuard ------------------------------
(***************************************************************************)
(* The database safety guard: scripts/db/db_guard.py, the engine           *)
(* connectors it drives (scripts/db/connectors), the profile registry it   *)
(* resolves through (connection_profiles.py) and the expected-target       *)
(* registry it attests against (target_metadata.py).                       *)
(*                                                                         *)
(* A session is one call of open_readonly / open_test_readwrite and all    *)
(* the use that is made of the object it returns; several sessions run     *)
(* side by side, in one process or in several.  A call is one invocation   *)
(* of fetch_one, fetch_all or execute.  Nothing in the code excludes a     *)
(* second call, or a close, while a call is under way: the sink is a       *)
(* callback of the caller's, and an object may be shared by threads.  So a *)
(* call's path is cut wherever another can step in, the process can die or *)
(* the driver can raise: after _ensure_open, after the required "allowed"  *)
(* event, after the statement ran, after the commit; and close is cut      *)
(* between the flag it sets and the connection it closes.                  *)
(*                                                                         *)
(* SameTargetExactly, MayConnectToProduction, AttestsEngineOnly,           *)
(* LeakOnMismatch, ExecuteDeniedButRun, AdmitIgnoringClose,                *)
(* PreAuditBestEffort, RaiseFallsThrough and ReportBeforeCommit are faulty *)
(* variants of the definition each of them precedes; no action uses them.  *)
(* They show that the properties can fail.                                 *)
(***************************************************************************)
CONSTANTS
    Sessions, Calls,
    Profiles,       \* names in PROFILES
    Engine,         \* [Profiles -> engine]
    Environment,    \* [Profiles -> {"production", "test"}]
    Capability,     \* [Profiles -> {"read-only", "read-write"}]
    Databases,      \* the databases a connection value can lead to
    EngineOf,       \* [Databases -> engine]
    IdentityOf,     \* [Databases -> Identities], what the probe reports
    Identities,     \* (server identity, database identity) pairs
    Folded,         \* [Identities -> case-folded pair]
    Unresolved,     \* registry entry with a blank field
    Malformed,      \* registry entry that is absent or fails a shape check
    Submitted,      \* the classes that calls submit, a subset of Classes
    NoProfile, NoDatabase, NoSession

ASSUME RegistryAssumption ==
    /\ Environment \in [Profiles -> {"production", "test"}]
    /\ Capability \in [Profiles -> {"read-only", "read-write"}]
    /\ Submitted \subseteq {"mutation", "ddl", "procedure-exec", "read",
                            "privileged", "unknown", "raised"}

ASSUME IdentityAssumption ==
    /\ IdentityOf \in [Databases -> Identities]
    /\ Unresolved \notin Identities /\ Malformed \notin Identities
    /\ Unresolved # Malformed

ASSUME NoneAssumption ==
    /\ NoProfile \notin Profiles
    /\ Databases \intersect {NoDatabase, "none", "spent"} = {}
    /\ NoSession \notin Sessions

VARIABLES
    targets,    \* EXPECTED_TARGETS of this deployment; never changes
    session,    \* the guard's view of every session
    conn,       \* the driver connection under a session
    txn,        \* calls whose effects are pending in the session's transaction
    call,       \* progress of every call
    delivered,  \* calls whose SQL the driver has received
    committed,  \* calls whose effects are durable in their session's database
    discarded,  \* calls whose pending effects a step of another call took back
    audit,      \* events the sink accepted, per call
    openAudit   \* sessions whose refused opening the sink has recorded

vars == <<targets, session, conn, txn, call, delivered, committed, discarded,
          audit, openAudit>>

-----------------------------------------------------------------------------
(* Operation classes and the admission rules over them *)

Hazardous == {"mutation", "ddl", "procedure-exec"}

\* "raised" stands for a classifier that failed or returned an invalid result
Classes == Hazardous \union {"read", "privileged", "unknown", "raised"}

DeniedToExecute == {"privileged", "unknown", "raised"}

\* transaction control inside a batch that also holds a hazardous statement
\* does not change the batch's class
Controls == {"none", "commit", "rollback"}

Phases == {"new", "probing", "open", "closed", "blocked", "crashed"}
Conns == {"none", "open", "closed", "abandoned"}
InDriver == {"driver", "rollback", "commit", "succeeding", "failing"}

\* past _ensure_open and not at an end: "reading" in a fetch, "admitted" in an
\* execute that has emitted nothing yet
Running == InDriver \union {"reading", "admitted"}

Steps == Running \union {"idle", "blocked", "returned", "failed", "crashed"}
Outcomes == {"allowed", "blocked", "succeeded", "failed"}

-----------------------------------------------------------------------------
(* target_metadata.py: what a registry of expected targets says *)

Registries == [Profiles -> Identities \union {Unresolved, Malformed}]

Resolved(reg, p) == reg[p] \in Identities

SameTargetExactly(reg, p, q) ==
    /\ Resolved(reg, p) /\ Resolved(reg, q)
    /\ reg[p] = reg[q]

SameTarget(reg, p, q) ==
    /\ Resolved(reg, p) /\ Resolved(reg, q)
    /\ Folded[reg[p]] = Folded[reg[q]]

\* validate_target_metadata returns no error
RegistryIsValid(reg, requireProduction) ==
    /\ \A p \in Profiles : reg[p] # Malformed
    /\ requireProduction =>
         \A p \in Profiles : Environment[p] = "production" => Resolved(reg, p)
    /\ \A p, q \in Profiles :
         Environment[p] = "test" /\ Environment[q] = "production"
             => ~SameTarget(reg, p, q)
    /\ \A p, q \in Profiles :
         p # q /\ Engine[p] = Engine[q] => ~SameTarget(reg, p, q)

TargetIsKnown(reg, p, w) == RegistryIsValid(reg, w) /\ Resolved(reg, p)

-----------------------------------------------------------------------------
(* Opening a session *)

\* connection_profiles.py: the refusals that depend on the request alone
Resolvable(p, w) == w => Capability[p] # "read-only"

WriteProfile(p) == Environment[p] = "test" /\ Capability[p] = "read-write"

MayConnectToProduction(reg, p, w) ==
    /\ p \in Profiles
    /\ TargetIsKnown(reg, p, w)

\* Everything _open_session checks before it connects, apart from the tool's
\* allowlist, the environment variable, the connector's constructor and connect
\* itself, any of which may refuse a request (OpenRefused).  The order of the checks
\* decides only the reason that is reported.
MayConnect(reg, p, w) ==
    /\ p \in Profiles
    /\ Resolvable(p, w)
    /\ w => WriteProfile(p)
    /\ TargetIsKnown(reg, p, w)

AttestsEngineOnly(reg, p, d) == EngineOf[d] = Engine[p]

Attests(reg, p, d) == /\ EngineOf[d] = Engine[p]
                      /\ IdentityOf[d] = reg[p]

NotOpened == [phase |-> "new", writable |-> FALSE,
              profile |-> NoProfile, db |-> NoDatabase]

Init ==
    /\ targets \in Registries
    /\ session = [s \in Sessions |-> NotOpened]
    /\ conn = [s \in Sessions |-> "none"]
    /\ txn = [s \in Sessions |-> {}]
    /\ call = [c \in Calls |-> [step |-> "idle", owner |-> NoSession,
                                class |-> "read", control |-> "none"]]
    /\ delivered = {}
    /\ committed = {}
    /\ discarded = {}
    /\ audit = [c \in Calls |-> {}]
    /\ openAudit = {}

\* _emit_best_effort: the sink takes the event or raises into the void
BestEffort(c, outcome) ==
    \/ audit' = [audit EXCEPT ![c] = @ \union {outcome}]
    \/ UNCHANGED audit

BestEffortOpen(s) == openAudit' \in {openAudit, openAudit \union {s}}

Enter(s, phase) == session' = [session EXCEPT ![s].phase = phase]

\* GuardBlockedError is raised instead of a session being returned
Refuse(s) == session' = [session EXCEPT ![s] = [NotOpened EXCEPT !.phase = "blocked"]]

\* a blank tool_id is refused before the try block: nothing is audited
OpenWithoutToolId(s) ==
    /\ session[s].phase = "new"
    /\ Refuse(s)
    /\ UNCHANGED <<targets, conn, txn, call, delivered, committed, discarded, audit,
                   openAudit>>

\* any request may be refused before it connects, by the conditions of
\* MayConnect or by one of those it leaves out
OpenRefused(s) ==
    /\ session[s].phase = "new"
    /\ Refuse(s)
    /\ BestEffortOpen(s)
    /\ UNCHANGED <<targets, conn, txn, call, delivered, committed, discarded, audit>>

\* connector.connect with the value of the environment variable, which may
\* lead to any database at all
Connect(s, p, w, d) ==
    /\ session[s].phase = "new"
    /\ MayConnect(targets, p, w)
    /\ session' = [session EXCEPT ![s] = [phase |-> "probing", writable |-> w,
                                          profile |-> p, db |-> d]]
    /\ conn' = [conn EXCEPT ![s] = "open"]
    /\ UNCHANGED <<targets, txn, call, delivered, committed, discarded, audit, openAudit>>

LeakOnMismatch(s) ==
    /\ Refuse(s)
    /\ UNCHANGED conn
    /\ BestEffortOpen(s)

\* _close_failed_connection (an error of close is swallowed), then the event
CloseFailedConnection(s) ==
    /\ Refuse(s)
    /\ \E closed \in {"closed", "abandoned"} : conn' = [conn EXCEPT ![s] = closed]
    /\ BestEffortOpen(s)

\* the identity probe raises, or returns a value of the wrong shape
ProbeFails(s) ==
    /\ session[s].phase = "probing"
    /\ CloseFailedConnection(s)
    /\ UNCHANGED <<targets, txn, call, delivered, committed, discarded, audit>>

AttestationMismatch(s) ==
    /\ session[s].phase = "probing"
    /\ ~Attests(targets, session[s].profile, session[s].db)
    /\ CloseFailedConnection(s)
    /\ UNCHANGED <<targets, txn, call, delivered, committed, discarded, audit>>

AttestationMatch(s) ==
    /\ session[s].phase = "probing"
    /\ Attests(targets, session[s].profile, session[s].db)
    /\ Enter(s, "open")
    /\ UNCHANGED <<targets, conn, txn, call, delivered, committed, discarded, audit,
                   openAudit>>

-----------------------------------------------------------------------------
(* Using a session: any number of calls, at once or one after the other *)

\* the caller holds the session object, closed or not, and makes a new call
Callable(s, c) == session[s].phase \in {"open", "closed"} /\ call[c].step = "idle"

Invoked(c, s, class, control, step) ==
    call' = [call EXCEPT ![c] = [step |-> step, owner |-> s,
                                 class |-> class, control |-> control]]

At(s, c, step) == call[c].owner = s /\ call[c].step = step

Goto(c, step) == call' = [call EXCEPT ![c].step = step]

\* a connection whose close failed may still take statements
Live(s) == conn[s] \in {"open", "abandoned"}

\* fetch_one / fetch_all: classify, require a read, require an open session
FetchBlocked(s, c, class) ==
    /\ Callable(s, c)
    /\ class # "read"
    /\ Invoked(c, s, class, "none", "blocked")
    /\ BestEffort(c, "blocked")
    /\ UNCHANGED <<targets, session, conn, txn, delivered, committed, discarded, openAudit>>

FetchOnClosed(s, c) ==
    /\ Callable(s, c)
    /\ session[s].phase = "closed"
    /\ Invoked(c, s, "read", "none", "blocked")
    /\ UNCHANGED <<targets, session, conn, txn, delivered, committed, discarded, audit,
                   openAudit>>

AdmitFetch(s, c) ==
    /\ Callable(s, c)
    /\ session[s].phase = "open"
    /\ Invoked(c, s, "read", "none", "reading")
    /\ UNCHANGED <<targets, session, conn, txn, delivered, committed, discarded, audit,
                   openAudit>>

\* the driver answers, or raises and the error is wrapped; reads are not audited
Fetch(s, c) ==
    /\ At(s, c, "reading") /\ Live(s)
    /\ \E step \in {"returned", "failed"} : Goto(c, step)
    /\ delivered' = delivered \union {c}
    /\ UNCHANGED <<targets, session, conn, txn, committed, discarded, audit, openAudit>>

\* connection.cursor() raises, as it does on a connection closed meanwhile
FetchFails(s, c) ==
    /\ At(s, c, "reading")
    /\ Goto(c, "failed")
    /\ UNCHANGED <<targets, session, conn, txn, delivered, committed, discarded, audit,
                   openAudit>>

Executable(s, c) == Callable(s, c) /\ session[s].writable

ExecuteDeniedButRun(s, c, class) ==
    /\ Executable(s, c)
    /\ class \in DeniedToExecute
    /\ Invoked(c, s, class, "none", "driver")
    /\ BestEffort(c, "blocked")
    /\ UNCHANGED <<targets, session, conn, txn, delivered, committed, discarded, openAudit>>

ExecuteDenied(s, c, class) ==
    /\ Executable(s, c)
    /\ class \in DeniedToExecute
    /\ Invoked(c, s, class, "none", "blocked")
    /\ BestEffort(c, "blocked")
    /\ UNCHANGED <<targets, session, conn, txn, delivered, committed, discarded, openAudit>>

\* _ensure_open comes after the class check and before any event
ExecuteOnClosed(s, c, class, control) ==
    /\ Executable(s, c)
    /\ class \notin DeniedToExecute
    /\ session[s].phase = "closed"
    /\ Invoked(c, s, class, control, "blocked")
    /\ UNCHANGED <<targets, session, conn, txn, delivered, committed, discarded, audit,
                   openAudit>>

AdmitIgnoringClose(s, c, class, control) ==
    /\ Executable(s, c)
    /\ class \notin DeniedToExecute
    /\ Invoked(c, s, class, control, "admitted")
    /\ UNCHANGED <<targets, session, conn, txn, delivered, committed, discarded, audit,
                   openAudit>>

Admit(s, c, class, control) ==
    /\ Executable(s, c)
    /\ class \notin DeniedToExecute
    /\ session[s].phase = "open"
    /\ Invoked(c, s, class, control, "admitted")
    /\ UNCHANGED <<targets, session, conn, txn, delivered, committed, discarded, audit,
                   openAudit>>

\* _emit_required fails: audit-failure, and nothing reaches the driver
PreAuditFails(s, c) ==
    /\ At(s, c, "admitted")
    /\ Goto(c, "blocked")
    /\ UNCHANGED <<targets, session, conn, txn, delivered, committed, discarded, audit,
                   openAudit>>

PreAuditBestEffort(s, c) ==
    /\ At(s, c, "admitted")
    /\ Goto(c, "driver")
    /\ BestEffort(c, "allowed")
    /\ UNCHANGED <<targets, session, conn, txn, delivered, committed, discarded, openAudit>>

\* the session is not looked at again: it may be closed by now
PreAudit(s, c) ==
    /\ At(s, c, "admitted")
    /\ Goto(c, "driver")
    /\ audit' = [audit EXCEPT ![c] = @ \union {"allowed"}]
    /\ UNCHANGED <<targets, session, conn, txn, delivered, committed, discarded, openAudit>>

-----------------------------------------------------------------------------
(* connector.execute: one transaction for all that runs on the connection *)

Work(c) == IF call[c].class \in Hazardous THEN {c} ELSE {}

\* The open transaction ends without being made durable, and with it whatever
\* other calls had pending in it
Discard(s, c) ==
    /\ txn' = [txn EXCEPT ![s] = {}]
    /\ discarded' = discarded \union (txn[s] \ {c})
    /\ UNCHANGED committed

MakeDurable(s, C) ==
    /\ txn' = [txn EXCEPT ![s] = {}]
    /\ committed' = committed \union txn[s] \union C
    /\ UNCHANGED discarded

Keep(s, C) ==
    /\ txn' = [txn EXCEPT ![s] = @ \union C]
    /\ UNCHANGED <<committed, discarded>>

\* the batch's own transaction control takes effect
OwnControl(s, c) ==
    \/ call[c].control = "commit" /\ MakeDurable(s, Work(c))
    \/ call[c].control = "rollback" /\ Discard(s, c)

\* connection.cursor() raises, as it does on a connection closed meanwhile;
\* it is outside the try block: no rollback
CursorFails(s, c) ==
    /\ At(s, c, "driver")
    /\ Goto(c, "failing")
    /\ UNCHANGED <<targets, session, conn, txn, delivered, committed, discarded, audit,
                   openAudit>>

\* the batch runs to its end
StatementRuns(s, c) ==
    /\ At(s, c, "driver") /\ Live(s)
    /\ Goto(c, "commit")
    /\ delivered' = delivered \union {c}
    /\ OwnControl(s, c) \/ (call[c].control = "none" /\ Keep(s, Work(c)))
    /\ UNCHANGED <<targets, session, conn, audit, openAudit>>

RaiseFallsThrough(s, c) ==
    /\ At(s, c, "driver") /\ Live(s)
    /\ Goto(c, "commit")
    /\ delivered' = delivered \union {c}
    /\ OwnControl(s, c) \/ (\E ran \in {{}, Work(c)} : Keep(s, ran))
    /\ UNCHANGED <<targets, session, conn, audit, openAudit>>

\* cursor.execute raises, or the row count is not a number: the batch has
\* run in full, in part or not at all when the rollback starts
StatementRaises(s, c) ==
    /\ At(s, c, "driver") /\ Live(s)
    /\ Goto(c, "rollback")
    /\ delivered' = delivered \union {c}
    /\ OwnControl(s, c) \/ (\E ran \in {{}, Work(c)} : Keep(s, ran))
    /\ UNCHANGED <<targets, session, conn, audit, openAudit>>

\* an error of rollback is swallowed and leaves the transaction as it was
Rollback(s, c) ==
    /\ At(s, c, "rollback")
    /\ Goto(c, "failing")
    /\ Discard(s, c) \/ Keep(s, {})
    /\ UNCHANGED <<targets, session, conn, delivered, audit, openAudit>>

Commit(s, c) ==
    /\ At(s, c, "commit") /\ Live(s)
    /\ Goto(c, "succeeding")
    /\ MakeDurable(s, {})
    /\ UNCHANGED <<targets, session, conn, delivered, audit, openAudit>>

\* connection.commit() raises, as it does on a connection closed meanwhile: the
\* work is still pending, was discarded by the server, or is durable and only
\* the answer was lost; nothing is rolled back
CommitFails(s, c) ==
    /\ At(s, c, "commit")
    /\ Goto(c, "failing")
    /\ Keep(s, {}) \/ Discard(s, c) \/ MakeDurable(s, {})
    /\ UNCHANGED <<targets, session, conn, delivered, audit, openAudit>>

ReportBeforeCommit(s, c) ==
    /\ call[c].owner = s /\ call[c].step \in {"commit", "succeeding"}
    /\ Goto(c, "returned")
    /\ BestEffort(c, "succeeded")
    /\ UNCHANGED <<targets, session, conn, txn, delivered, committed, discarded, openAudit>>

ReportSuccess(s, c) ==
    /\ At(s, c, "succeeding")
    /\ Goto(c, "returned")
    /\ BestEffort(c, "succeeded")
    /\ UNCHANGED <<targets, session, conn, txn, delivered, committed, discarded, openAudit>>

ReportFailure(s, c) ==
    /\ At(s, c, "failing")
    /\ Goto(c, "failed")
    /\ BestEffort(c, "failed")
    /\ UNCHANGED <<targets, session, conn, txn, delivered, committed, discarded, openAudit>>

-----------------------------------------------------------------------------
(* The end of a session *)

\* close() marks the session first, whatever its calls are doing; a second close
\* does nothing
Close(s) ==
    /\ session[s].phase = "open"
    /\ Enter(s, "closed")
    /\ UNCHANGED <<targets, conn, txn, call, delivered, committed, discarded, audit,
                   openAudit>>

\* connector.close under the calls still running: the server drops what is
\* pending.  An error leaves the connection, and its transaction, abandoned.
CloseConnection(s) ==
    /\ session[s].phase = "closed" /\ conn[s] = "open"
    /\ \/ /\ conn' = [conn EXCEPT ![s] = "closed"]
          /\ txn' = [txn EXCEPT ![s] = {}]
       \/ /\ conn' = [conn EXCEPT ![s] = "abandoned"]
          /\ UNCHANGED txn
    /\ UNCHANGED <<targets, session, call, delivered, committed, discarded, audit,
                   openAudit>>

\* the process dies between two steps; the server drops the open transaction
Crash(s) ==
    /\ session[s].phase \in {"probing", "open", "closed"}
    /\ Enter(s, "crashed")
    /\ conn' = [conn EXCEPT ![s] = "closed"]
    /\ txn' = [txn EXCEPT ![s] = {}]
    /\ call' = [c \in Calls |-> IF call[c].owner = s /\ call[c].step \in Running
                                THEN [call[c] EXCEPT !.step = "crashed"] ELSE call[c]]
    /\ UNCHANGED <<targets, delivered, committed, discarded, audit, openAudit>>

-----------------------------------------------------------------------------

Open(s) ==
    \/ OpenWithoutToolId(s) \/ OpenRefused(s)
    \/ \E p \in Profiles, w \in BOOLEAN, d \in Databases : Connect(s, p, w, d)
    \/ ProbeFails(s) \/ AttestationMismatch(s) \/ AttestationMatch(s)

FetchCall(s, c) ==
    \/ \E class \in Submitted : FetchBlocked(s, c, class)
    \/ FetchOnClosed(s, c) \/ AdmitFetch(s, c) \/ Fetch(s, c) \/ FetchFails(s, c)

ExecuteCall(s, c) ==
    \/ \E class \in Submitted : ExecuteDenied(s, c, class)
    \/ \E class \in Submitted \ DeniedToExecute, control \in Controls :
         /\ class = "read" => control = "none"
         /\ ExecuteOnClosed(s, c, class, control) \/ Admit(s, c, class, control)
    \/ PreAudit(s, c) \/ PreAuditFails(s, c)
    \/ CursorFails(s, c) \/ StatementRuns(s, c) \/ StatementRaises(s, c)
    \/ Rollback(s, c) \/ Commit(s, c) \/ CommitFails(s, c)
    \/ ReportSuccess(s, c) \/ ReportFailure(s, c)

Next ==
    \E s \in Sessions :
        \/ Open(s) \/ Close(s) \/ CloseConnection(s) \/ Crash(s)
        \/ \E c \in Calls : FetchCall(s, c) \/ ExecuteCall(s, c)

Spec == Init /\ [][Next]_vars

-----------------------------------------------------------------------------
(* Properties *)

SessionRecords == [phase : Phases, writable : BOOLEAN,
                   profile : Profiles \union {NoProfile},
                   db : Databases \union {NoDatabase}]

CallRecords == [step : Steps, owner : Sessions \union {NoSession},
                class : Classes, control : Controls]

TypeOK ==
    /\ targets \in Registries
    /\ session \in [Sessions -> SessionRecords]
    /\ conn \in [Sessions -> Conns]
    /\ txn \in [Sessions -> SUBSET Calls]
    /\ call \in [Calls -> CallRecords]
    /\ delivered \subseteq Calls
    /\ committed \subseteq Calls
    /\ discarded \subseteq Calls
    /\ audit \in [Calls -> SUBSET Outcomes]
    /\ openAudit \subseteq Sessions

\* a database whose identity is, but for case, a production profile's target
ProductionDb(reg, d) ==
    \E q \in Profiles : /\ Environment[q] = "production"
                        /\ Resolved(reg, q)
                        /\ Folded[reg[q]] = Folded[IdentityOf[d]]

\* Hazardous SQL is handed to a driver only on a connection to a database that
\* is not production, whatever the registry holds and wherever the connection
\* strings lead: registry collision check, write-profile check and attestation
\* together (_open_session, validate_target_metadata).
ProductionNeverWritten ==
    \A c \in delivered : call[c].class \in Hazardous =>
        ~ProductionDb(targets, session[call[c].owner].db)

\* Every statement a driver receives, reads included, goes to the database the
\* session's profile is registered for, over a session that was not refused.
OnlyAttestedTargetsSeeSql ==
    \A c \in delivered :
        LET s == call[c].owner IN
        /\ s \notin openAudit
        /\ session[s].profile \in Profiles
        /\ EngineOf[session[s].db] = Engine[session[s].profile]
        /\ IdentityOf[session[s].db] = targets[session[s].profile]

\* An opening that is refused after the connection was made leaves no open
\* connection behind (_close_failed_connection on every failing path).
RefusedOpeningKeepsNoConnection ==
    \A s \in Sessions : session[s].phase \in {"blocked", "crashed"} => conn[s] # "open"

\* No statement reaches a driver through execute, or is pending or durable,
\* unless the sink accepted its "allowed" event first (_emit_required).
NoEffectWithoutRecord ==
    \A c \in Calls :
        \/ c \in committed
        \/ \E s \in Sessions : c \in txn[s]
        \/ c \in delivered /\ session[call[c].owner].writable /\ call[c].class \in Hazardous
        => "allowed" \in audit[c]

\* A call whose caller was told of success, or that was audited "succeeded",
\* is durable, unless the batch itself rolled back or another call of the same
\* session, running at the same time, took its pending work back: the calls of a
\* session share one transaction (execute, connector.execute).
SuccessIsDurable ==
    \A c \in Calls :
        /\ \/ "succeeded" \in audit[c]
           \/ call[c].step = "returned" /\ call[c].class \in Hazardous
        /\ call[c].control # "rollback"
        /\ call[c].class \in Hazardous
        => c \in committed \union discarded

\* A call the guard refused has not reached a driver and never will, and its
\* audit trail claims neither permission nor a result.
RefusedCallHasNoTrace ==
    \A c \in Calls :
        "blocked" \in audit[c] \/ call[c].step = "blocked" =>
            /\ c \notin delivered
            /\ audit[c] \subseteq {"blocked"}

RunningIn(s) == {c \in Calls : call[c].owner = s /\ call[c].step \in Running}

QuietSteps ==
    \A s \in Sessions : session[s].phase \in {"closed", "crashed"} =>
        /\ RunningIn(s)' \subseteq RunningIn(s)
        /\ \A c \in (committed' \ committed) \union (delivered' \ delivered) :
             call'[c].owner = s => RunningIn(s) # {} /\ conn[s] # "closed"

\* close() may come at any point of a call.  From then on no call starts: those
\* admitted before may come to an end, and only they may still reach the driver
\* or make anything durable, which ends when the connection is closed or the
\* process is gone (_ensure_open, close, connector.close).
EndedSessionIsQuiet == [][QuietSteps]_vars

\* A call that was reported as failed and has left no durable effect by then
\* leaves none later: "rolls back and does not commit on failure".
FailedCallStaysWithoutEffect ==
    [][ \A c \in Calls :
          call[c].step = "failed" /\ c \notin committed => c \notin committed' ]_vars

\* The guard implements the authority it promises: write authority is held
\* while a writable session is open, and after close() by the calls that were
\* admitted before it.
Production == {d \in Databases : ProductionDb(targets, d)}

HolderOf(x, running) ==
    IF x.phase \in {"new", "probing"} THEN "none"
    ELSE IF x.writable /\ (x.phase = "open" \/ (x.phase = "closed" /\ running # {}))
         THEN x.db ELSE "spent"

Holder == [s \in Sessions |-> HolderOf(session[s], RunningIn(s))]

LicenseOf ==
    [c \in Calls |-> IF "allowed" \in audit[c] THEN call[c].owner ELSE NoSession]

Authority == INSTANCE WriteAuthority WITH
    production <- Production, holder <- Holder, license <- LicenseOf,
    applied <- committed

\* See WriteAuthority: no write to production, no effect without a license,
\* none after the session that licensed it and its last call have ended.
ImplementsWriteAuthority == Authority!Spec

-----------------------------------------------------------------------------
(* The inductive invariant behind the properties above *)

Connected == {"probing", "open", "closed", "crashed"}

\* What a session's phase says about how it was opened
SessionOk(s) ==
    LET x == session[s] IN
    /\ x.phase \in Connected => /\ x.db \in Databases
                               /\ MayConnect(targets, x.profile, x.writable)
    /\ x.phase \in {"open", "closed"} => Attests(targets, x.profile, x.db)
    /\ x.phase \in {"new", "blocked", "crashed"} => conn[s] # "open"
    /\ x.phase \in {"new", "blocked"} => ~x.writable
    /\ s \in openAudit => x.phase = "blocked"
    /\ txn[s] # {} => x.phase \in {"open", "closed"} /\ conn[s] # "closed"

SessionInv == \A s \in Sessions : SessionOk(s)

\* A call belongs to a session that was attested, for good
OwnerInv ==
    \A c \in Calls : call[c].step # "idle" =>
        LET s == call[c].owner IN
        /\ s \in Sessions
        /\ session[s].phase \in {"open", "closed", "crashed"}
        /\ Attests(targets, session[s].profile, session[s].db)
        /\ call[c].step \in Running => session[s].phase \in {"open", "closed"}

\* What a call's progress says about its audit trail
AuditOk(c) ==
    /\ call[c].step \in {"idle", "admitted"} => audit[c] = {}
    /\ call[c].step = "blocked" => audit[c] \subseteq {"blocked"}
    /\ call[c].step # "blocked" => "blocked" \notin audit[c]
    /\ "succeeded" \in audit[c] => call[c].step = "returned"
    /\ call[c].step \in InDriver => "allowed" \in audit[c]
    /\ call[c].step \in InDriver \union {"admitted"} => session[call[c].owner].writable
    /\ call[c].step = "reading" => call[c].class = "read"

AuditInv == \A c \in Calls : AuditOk(c)

\* What a call's progress says about its SQL
EffectOk(c) ==
    /\ c \in delivered =>
         /\ call[c].step \notin {"idle", "blocked", "admitted", "reading"}
         /\ call[c].class \in Hazardous =>
              "allowed" \in audit[c] /\ session[call[c].owner].writable
    /\ \A s \in Sessions : c \in txn[s] => call[c].owner = s
    /\ c \in committed \/ (\E s \in Sessions : c \in txn[s]) =>
         c \in delivered /\ call[c].class \in Hazardous
    /\ call[c].class \in Hazardous =>
         /\ call[c].step = "commit" /\ call[c].control = "none" =>
              \/ c \in txn[call[c].owner] \union committed \union discarded
              \/ conn[call[c].owner] = "closed"
         /\ call[c].step = "commit" /\ call[c].control = "commit" => c \in committed
         /\ /\ call[c].step \in {"succeeding", "returned"}
            /\ call[c].control # "rollback"
            => c \in committed \union discarded

EffectInv == \A c \in Calls : EffectOk(c)

\* The type invariant and the four parts: together they are inductive
Inv == TypeOK /\ SessionInv /\ OwnerInv /\ AuditInv /\ EffectInv
=============================================================================
