--------------------------- MODULE DbGuardProofs ---------------------------
(***************************************************************************)
(* Theorems about the database guard, for every registry, every set of     *)
(* databases, sessions and calls.                                          *)
(***************************************************************************)
EXTENDS DbGuard, TLAPS


\* The values the steps assign are in the enumerations they belong to.
LEMMA Enumerated ==
    /\ Phases = {"new", "probing", "open", "closed", "blocked", "crashed"}
    /\ {"none", "open", "closed", "abandoned"} \subseteq Conns
    /\ {"idle", "reading", "admitted", "driver", "rollback", "commit", "succeeding",
        "failing", "blocked", "returned", "failed", "crashed"} \subseteq Steps
    /\ {"allowed", "blocked", "succeeded", "failed"} \subseteq Outcomes
    /\ "read" \in Classes /\ "none" \in Controls
    /\ Submitted \subseteq Classes
BY RegistryAssumption DEF Phases, Conns, Steps, Running, InDriver, Outcomes, Classes, Controls, Hazardous

\* Which steps belong to a call that is under way.
LEMMA StepKinds ==
    /\ Running = {"reading", "admitted", "driver", "rollback", "commit", "succeeding",
                  "failing"}
    /\ InDriver = {"driver", "rollback", "commit", "succeeding", "failing"}
BY DEF Running, InDriver

-----------------------------------------------------------------------------
(* Type correctness *)

\* What each of the helpers the actions are built from leaves in its variable.

LEMMA RefuseType ==
    ASSUME TypeOK, NEW s \in Sessions, Refuse(s)
    PROVE  session' \in [Sessions -> SessionRecords]
<1>1. [NotOpened EXCEPT !.phase = "blocked"] \in SessionRecords
  BY Enumerated DEF NotOpened, SessionRecords
<1> QED
  BY <1>1 DEF TypeOK, Refuse

LEMMA EnterType ==
    ASSUME TypeOK, NEW s \in Sessions, NEW phase \in Phases, Enter(s, phase)
    PROVE  session' \in [Sessions -> SessionRecords]
BY DEF TypeOK, Enter, SessionRecords

LEMMA InvokedType ==
    ASSUME TypeOK, NEW s \in Sessions, NEW c \in Calls, NEW class \in Classes,
           NEW control \in Controls, NEW step \in Steps,
           Invoked(c, s, class, control, step)
    PROVE  call' \in [Calls -> CallRecords]
BY DEF TypeOK, Invoked, CallRecords

LEMMA GotoType ==
    ASSUME TypeOK, NEW c \in Calls, NEW step \in Steps, Goto(c, step)
    PROVE  call' \in [Calls -> CallRecords]
BY DEF TypeOK, Goto, CallRecords

LEMMA BestEffortType ==
    ASSUME TypeOK, NEW c \in Calls, NEW outcome \in Outcomes, BestEffort(c, outcome)
    PROVE  audit' \in [Calls -> SUBSET Outcomes]
<1>1. CASE audit' = [audit EXCEPT ![c] = @ \union {outcome}]
  <2>1. audit[c] \union {outcome} \in SUBSET Outcomes
    BY DEF TypeOK
  <2> QED BY <1>1, <2>1 DEF TypeOK
<1>2. CASE UNCHANGED audit
  BY <1>2 DEF TypeOK
<1> QED BY <1>1, <1>2 DEF BestEffort

\* The three ways in which a step of a call treats its session's transaction.
LEMMA EffectType ==
    ASSUME TypeOK, NEW s \in Sessions, NEW c \in Calls,
           NEW C, C = {} \/ C = Work(c),
           Discard(s, c) \/ MakeDurable(s, C) \/ Keep(s, C)
    PROVE  /\ txn' \in [Sessions -> SUBSET Calls]
           /\ committed' \subseteq Calls /\ discarded' \subseteq Calls
<1>1. C \subseteq Calls
  BY DEF Work
<1> QED BY <1>1 DEF TypeOK, Discard, MakeDurable, Keep

LEMMA BestEffortOpenType ==
    ASSUME TypeOK, NEW s \in Sessions, BestEffortOpen(s)
    PROVE  openAudit' \subseteq Sessions
BY DEF TypeOK, BestEffortOpen

\* No step takes a variable out of its type.
LEMMA TypeStep == TypeOK /\ [Next]_vars => TypeOK'
<1> SUFFICES ASSUME TypeOK, [Next]_vars PROVE TypeOK'
  OBVIOUS
<1> USE Enumerated DEF TypeOK
<1>1. ASSUME NEW s \in Sessions, Open(s) PROVE TypeOK'
  <2>1. CASE OpenWithoutToolId(s)
    BY <2>1, RefuseType DEF OpenWithoutToolId
  <2>2. CASE OpenRefused(s)
    BY <2>2, RefuseType, BestEffortOpenType DEF OpenRefused
  <2>3. ASSUME NEW p \in Profiles, NEW w \in BOOLEAN, NEW d \in Databases,
               Connect(s, p, w, d)
        PROVE TypeOK'
    BY <2>3 DEF Connect, SessionRecords
  <2>4. CASE ProbeFails(s)
    BY <2>4, RefuseType, BestEffortOpenType DEF ProbeFails, CloseFailedConnection
  <2>5. CASE AttestationMismatch(s)
    BY <2>5, RefuseType, BestEffortOpenType
    DEF AttestationMismatch, CloseFailedConnection
  <2>6. CASE AttestationMatch(s)
    BY <2>6, EnterType DEF AttestationMatch
  <2> QED BY <1>1, <2>1, <2>2, <2>3, <2>4, <2>5, <2>6 DEF Open
<1>2. ASSUME NEW s \in Sessions, Close(s) PROVE TypeOK'
  <2>1. session' \in [Sessions -> SessionRecords]
    BY <1>2, EnterType DEF Close
  <2> QED BY <1>2, <2>1 DEF Close
<1>7. ASSUME NEW s \in Sessions, CloseConnection(s) PROVE TypeOK'
  <2>1. conn' \in [Sessions -> Conns] /\ txn' \in [Sessions -> SUBSET Calls]
    BY <1>7 DEF CloseConnection
  <2> QED BY <1>7, <2>1 DEF CloseConnection
<1>3. ASSUME NEW s \in Sessions, Crash(s) PROVE TypeOK'
  <2>1. session' \in [Sessions -> SessionRecords]
    BY <1>3, EnterType DEF Crash
  <2>2. conn' \in [Sessions -> Conns] /\ txn' \in [Sessions -> SUBSET Calls]
    BY <1>3 DEF Crash
  <2>3. call' \in [Calls -> CallRecords]
    BY <1>3 DEF Crash, CallRecords
  <2> QED BY <1>3, <2>1, <2>2, <2>3 DEF Crash
<1>4. ASSUME NEW s \in Sessions, NEW c \in Calls, FetchCall(s, c) PROVE TypeOK'
  <2>1. CASE Fetch(s, c)
    BY <2>1, GotoType DEF Fetch
  <2>2. CASE FetchOnClosed(s, c)
    BY <2>2, InvokedType DEF FetchOnClosed
  <2>3. ASSUME NEW class \in Submitted, FetchBlocked(s, c, class) PROVE TypeOK'
    BY <2>3, InvokedType, BestEffortType DEF FetchBlocked
  <2>4. CASE AdmitFetch(s, c)
    BY <2>4, InvokedType DEF AdmitFetch
  <2>5. CASE FetchFails(s, c)
    BY <2>5, GotoType DEF FetchFails
  <2> QED BY <1>4, <2>1, <2>2, <2>3, <2>4, <2>5 DEF FetchCall
<1>5. ASSUME NEW s \in Sessions, NEW c \in Calls, ExecuteCall(s, c) PROVE TypeOK'
  <2>1. ASSUME NEW class \in Submitted, ExecuteDenied(s, c, class) PROVE TypeOK'
    BY <2>1, InvokedType, BestEffortType DEF ExecuteDenied
  <2>2. ASSUME NEW class \in Submitted \ DeniedToExecute, NEW control \in Controls,
               \/ ExecuteOnClosed(s, c, class, control)
               \/ Admit(s, c, class, control)
        PROVE TypeOK'
    BY <2>2, InvokedType DEF ExecuteOnClosed, Admit
  <2>11. CASE PreAudit(s, c)
    BY <2>11, GotoType DEF PreAudit
  <2>12. CASE PreAuditFails(s, c)
    BY <2>12, GotoType DEF PreAuditFails
  <2>3. CASE CursorFails(s, c)
    BY <2>3, GotoType DEF CursorFails
  <2>4. CASE StatementRuns(s, c)
    BY <2>4, GotoType, EffectType DEF StatementRuns, OwnControl
  <2>5. CASE StatementRaises(s, c)
    BY <2>5, GotoType, EffectType DEF StatementRaises, OwnControl
  <2>6. CASE Rollback(s, c)
    BY <2>6, GotoType, EffectType DEF Rollback
  <2>7. CASE Commit(s, c)
    BY <2>7, GotoType, EffectType DEF Commit
  <2>8. CASE CommitFails(s, c)
    BY <2>8, GotoType, EffectType DEF CommitFails
  <2>9. CASE ReportSuccess(s, c)
    BY <2>9, GotoType, BestEffortType DEF ReportSuccess
  <2>10. CASE ReportFailure(s, c)
    BY <2>10, GotoType, BestEffortType DEF ReportFailure
  <2> QED
    BY <1>5, <2>1, <2>2, <2>3, <2>4, <2>5, <2>6, <2>7, <2>8, <2>9, <2>10, <2>11, <2>12
    DEF ExecuteCall
<1>6. CASE UNCHANGED vars
  BY <1>6 DEF vars
<1> QED
  BY <1>1, <1>2, <1>3, <1>4, <1>5, <1>6, <1>7 DEF Next

\* Every value the guard stores has its type.
THEOREM TypeCorrect == Spec => []TypeOK
<1>1. Init => TypeOK
  BY Enumerated DEF Init, TypeOK, NotOpened, SessionRecords, CallRecords
<1> QED
  BY <1>1, TypeStep, PTL DEF Spec

-----------------------------------------------------------------------------
(* What each helper changes, value by value *)

LEMMA RefuseEffect ==
    ASSUME TypeOK, NEW s \in Sessions, Refuse(s)
    PROVE  /\ session'[s].phase = "blocked" /\ session'[s].writable = FALSE
           /\ \A t \in Sessions : t # s => session'[t] = session[t]
<1>1. session'[s] = [NotOpened EXCEPT !.phase = "blocked"]
  BY DEF TypeOK, Refuse
<1> QED BY <1>1 DEF TypeOK, Refuse, NotOpened

LEMMA EnterEffect ==
    ASSUME TypeOK, NEW s \in Sessions, NEW phase, Enter(s, phase)
    PROVE  /\ session'[s].phase = phase
           /\ session'[s].writable = session[s].writable
           /\ session'[s].profile = session[s].profile
           /\ session'[s].db = session[s].db
           /\ \A t \in Sessions : t # s => session'[t] = session[t]
BY DEF TypeOK, Enter, SessionRecords

LEMMA InvokedEffect ==
    ASSUME TypeOK, NEW s \in Sessions, NEW c \in Calls, NEW class, NEW control, NEW step,
           Invoked(c, s, class, control, step)
    PROVE  /\ call'[c].step = step /\ call'[c].owner = s
           /\ call'[c].class = class /\ call'[c].control = control
           /\ \A e \in Calls : e # c => call'[e] = call[e]
BY DEF TypeOK, Invoked

LEMMA GotoEffect ==
    ASSUME TypeOK, NEW c \in Calls, NEW step, Goto(c, step)
    PROVE  /\ call'[c].step = step /\ call'[c].owner = call[c].owner
           /\ call'[c].class = call[c].class /\ call'[c].control = call[c].control
           /\ \A e \in Calls : e # c => call'[e] = call[e]
BY DEF TypeOK, Goto, CallRecords

LEMMA BestEffortEffect ==
    ASSUME TypeOK, NEW c \in Calls, NEW outcome, BestEffort(c, outcome)
    PROVE  /\ audit'[c] = audit[c] \/ audit'[c] = audit[c] \union {outcome}
           /\ \A e \in Calls : e # c => audit'[e] = audit[e]
BY DEF TypeOK, BestEffort

LEMMA CrashEffect ==
    ASSUME TypeOK, NEW s \in Sessions, Crash(s), NEW c \in Calls
    PROVE  /\ call'[c].owner = call[c].owner
           /\ call'[c].class = call[c].class /\ call'[c].control = call[c].control
           /\ \/ call'[c].step = call[c].step
              \/ call[c].step \in Running /\ call'[c].step = "crashed"
           /\ call[c].owner = s /\ call[c].step \in Running => call'[c].step = "crashed"
BY DEF TypeOK, Crash, CallRecords

\* A call leaves everything about sessions and connections alone.
LEMMA CallFrame ==
    ASSUME NEW s \in Sessions, NEW c \in Calls, FetchCall(s, c) \/ ExecuteCall(s, c)
    PROVE  UNCHANGED <<targets, session, conn, openAudit>>
BY DEF FetchCall, Fetch, FetchOnClosed, FetchBlocked, AdmitFetch, FetchFails, ExecuteCall,
       ExecuteDenied, ExecuteOnClosed, Admit, PreAuditFails, PreAudit, CursorFails,
       StatementRuns, StatementRaises, Rollback, Commit, CommitFails, ReportSuccess,
       ReportFailure

\* Opening a session leaves every call, transaction and event of a call alone.
LEMMA OpenFrame ==
    ASSUME NEW s \in Sessions, Open(s)
    PROVE  UNCHANGED <<targets, txn, call, delivered, committed, discarded, audit>>
BY DEF Open, OpenWithoutToolId, OpenRefused, Connect, ProbeFails, AttestationMismatch,
       AttestationMatch

\* Only a session that was not open yet is touched.
LEMMA OpenSession ==
    ASSUME TypeOK, NEW s \in Sessions, Open(s)
    PROVE  /\ session[s].phase \in {"new", "probing"}
           /\ \A t \in Sessions : t # s => session'[t] = session[t]
<1>1. CASE OpenWithoutToolId(s)
  BY <1>1, RefuseEffect DEF OpenWithoutToolId
<1>2. CASE OpenRefused(s)
  BY <1>2, RefuseEffect DEF OpenRefused
<1>3. ASSUME NEW p \in Profiles, NEW w \in BOOLEAN, NEW d \in Databases, Connect(s, p, w, d)
      PROVE  /\ session[s].phase \in {"new", "probing"}
             /\ \A t \in Sessions : t # s => session'[t] = session[t]
  BY <1>3 DEF Connect, TypeOK
<1>4. CASE ProbeFails(s)
  BY <1>4, RefuseEffect DEF ProbeFails, CloseFailedConnection
<1>5. CASE AttestationMismatch(s)
  BY <1>5, RefuseEffect DEF AttestationMismatch, CloseFailedConnection
<1>6. CASE AttestationMatch(s)
  BY <1>6, EnterEffect DEF AttestationMatch
<1> QED BY <1>1, <1>2, <1>3, <1>4, <1>5, <1>6 DEF Open

\* What a call may do to the work of its session: an effect grows only by what
\* the session had pending or by the call's own work, over a connection that
\* has not been closed.
LEMMA EffectFrame ==
    ASSUME TypeOK, NEW s \in Sessions, NEW c \in Calls,
           NEW C, C = {} \/ C = Work(c),
           Discard(s, c) \/ MakeDurable(s, C) \/ Keep(s, C)
    PROVE  /\ \A t \in Sessions : t # s => txn'[t] = txn[t]
           /\ txn'[s] \subseteq txn[s] \union C
           /\ committed \subseteq committed' /\ discarded \subseteq discarded'
           /\ committed' \subseteq committed \union txn[s] \union C
           /\ txn[s] \ {c} \subseteq txn'[s] \union committed' \union discarded'
BY DEF TypeOK, Discard, MakeDurable, Keep, Work

LEMMA WorkFrame ==
    ASSUME TypeOK, NEW s \in Sessions, NEW c \in Calls, FetchCall(s, c) \/ ExecuteCall(s, c)
    PROVE  /\ \A t \in Sessions : t # s => txn'[t] = txn[t]
           /\ txn'[s] \subseteq txn[s] \union {c}
           /\ txn'[s] \subseteq txn[s] \/ (At(s, c, "driver") /\ Live(s))
           /\ committed \subseteq committed'
           /\ committed' \subseteq committed \union txn[s] \union {c}
           /\ committed' \subseteq committed \union txn[s] \/ (At(s, c, "driver") /\ Live(s))
           /\ delivered \subseteq delivered' /\ delivered' \subseteq delivered \union {c}
           /\ delivered' = delivered \/ Live(s)
           /\ committed' # committed \/ delivered' # delivered =>
                call[c].owner = s /\ call[c].step \in Running /\ audit' = audit
<1> DEFINE Goal == /\ \A t \in Sessions : t # s => txn'[t] = txn[t]
                   /\ txn'[s] \subseteq txn[s] \union {c}
                   /\ txn'[s] \subseteq txn[s] \/ (At(s, c, "driver") /\ Live(s))
                   /\ committed \subseteq committed'
                   /\ committed' \subseteq committed \union txn[s] \union {c}
                   /\ \/ committed' \subseteq committed \union txn[s]
                      \/ At(s, c, "driver") /\ Live(s)
                   /\ delivered \subseteq delivered'
                   /\ delivered' \subseteq delivered \union {c}
                   /\ delivered' = delivered \/ Live(s)
                   /\ committed' # committed \/ delivered' # delivered =>
                        call[c].owner = s /\ call[c].step \in Running /\ audit' = audit
<1>1. CASE UNCHANGED <<txn, committed, delivered>>
  BY <1>1
<1>2. CASE Fetch(s, c)
  BY <1>2, StepKinds DEF Fetch, At
<1>3. CASE StatementRuns(s, c) \/ StatementRaises(s, c)
  <2>1. /\ At(s, c, "driver") /\ Live(s) /\ call[c].step \in Running /\ call[c].owner = s
        /\ delivered' = delivered \union {c} /\ audit' = audit
    BY <1>3, StepKinds DEF StatementRuns, StatementRaises, At
  <2>2. PICK C : /\ C = {} \/ C = Work(c)
                 /\ Discard(s, c) \/ MakeDurable(s, C) \/ Keep(s, C)
    BY <1>3 DEF StatementRuns, StatementRaises, OwnControl
  <2>3. C \subseteq {c}
    BY <2>2 DEF Work
  <2> QED BY <2>1, <2>2, <2>3, EffectFrame
<1>4. CASE Rollback(s, c) \/ Commit(s, c) \/ CommitFails(s, c)
  <2>1. /\ call[c].step \in Running /\ call[c].owner = s
        /\ delivered' = delivered /\ audit' = audit
    BY <1>4, StepKinds DEF Rollback, Commit, CommitFails, At
  <2>2. Discard(s, c) \/ MakeDurable(s, {}) \/ Keep(s, {})
    BY <1>4 DEF Rollback, Commit, CommitFails
  <2> QED BY <2>1, <2>2, EffectFrame
<1> QED
  BY <1>1, <1>2, <1>3, <1>4
  DEF FetchCall, FetchOnClosed, FetchBlocked, AdmitFetch, FetchFails, ExecuteCall,
      ExecuteDenied, ExecuteOnClosed, Admit, PreAuditFails, PreAudit, CursorFails,
      ReportSuccess, ReportFailure

-----------------------------------------------------------------------------
(* SessionInv is preserved *)

LEMMA OpenKeepsSessionInv ==
    ASSUME TypeOK, SessionInv, NEW s \in Sessions, Open(s)
    PROVE  SessionInv'
<1> SUFFICES ASSUME NEW t \in Sessions PROVE SessionOk(t)'
  BY DEF SessionInv
<1> SessionOk(t) /\ SessionOk(s)
  BY DEF SessionInv
<1> USE OpenFrame DEF SessionOk, Connected
<1>1. CASE OpenWithoutToolId(s)
  BY <1>1, RefuseEffect DEF OpenWithoutToolId
<1>2. CASE OpenRefused(s)
  BY <1>2, RefuseEffect DEF OpenRefused, BestEffortOpen
<1>3. ASSUME NEW p \in Profiles, NEW w \in BOOLEAN, NEW d \in Databases, Connect(s, p, w, d)
      PROVE  SessionOk(t)'
  BY <1>3 DEF Connect, TypeOK
<1>4. CASE ProbeFails(s)
  BY <1>4, RefuseEffect DEF ProbeFails, CloseFailedConnection, BestEffortOpen, TypeOK
<1>5. CASE AttestationMismatch(s)
  BY <1>5, RefuseEffect DEF AttestationMismatch, CloseFailedConnection, BestEffortOpen, TypeOK
<1>6. CASE AttestationMatch(s)
  BY <1>6, EnterEffect DEF AttestationMatch
<1> QED BY <1>1, <1>2, <1>3, <1>4, <1>5, <1>6 DEF Open

LEMMA SessionStep ==
    ASSUME TypeOK, SessionInv, OwnerInv, [Next]_vars
    PROVE  SessionInv'
<1>1. ASSUME NEW s \in Sessions, Open(s) PROVE SessionInv'
  BY <1>1, OpenKeepsSessionInv
<1>2. ASSUME NEW s \in Sessions, Close(s) PROVE SessionInv'
  BY <1>2, EnterEffect DEF Close, SessionInv, Connected, SessionOk, TypeOK
<1>3. ASSUME NEW s \in Sessions, Crash(s) PROVE SessionInv'
  BY <1>3, EnterEffect DEF Crash, SessionInv, SessionOk, Connected, TypeOK
<1>4. ASSUME NEW s \in Sessions, NEW c \in Calls, FetchCall(s, c) \/ ExecuteCall(s, c)
      PROVE  SessionInv'
  <2>1. UNCHANGED <<targets, session, conn, openAudit>>
    BY <1>4, CallFrame
  <2>2. \A t \in Sessions : txn'[t] \subseteq txn[t] \/ (t = s /\ At(s, c, "driver") /\ Live(s))
    BY <1>4, WorkFrame
  <2>3. At(s, c, "driver") /\ Live(s) =>
          session[s].phase \in {"open", "closed"} /\ conn[s] # "closed"
    BY StepKinds DEF At, Live, OwnerInv
  <2> QED BY <2>1, <2>2, <2>3 DEF SessionInv, SessionOk
<1>5. CASE UNCHANGED vars
  BY <1>5 DEF vars, SessionInv, SessionOk
<1>6. ASSUME NEW s \in Sessions, CloseConnection(s) PROVE SessionInv'
  BY <1>6 DEF CloseConnection, SessionInv, SessionOk, Connected, TypeOK
<1> QED BY <1>1, <1>2, <1>3, <1>4, <1>5, <1>6 DEF Next

-----------------------------------------------------------------------------
(* The other parts: what a call may do to itself *)

\* A call starts in an open or closed session, and gets past _ensure_open only
\* in an open one; on its way it keeps what it was called with.
LEMMA CallSteps ==
    ASSUME TypeOK, NEW s \in Sessions, NEW c \in Calls, FetchCall(s, c) \/ ExecuteCall(s, c)
    PROVE  /\ call'[c].owner = s
           /\ \A e \in Calls : e # c => call'[e] = call[e]
           /\ \/ /\ call[c].step = "idle"
                 /\ session[s].phase \in {"open", "closed"}
                 /\ \/ call'[c].step = "blocked"
                    \/ call'[c].step \in {"reading", "admitted"} /\ session[s].phase = "open"
              \/ /\ call[c].step \in Running
                 /\ call[c].owner = s
                 /\ call'[c].class = call[c].class
                 /\ call'[c].control = call[c].control
                 /\ call'[c].step \in InDriver \union {"blocked", "returned", "failed"}
<1> USE StepKinds
<1>1. CASE FetchOnClosed(s, c) \/ AdmitFetch(s, c)
  BY <1>1, InvokedEffect DEF FetchOnClosed, AdmitFetch, Callable
<1>2. ASSUME NEW class \in Submitted, FetchBlocked(s, c, class)
      PROVE  /\ call[c].step = "idle" /\ session[s].phase \in {"open", "closed"}
             /\ call'[c].owner = s /\ call'[c].step = "blocked"
             /\ \A e \in Calls : e # c => call'[e] = call[e]
  BY <1>2, InvokedEffect DEF FetchBlocked, Callable
<1>3. ASSUME NEW class \in Submitted, ExecuteDenied(s, c, class)
      PROVE  /\ call[c].step = "idle" /\ session[s].phase \in {"open", "closed"}
             /\ call'[c].owner = s /\ call'[c].step = "blocked"
             /\ \A e \in Calls : e # c => call'[e] = call[e]
  BY <1>3, InvokedEffect DEF ExecuteDenied, Executable, Callable
<1>4. ASSUME NEW class \in Submitted \ DeniedToExecute, NEW control \in Controls,
             ExecuteOnClosed(s, c, class, control) \/ Admit(s, c, class, control)
      PROVE  /\ call[c].step = "idle" /\ session[s].phase \in {"open", "closed"}
             /\ call'[c].owner = s
             /\ \/ call'[c].step = "blocked"
                \/ call'[c].step = "admitted" /\ session[s].phase = "open"
             /\ \A e \in Calls : e # c => call'[e] = call[e]
  BY <1>4, InvokedEffect DEF ExecuteOnClosed, Admit, Executable, Callable
<1>5. CASE Fetch(s, c)
  BY <1>5, GotoEffect DEF Fetch, At
<1>6. CASE FetchFails(s, c) \/ PreAudit(s, c) \/ PreAuditFails(s, c) \/ CursorFails(s, c)
  BY <1>6, GotoEffect DEF FetchFails, PreAudit, PreAuditFails, CursorFails, At
<1>7. CASE StatementRuns(s, c) \/ StatementRaises(s, c) \/ Rollback(s, c)
  BY <1>7, GotoEffect DEF StatementRuns, StatementRaises, Rollback, At
<1>8. CASE Commit(s, c) \/ CommitFails(s, c) \/ ReportSuccess(s, c) \/ ReportFailure(s, c)
  BY <1>8, GotoEffect DEF Commit, CommitFails, ReportSuccess, ReportFailure, At
<1> QED
  BY <1>1, <1>2, <1>3, <1>4, <1>5, <1>6, <1>7, <1>8 DEF FetchCall, ExecuteCall

\* OwnerInv: a session never changes under a call it admitted.
LEMMA OwnerStep ==
    ASSUME TypeOK, SessionInv, OwnerInv, [Next]_vars
    PROVE  OwnerInv'
<1>1. ASSUME NEW s \in Sessions, Open(s) PROVE OwnerInv'
  BY <1>1, OpenSession, OpenFrame DEF OwnerInv
<1>2. ASSUME NEW s \in Sessions, Close(s) PROVE OwnerInv'
  BY <1>2, EnterEffect DEF Close, OwnerInv
<1>6. ASSUME NEW s \in Sessions, CloseConnection(s) PROVE OwnerInv'
  BY <1>6 DEF CloseConnection, OwnerInv
<1>3. ASSUME NEW s \in Sessions, Crash(s) PROVE OwnerInv'
  <2>1. /\ \A t \in Sessions : t # s => session'[t] = session[t]
        /\ session'[s].phase = "crashed" /\ session'[s].profile = session[s].profile
        /\ session'[s].db = session[s].db
        /\ targets' = targets
    BY <1>3, EnterEffect DEF Crash
  <2>2. "crashed" \notin Running /\ "idle" \notin Running
    BY StepKinds
  <2> QED BY <1>3, <2>1, <2>2, CrashEffect DEF OwnerInv
<1>4. ASSUME NEW s \in Sessions, NEW c \in Calls, FetchCall(s, c) \/ ExecuteCall(s, c)
      PROVE  OwnerInv'
  <2>1. \A x \in {"blocked", "returned", "failed"} : x \notin Running
    BY StepKinds
  <2>2. "idle" \notin Running
    BY StepKinds
  <2> QED BY <1>4, <2>1, <2>2, CallFrame, CallSteps DEF OwnerInv, SessionInv, SessionOk
<1>5. CASE UNCHANGED vars
  BY <1>5 DEF vars, OwnerInv
<1> QED BY <1>1, <1>2, <1>3, <1>4, <1>5, <1>6 DEF Next

\* Opening and closing keep the writability of a session that owns a call.
LEMMA WritableFrame ==
    ASSUME TypeOK, OwnerInv, NEW s \in Sessions,
           Open(s) \/ Close(s) \/ CloseConnection(s) \/ Crash(s),
           NEW c \in Calls, call[c].step # "idle"
    PROVE  session'[call[c].owner].writable = session[call[c].owner].writable
BY OpenSession, EnterEffect DEF OwnerInv, Close, CloseConnection, Crash

\* AuditInv, for the call that takes the step.
LEMMA AuditOfCall ==
    ASSUME TypeOK, AuditInv, NEW s \in Sessions, NEW c \in Calls,
           FetchCall(s, c) \/ ExecuteCall(s, c)
    PROVE  AuditOk(c)' /\ \A e \in Calls : e # c => audit'[e] = audit[e]
<1> DEFINE Goal == AuditOk(c)' /\ \A e \in Calls : e # c => audit'[e] = audit[e]
<1> AuditOk(c)
  BY DEF AuditInv
<1> USE StepKinds DEF AuditOk
<1>1. CASE Fetch(s, c)
  BY <1>1, GotoEffect DEF Fetch, At
<1>2. CASE FetchOnClosed(s, c) \/ AdmitFetch(s, c)
  BY <1>2, InvokedEffect DEF FetchOnClosed, AdmitFetch, Callable
<1>3. ASSUME NEW class \in Submitted, FetchBlocked(s, c, class) PROVE Goal
  BY <1>3, InvokedEffect, BestEffortEffect DEF FetchBlocked, Callable
<1>4. ASSUME NEW class \in Submitted, ExecuteDenied(s, c, class) PROVE Goal
  BY <1>4, InvokedEffect, BestEffortEffect DEF ExecuteDenied, Executable, Callable
<1>5. ASSUME NEW class \in Submitted, NEW control \in Controls,
             ExecuteOnClosed(s, c, class, control) \/ Admit(s, c, class, control)
      PROVE  Goal
  BY <1>5, InvokedEffect DEF ExecuteOnClosed, Admit, Executable, Callable
<1>6. CASE PreAudit(s, c)
  BY <1>6, GotoEffect DEF PreAudit, At, TypeOK
<1>15. CASE PreAuditFails(s, c) \/ FetchFails(s, c)
  BY <1>15, GotoEffect DEF PreAuditFails, FetchFails, At
<1>7. CASE CursorFails(s, c)
  BY <1>7, GotoEffect DEF CursorFails, At
<1>8. CASE StatementRuns(s, c)
  BY <1>8, GotoEffect DEF StatementRuns, At
<1>9. CASE StatementRaises(s, c)
  BY <1>9, GotoEffect DEF StatementRaises, At
<1>10. CASE Rollback(s, c)
  BY <1>10, GotoEffect DEF Rollback, At
<1>11. CASE Commit(s, c)
  BY <1>11, GotoEffect DEF Commit, At
<1>12. CASE CommitFails(s, c)
  BY <1>12, GotoEffect DEF CommitFails, At
<1>13. CASE ReportSuccess(s, c)
  BY <1>13, GotoEffect, BestEffortEffect DEF ReportSuccess, At
<1>14. CASE ReportFailure(s, c)
  BY <1>14, GotoEffect, BestEffortEffect DEF ReportFailure, At
<1> QED
  BY <1>1, <1>2, <1>3, <1>4, <1>5, <1>6, <1>7, <1>8, <1>9, <1>10, <1>11, <1>12, <1>13, <1>14,
     <1>15
  DEF FetchCall, ExecuteCall

\* AuditInv: an event is added only to the trail of the call that takes the step.
LEMMA AuditStep ==
    ASSUME TypeOK, OwnerInv, AuditInv, [Next]_vars
    PROVE  AuditInv'
<1>1. ASSUME NEW s \in Sessions, Open(s) \/ Close(s) \/ CloseConnection(s) PROVE AuditInv'
  <2>1. call' = call /\ audit' = audit
    BY <1>1, OpenFrame DEF Close, CloseConnection
  <2>2. "idle" \notin Running /\ InDriver \union {"admitted"} \subseteq Running
    BY StepKinds
  <2> QED BY <1>1, <2>1, <2>2, WritableFrame DEF AuditInv, AuditOk
<1>2. ASSUME NEW s \in Sessions, Crash(s) PROVE AuditInv'
  <2>1. audit' = audit
    BY <1>2 DEF Crash
  <2>2. /\ \A x \in {"idle", "crashed", "blocked", "returned"} : x \notin Running
        /\ InDriver \union {"admitted"} \subseteq Running /\ "crashed" \notin InDriver
    BY StepKinds
  <2> QED BY <1>2, <2>1, <2>2, CrashEffect, WritableFrame DEF AuditInv, AuditOk
<1>3. ASSUME NEW s \in Sessions, NEW c \in Calls, FetchCall(s, c) \/ ExecuteCall(s, c)
      PROVE  AuditInv'
  BY <1>3, AuditOfCall, CallFrame, CallSteps DEF AuditInv, AuditOk
<1>4. CASE UNCHANGED vars
  BY <1>4 DEF vars, AuditInv, AuditOk
<1> QED BY <1>1, <1>2, <1>3, <1>4 DEF Next

LEMMA OwnerIsSession ==
    ASSUME OwnerInv, NEW c \in Calls, call[c].step # "idle"
    PROVE  call[c].owner \in Sessions
BY DEF OwnerInv

\* Work is only ever the call itself, and only of a hazardous call.
LEMMA WorkIsOwn == \A c : Work(c) = IF call[c].class \in Hazardous THEN {c} ELSE {}
BY DEF Work

\* EffectInv under the steps that call the driver, for another call of the
\* session: its work is still pending, durable, or taken back.
LEMMA EffectOfOther ==
    ASSUME TypeOK, Inv, NEW s \in Sessions, NEW c \in Calls,
           NEW C, C = {} \/ C = Work(c),
           Discard(s, c) \/ MakeDurable(s, C) \/ Keep(s, C),
           session' = session, conn' = conn, audit' = audit,
           delivered' \in {delivered, delivered \union {c}},
           NEW e \in Calls, e # c, call'[e] = call[e]
    PROVE  EffectOk(e)'
<1> EffectOk(e)
  BY DEF Inv, EffectInv
<1>1. C \subseteq {c}
  BY DEF Work
<1>2. call[e].step = "commit" => call[e].owner \in Sessions
  BY OwnerIsSession DEF Inv
<1>3. /\ \A t \in Sessions : t # s => txn'[t] = txn[t]
      /\ txn'[s] \subseteq txn[s] \union C
      /\ committed \subseteq committed' /\ discarded \subseteq discarded'
      /\ committed' \subseteq committed \union txn[s] \union C
      /\ txn[s] \ {c} \subseteq txn'[s] \union committed' \union discarded'
  BY EffectFrame
<1>4. /\ e \in delivered' => e \in delivered
      /\ delivered \subseteq delivered'
      /\ \A t \in Sessions : e \in txn'[t] => e \in txn[t]
      /\ e \in committed' => e \in committed \union txn[s]
  BY <1>1, <1>3
<1>5. /\ e \in delivered' =>
           /\ call'[e].step \notin {"idle", "blocked", "admitted", "reading"}
           /\ call'[e].class \in Hazardous =>
                "allowed" \in audit'[e] /\ session'[call'[e].owner].writable
      /\ \A t \in Sessions : e \in txn'[t] => call'[e].owner = t
      /\ e \in committed' \/ (\E t \in Sessions : e \in txn'[t]) =>
           e \in delivered' /\ call'[e].class \in Hazardous
  BY <1>4 DEF EffectOk
<1>6. call[e].step = "commit" =>
        txn[call[e].owner] \ {c} \subseteq
            txn'[call[e].owner] \union committed' \union discarded'
  BY <1>2, <1>3
<1>7. call'[e].class \in Hazardous =>
         /\ call'[e].step = "commit" /\ call'[e].control = "none" =>
              \/ e \in txn'[call'[e].owner] \union committed' \union discarded'
              \/ conn'[call'[e].owner] = "closed"
         /\ call'[e].step = "commit" /\ call'[e].control = "commit" => e \in committed'
         /\ /\ call'[e].step \in {"succeeding", "returned"}
            /\ call'[e].control # "rollback"
            => e \in committed' \union discarded'
  BY <1>3, <1>6 DEF EffectOk
<1> QED BY <1>5, <1>7 DEF EffectOk

\* The same for the call that takes the step: what it leaves behind for its next
\* step is what EffectOk asks of that.
LEMMA EffectOfOwn ==
    ASSUME TypeOK, Inv, NEW s \in Sessions, NEW c \in Calls,
           NEW C, C = {} \/ (C = Work(c) /\ c \in delivered'),
           Discard(s, c) \/ MakeDurable(s, C) \/ Keep(s, C),
           session' = session, conn' = conn, audit' = audit,
           delivered' \in {delivered, delivered \union {c}},
           call[c].step \in InDriver, call[c].owner = s,
           call'[c].owner = s, call'[c].class = call[c].class,
           call'[c].control = call[c].control,
           call'[c].step \in {"rollback", "failing", "commit", "succeeding"},
           call[c].class \in Hazardous =>
             /\ call'[c].step = "commit" =>
                  /\ call[c].control = "none" => c \in txn'[s]
                  /\ call[c].control = "commit" => c \in committed'
             /\ call'[c].step = "succeeding" /\ call[c].control # "rollback" =>
                  c \in committed' \union discarded'
    PROVE  EffectOk(c)'
<1> /\ EffectOk(c) /\ AuditOk(c)
  BY DEF Inv, EffectInv, AuditInv
<1>1. /\ \A t \in Sessions : t # s => txn'[t] = txn[t]
      /\ txn'[s] \subseteq txn[s] \union C
      /\ committed' \subseteq committed \union txn[s] \union C
  <2>1. C = {} \/ C = Work(c)
    OBVIOUS
  <2> QED BY <2>1, EffectFrame
<1>2. c \in C => call[c].class \in Hazardous /\ c \in delivered'
  BY WorkIsOwn
<1>3. "allowed" \in audit[c] /\ session[s].writable
  BY StepKinds DEF AuditOk
<1>4. /\ \A t \in Sessions : c \in txn'[t] => t = s
      /\ c \in committed' \/ (\E t \in Sessions : c \in txn'[t]) =>
           c \in delivered' /\ call'[c].class \in Hazardous
  BY <1>1, <1>2 DEF EffectOk
<1> QED BY <1>3, <1>4 DEF EffectOk

\* EffectInv under the steps that call the driver.
LEMMA EffectOfDriver ==
    ASSUME TypeOK, Inv, NEW s \in Sessions, NEW c \in Calls,
           \/ StatementRuns(s, c) \/ StatementRaises(s, c) \/ Rollback(s, c)
           \/ Commit(s, c) \/ CommitFails(s, c),
           NEW e \in Calls
    PROVE  EffectOk(e)'
<1>1. /\ session' = session /\ conn' = conn /\ audit' = audit
      /\ delivered' \in {delivered, delivered \union {c}}
      /\ call[c].step \in InDriver /\ call[c].owner = s
  BY StepKinds DEF StatementRuns, StatementRaises, Rollback, Commit, CommitFails, At
<1>2. /\ call'[c].owner = s /\ call'[c].class = call[c].class
      /\ call'[c].control = call[c].control
      /\ call'[c].step \in {"rollback", "failing", "commit", "succeeding"}
      /\ \A x \in Calls : x # c => call'[x] = call[x]
  BY <1>1, GotoEffect DEF StatementRuns, StatementRaises, Rollback, Commit, CommitFails
<1>3. PICK C : /\ C = {} \/ (C = Work(c) /\ c \in delivered')
               /\ Discard(s, c) \/ MakeDurable(s, C) \/ Keep(s, C)
  BY DEF StatementRuns, StatementRaises, Rollback, Commit, CommitFails, OwnControl
<1>4. CASE e # c
  BY <1>1, <1>2, <1>3, <1>4, EffectOfOther
<1>5. ASSUME call[c].class \in Hazardous
      PROVE  /\ call'[c].step = "commit" =>
                  /\ call[c].control = "none" => c \in txn'[s]
                  /\ call[c].control = "commit" => c \in committed'
             /\ call'[c].step = "succeeding" /\ call[c].control # "rollback" =>
                  c \in committed' \union discarded'
  <2>1. CASE StatementRuns(s, c)
    BY <1>5, <2>1, GotoEffect, WorkIsOwn
    DEF StatementRuns, OwnControl, MakeDurable, Discard, Keep, TypeOK
  <2>2. CASE StatementRaises(s, c) \/ Rollback(s, c) \/ CommitFails(s, c)
    BY <2>2, GotoEffect DEF StatementRaises, Rollback, CommitFails
  <2>3. CASE Commit(s, c)
    <3>1. /\ call[c].step = "commit" /\ Live(s) /\ EffectOk(c)
          /\ call[c].control \in {"none", "commit", "rollback"}
          /\ call'[c].step = "succeeding"
      BY <2>3, GotoEffect DEF Commit, At, Inv, EffectInv, TypeOK, CallRecords, Controls
    <3>2. call[c].control # "rollback" => c \in txn[s] \union committed \union discarded
      BY <1>1, <1>5, <3>1 DEF EffectOk, Live
    <3>3. committed' = committed \union txn[s] \union {} /\ discarded' = discarded
      BY <2>3 DEF Commit, MakeDurable
    <3> QED BY <3>1, <3>2, <3>3
  <2> QED BY <2>1, <2>2, <2>3
<1>6. CASE e = c
  BY <1>1, <1>2, <1>3, <1>5, <1>6, EffectOfOwn
<1> QED BY <1>4, <1>6

\* EffectInv under every step of a call.
LEMMA EffectOfCall ==
    ASSUME TypeOK, Inv, NEW s \in Sessions, NEW c \in Calls,
           FetchCall(s, c) \/ ExecuteCall(s, c), NEW e \in Calls
    PROVE  EffectOk(e)'
<1> EffectOk(e) /\ EffectOk(c) /\ AuditOk(c)
  BY DEF Inv, EffectInv, AuditInv
<1>1. CASE Fetch(s, c)
  <2>1. "read" \notin Hazardous /\ call[c].step = "reading" /\ call[c].class = "read"
    BY <1>1 DEF Hazardous, Fetch, At, AuditOk
  <2>2. call'[c].step \in {"returned", "failed"} /\ call'[c].class = "read"
    BY <1>1, <2>1, GotoEffect DEF Fetch
  <2> QED BY <1>1, <2>1, <2>2, GotoEffect DEF Fetch, EffectOk
<1>2. CASE FetchOnClosed(s, c) \/ AdmitFetch(s, c)
  BY <1>2, InvokedEffect DEF FetchOnClosed, AdmitFetch, Callable, EffectOk
<1>3. ASSUME NEW class \in Submitted, FetchBlocked(s, c, class) PROVE EffectOk(e)'
  BY <1>3, InvokedEffect, BestEffortEffect DEF FetchBlocked, Callable, EffectOk
<1>4. ASSUME NEW class \in Submitted, ExecuteDenied(s, c, class) PROVE EffectOk(e)'
  BY <1>4, InvokedEffect, BestEffortEffect DEF ExecuteDenied, Executable, Callable, EffectOk
<1>5. ASSUME NEW class \in Submitted, NEW control \in Controls,
             ExecuteOnClosed(s, c, class, control) \/ Admit(s, c, class, control)
      PROVE  EffectOk(e)'
  BY <1>5, InvokedEffect DEF ExecuteOnClosed, Admit, Executable, Callable, EffectOk
<1>6. CASE PreAudit(s, c)
  BY <1>6, GotoEffect DEF PreAudit, At, TypeOK, EffectOk
<1>10. CASE PreAuditFails(s, c) \/ FetchFails(s, c)
  BY <1>10, GotoEffect DEF PreAuditFails, FetchFails, At, EffectOk
<1>7. CASE CursorFails(s, c)
  BY <1>7, GotoEffect DEF CursorFails, EffectOk, At
<1>8. CASE ReportSuccess(s, c)
  BY <1>8, GotoEffect, BestEffortEffect DEF ReportSuccess, EffectOk, At
<1>9. CASE ReportFailure(s, c)
  BY <1>9, GotoEffect, BestEffortEffect DEF ReportFailure, EffectOk, At
<1> QED
  BY <1>1, <1>2, <1>3, <1>4, <1>5, <1>6, <1>7, <1>8, <1>9, <1>10, EffectOfDriver
  DEF FetchCall, ExecuteCall

LEMMA EffectStep ==
    ASSUME Inv, [Next]_vars
    PROVE  EffectInv'
<1> TypeOK /\ OwnerInv /\ AuditInv
  BY DEF Inv
<1> SUFFICES ASSUME NEW e \in Calls PROVE EffectOk(e)'
  BY DEF EffectInv
<1> EffectOk(e)
  BY DEF Inv, EffectInv
<1>1. ASSUME NEW s \in Sessions, Open(s) PROVE EffectOk(e)'
  <2>1. call[e].step # "idle" => conn'[call[e].owner] = conn[call[e].owner]
    BY <1>1, OpenSession DEF Open, OpenWithoutToolId, OpenRefused, Connect, ProbeFails,
       AttestationMismatch, AttestationMatch, CloseFailedConnection, OwnerInv, TypeOK
  <2> QED BY <1>1, <2>1, OpenFrame, WritableFrame DEF EffectOk
<1>2. ASSUME NEW s \in Sessions, Close(s) PROVE EffectOk(e)'
  BY <1>2, WritableFrame DEF Close, EffectOk
<1>6. ASSUME NEW s \in Sessions, CloseConnection(s) PROVE EffectOk(e)'
  <2>1. UNCHANGED <<call, delivered, committed, discarded, audit>>
    BY <1>6 DEF CloseConnection
  <2>2. \A t \in Sessions :
          /\ txn'[t] \subseteq txn[t]
          /\ \/ txn'[t] = txn[t] /\ (conn[t] = "closed" => conn'[t] = "closed")
             \/ conn'[t] = "closed"
    BY <1>6 DEF CloseConnection, TypeOK
  <2> QED BY <1>6, <2>1, <2>2, WritableFrame, OwnerIsSession DEF EffectOk
<1>3. ASSUME NEW s \in Sessions, Crash(s) PROVE EffectOk(e)'
  <2>1. call'[e].step = "commit" => call[e].owner # s
    BY <1>3, CrashEffect, StepKinds
  <2>2. \A t \in Sessions :
          txn'[t] \subseteq txn[t] /\ (t # s => txn'[t] = txn[t] /\ conn'[t] = conn[t])
    BY <1>3 DEF Crash, TypeOK
  <2>3. UNCHANGED <<delivered, committed, discarded, audit>>
    BY <1>3 DEF Crash
  <2>4. \/ call'[e].step = "crashed" /\ call[e].step \notin {"idle", "blocked"}
        \/ call'[e].step = call[e].step
    BY <1>3, CrashEffect, StepKinds
  <2> QED BY <1>3, <2>1, <2>2, <2>3, <2>4, WritableFrame, CrashEffect, OwnerIsSession
          DEF EffectOk
<1>4. ASSUME NEW s \in Sessions, NEW c \in Calls, FetchCall(s, c) \/ ExecuteCall(s, c)
      PROVE  EffectOk(e)'
  BY <1>4, EffectOfCall
<1>5. CASE UNCHANGED vars
  BY <1>5 DEF vars, EffectOk
<1> QED BY <1>1, <1>2, <1>3, <1>4, <1>5, <1>6 DEF Next

-----------------------------------------------------------------------------
(* The inductive invariant and the safety properties *)

LEMMA InitInv == Init => Inv
<1> SUFFICES ASSUME Init PROVE Inv
  OBVIOUS
<1>1. TypeOK
  BY Enumerated DEF Init, TypeOK, NotOpened, SessionRecords, CallRecords
<1>2. SessionInv
  BY DEF Init, SessionInv, SessionOk, NotOpened, Connected
<1>3. OwnerInv /\ AuditInv /\ EffectInv
  BY StepKinds DEF Init, OwnerInv, AuditInv, AuditOk, EffectInv, EffectOk
<1> QED BY <1>1, <1>2, <1>3 DEF Inv

LEMMA InvStep == Inv /\ [Next]_vars => Inv'
BY TypeStep, SessionStep, OwnerStep, AuditStep, EffectStep DEF Inv

\* The inductive invariant: what a session's phase and a call's progress say
\* about its target, its audit trail and its effects.
THEOREM GuardInvariant == Spec => []Inv
BY InitInv, InvStep, PTL DEF Spec

\* The database of an admitted write session is no production database.
LEMMA WriteTargetIsTest ==
    ASSUME NEW p, NEW d \in Databases, MayConnect(targets, p, TRUE), Attests(targets, p, d)
    PROVE  ~ProductionDb(targets, d)
BY DEF MayConnect, WriteProfile, TargetIsKnown, RegistryIsValid, SameTarget, Attests,
       ProductionDb

\* Hazardous SQL never reaches a driver on a production database, for every
\* registry content and every database the connection strings may lead to.
THEOREM NoProductionWrite == Spec => []ProductionNeverWritten
<1>1. Inv => ProductionNeverWritten
  <2> SUFFICES ASSUME Inv, NEW c \in delivered, call[c].class \in Hazardous
               PROVE  ~ProductionDb(targets, session[call[c].owner].db)
    BY DEF ProductionNeverWritten
  <2> DEFINE s == call[c].owner
  <2>1. c \in Calls /\ call[c].step # "idle" /\ session[s].writable = TRUE
    <3>1. c \in Calls /\ EffectOk(c)
      BY DEF Inv, TypeOK, EffectInv
    <3>2. call[c].step # "idle" /\ session[s].writable
      BY <3>1 DEF EffectOk
    <3>3. s \in Sessions
      BY <3>1, <3>2, OwnerIsSession DEF Inv
    <3> QED BY <3>1, <3>2, <3>3 DEF Inv, TypeOK, SessionRecords
  <2>2. /\ s \in Sessions /\ session[s].phase \in {"open", "closed", "crashed"}
        /\ Attests(targets, session[s].profile, session[s].db)
    BY <2>1 DEF Inv, OwnerInv
  <2>3. session[s].db \in Databases /\ MayConnect(targets, session[s].profile, TRUE)
    BY <2>1, <2>2 DEF Inv, SessionInv, SessionOk, Connected
  <2> QED BY <2>2, <2>3, WriteTargetIsTest
<1> QED BY <1>1, GuardInvariant, PTL

\* Every statement goes to the database its session's profile is registered for.
THEOREM SqlOnlyToAttested == Spec => []OnlyAttestedTargetsSeeSql
<1>1. Inv => OnlyAttestedTargetsSeeSql
  <2> SUFFICES ASSUME Inv, NEW c \in delivered
               PROVE  LET s == call[c].owner IN
                      /\ s \notin openAudit
                      /\ session[s].profile \in Profiles
                      /\ EngineOf[session[s].db] = Engine[session[s].profile]
                      /\ IdentityOf[session[s].db] = targets[session[s].profile]
    BY DEF OnlyAttestedTargetsSeeSql
  <2>1. c \in Calls /\ call[c].step # "idle"
    BY DEF Inv, TypeOK, EffectInv, EffectOk
  <2> QED
    BY <2>1 DEF Inv, OwnerInv, SessionInv, SessionOk, Connected, MayConnect, Attests
<1> QED BY <1>1, GuardInvariant, PTL

\* A refused opening, or a dead process, leaves no open connection.
THEOREM NoLeakOnRefusal == Spec => []RefusedOpeningKeepsNoConnection
<1>1. Inv => RefusedOpeningKeepsNoConnection
  BY DEF Inv, SessionInv, SessionOk, RefusedOpeningKeepsNoConnection
<1> QED BY <1>1, GuardInvariant, PTL

\* No effect, pending or durable, without an accepted "allowed" event.
THEOREM EffectsAreRecorded == Spec => []NoEffectWithoutRecord
<1>1. Inv => NoEffectWithoutRecord
  BY DEF Inv, EffectInv, EffectOk, NoEffectWithoutRecord
<1> QED BY <1>1, GuardInvariant, PTL

\* Success is reported only of durable work.
THEOREM ReportedSuccessIsDurable == Spec => []SuccessIsDurable
<1>1. Inv => SuccessIsDurable
  BY DEF Inv, AuditInv, AuditOk, EffectInv, EffectOk, SuccessIsDurable
<1> QED BY <1>1, GuardInvariant, PTL

\* A refused call never reaches a driver.
THEOREM RefusalIsFinal == Spec => []RefusedCallHasNoTrace
<1>1. Inv => RefusedCallHasNoTrace
  BY DEF Inv, AuditInv, AuditOk, EffectInv, EffectOk, RefusedCallHasNoTrace
<1> QED BY <1>1, GuardInvariant, PTL

-----------------------------------------------------------------------------
(* What a step may do to a database *)

\* The calls under way in a session: only a call's own step, the end of its
\* process and an open session change them.
LEMMA RunningFrame ==
    ASSUME Inv, NEW s \in Sessions, NEW c \in Calls, FetchCall(s, c) \/ ExecuteCall(s, c)
    PROVE  /\ \A t \in Sessions : t # s => RunningIn(t)' = RunningIn(t)
           /\ session[s].phase # "open" => RunningIn(s)' \subseteq RunningIn(s)
           /\ call'[c].step \in Running /\ call[c].step \in Running =>
                RunningIn(s)' = RunningIn(s)
BY CallSteps, StepKinds DEF Inv, RunningIn

LEMMA RunningCrash ==
    ASSUME TypeOK, NEW s \in Sessions, Crash(s), NEW t \in Sessions
    PROVE  /\ RunningIn(t)' \subseteq RunningIn(t)
           /\ t # s => RunningIn(t)' = RunningIn(t)
<1>1. "crashed" \notin Running
  BY StepKinds
<1>2. \A c \in Calls : /\ call'[c].owner = call[c].owner
                       /\ call'[c].step \in Running => call[c].step \in Running
                       /\ call[c].owner # s => call'[c].step = call[c].step
  BY <1>1 DEF TypeOK, Crash, CallRecords
<1> QED BY <1>2 DEF RunningIn

\* A step that hands SQL to a driver or makes work durable is a step of a call
\* that is under way, over a connection that is not closed, and touches only
\* that session's work.
LEMMA EffectfulStep ==
    ASSUME Inv, NEW s \in Sessions, NEW e \in Calls, FetchCall(s, e) \/ ExecuteCall(s, e),
           NEW c \in Calls, c \in (committed' \ committed) \union (delivered' \ delivered)
    PROVE  /\ e \in RunningIn(s) /\ conn[s] # "closed"
           /\ c = e \/ c \in txn[s]
           /\ call'[c].owner = s
<1> TypeOK
  BY DEF Inv
<1>1. call[e].owner = s /\ call[e].step \in Running /\ (c = e \/ c \in txn[s])
  BY WorkFrame
<1>2. Live(s) \/ c \in txn[s]
  BY WorkFrame
<1>3. conn[s] # "closed"
  BY <1>2 DEF Live, Inv, SessionInv, SessionOk
<1>4. call'[c].owner = s
  BY <1>1, CallSteps DEF Inv, EffectInv, EffectOk
<1> QED BY <1>1, <1>3, <1>4 DEF RunningIn

\* After close() no call starts, and what was admitted before it reaches the
\* driver only while the connection is there.
THEOREM EndedSessionsStayQuiet == Spec => EndedSessionIsQuiet
<1>1. Inv /\ [Next]_vars => [QuietSteps]_vars
  <2> SUFFICES ASSUME Inv, Next, NEW t \in Sessions,
                      session[t].phase \in {"closed", "crashed"}
               PROVE  /\ RunningIn(t)' \subseteq RunningIn(t)
                      /\ \A c \in (committed' \ committed) \union (delivered' \ delivered) :
                           call'[c].owner = t => RunningIn(t) # {} /\ conn[t] # "closed"
    BY DEF QuietSteps
  <2> TypeOK /\ TypeOK'
    BY TypeStep DEF Inv
  <2>1. ASSUME NEW s \in Sessions, Open(s) \/ Close(s) \/ CloseConnection(s)
        PROVE  UNCHANGED <<call, committed, delivered>>
    BY <2>1, OpenFrame DEF Close, CloseConnection
  <2>2. ASSUME NEW s \in Sessions, Open(s) \/ Close(s) \/ CloseConnection(s)
        PROVE  RunningIn(t)' = RunningIn(t)
    BY <2>1, <2>2 DEF RunningIn
  <2>3. ASSUME NEW s \in Sessions, Crash(s)
        PROVE  RunningIn(t)' \subseteq RunningIn(t) /\ UNCHANGED <<committed, delivered>>
    BY <2>3, RunningCrash DEF Crash
  <2>4. ASSUME NEW s \in Sessions, NEW e \in Calls, FetchCall(s, e) \/ ExecuteCall(s, e)
        PROVE  RunningIn(t)' \subseteq RunningIn(t)
    BY <2>4, RunningFrame
  <2>5. ASSUME NEW s \in Sessions, NEW e \in Calls, FetchCall(s, e) \/ ExecuteCall(s, e),
               NEW c \in (committed' \ committed) \union (delivered' \ delivered),
               call'[c].owner = t
        PROVE  RunningIn(t) # {} /\ conn[t] # "closed"
    <3>1. c \in Calls
      BY DEF TypeOK
    <3>2. e \in RunningIn(s) /\ conn[s] # "closed" /\ s = t
      BY <2>5, <3>1, EffectfulStep
    <3> QED BY <3>2
  <2> QED BY <2>1, <2>2, <2>3, <2>4, <2>5 DEF Next
<1> QED BY <1>1, GuardInvariant, PTL DEF Spec, EndedSessionIsQuiet

-----------------------------------------------------------------------------
(* The guard implements WriteAuthority *)

\* The refinement mapping names exactly one holder per session.
LEMMA HolderUpdate ==
    ASSUME NEW s \in Sessions,
           \A t \in Sessions : t # s => /\ session'[t] = session[t]
                                        /\ RunningIn(t)' = RunningIn(t)
    PROVE  Holder' = [Holder EXCEPT ![s] = HolderOf(session'[s], RunningIn(s)')]
BY DEF Holder, HolderOf

\* An opening, a close or a crash acquires authority over a database that is not
\* production, releases it, or changes nothing the abstraction sees.
LEMMA HolderSteps ==
    ASSUME Inv, NEW s \in Sessions, Open(s) \/ Close(s) \/ CloseConnection(s) \/ Crash(s),
           NEW R, NEW Q
    PROVE  \/ CloseConnection(s)
           \/ HolderOf(session'[s], R) = HolderOf(session[s], Q)
           \/ HolderOf(session'[s], R) = "spent"
           \/ /\ HolderOf(session[s], Q) = "none"
              /\ HolderOf(session'[s], R) \in Databases \ Production
<1> TypeOK /\ SessionOk(s)
  BY DEF Inv, SessionInv
<1>1. CASE Close(s) \/ Crash(s)
  BY <1>1, EnterEffect DEF Close, Crash, HolderOf
<1>2. CASE OpenWithoutToolId(s)
  BY <1>2, RefuseEffect DEF OpenWithoutToolId, HolderOf
<1>3. CASE OpenRefused(s)
  BY <1>3, RefuseEffect DEF OpenRefused, HolderOf
<1>4. ASSUME NEW p \in Profiles, NEW w \in BOOLEAN, NEW d \in Databases, Connect(s, p, w, d)
      PROVE  HolderOf(session'[s], R) = HolderOf(session[s], Q)
  BY <1>4 DEF Connect, HolderOf, TypeOK
<1>5. CASE ProbeFails(s) \/ AttestationMismatch(s)
  BY <1>5, RefuseEffect DEF ProbeFails, AttestationMismatch, CloseFailedConnection, HolderOf
<1>6. CASE AttestationMatch(s)
  <2>1. /\ session[s].phase = "probing" /\ session'[s].phase = "open"
        /\ session'[s].writable = session[s].writable
        /\ session'[s].db = session[s].db
        /\ Attests(targets, session[s].profile, session[s].db)
    BY <1>6, EnterEffect DEF AttestationMatch
  <2>2. /\ session[s].db \in Databases /\ session[s].writable \in BOOLEAN
        /\ MayConnect(targets, session[s].profile, session[s].writable)
    BY <2>1 DEF SessionOk, Connected, TypeOK, SessionRecords
  <2>3. session[s].writable = TRUE => session[s].db \notin Production
    BY <2>1, <2>2, WriteTargetIsTest DEF Production
  <2> QED BY <2>1, <2>2, <2>3 DEF HolderOf
<1> QED BY <1>1, <1>2, <1>3, <1>4, <1>5, <1>6 DEF Open

\* Ending authority is a step of the abstraction.
LEMMA ReleaseStep ==
    ASSUME NEW s \in Sessions, UNCHANGED <<Production, LicenseOf, committed>>,
           Holder' = [Holder EXCEPT ![s] = "spent"]
    PROVE  Authority!Next \/ UNCHANGED Authority!vars
<1>1. CASE Holder[s] = "spent"
  <2>1. Holder' = Holder
    BY <1>1 DEF Holder
  <2> QED BY <2>1 DEF Authority!vars
<1>2. CASE Holder[s] # "spent"
  BY <1>2 DEF Authority!Next, Authority!Release
<1> QED BY <1>1, <1>2

LEMMA SessionStepsRefine ==
    ASSUME Inv, NEW s \in Sessions, Open(s) \/ Close(s) \/ CloseConnection(s) \/ Crash(s)
    PROVE  Authority!Next \/ UNCHANGED Authority!vars
<1> TypeOK
  BY DEF Inv
<1>1. /\ targets' = targets /\ committed' = committed /\ audit' = audit
      /\ \A t \in Sessions : t # s => session'[t] = session[t]
      /\ \A c \in Calls : call'[c].owner = call[c].owner
  BY OpenFrame, OpenSession, EnterEffect, CrashEffect DEF Close, CloseConnection, Crash
<1>2. Production' = Production
  BY <1>1 DEF Production
<1>3. LicenseOf' = LicenseOf
  BY <1>1 DEF LicenseOf
<1>4. Holder' = [Holder EXCEPT ![s] = HolderOf(session'[s], RunningIn(s)')]
  <2>1. call' = call \/ Crash(s)
    BY OpenFrame DEF Close, CloseConnection
  <2>2. \A t \in Sessions : t # s => RunningIn(t)' = RunningIn(t)
    BY <2>1, RunningCrash DEF RunningIn
  <2> QED BY <1>1, <2>2, HolderUpdate
<1>5. Holder \in [Sessions -> UNION {Databases, {"none", "spent", NoDatabase}}]
      /\ Holder[s] = HolderOf(session[s], RunningIn(s))
  BY DEF Holder, HolderOf, TypeOK, SessionRecords
<1>6. CASE HolderOf(session'[s], RunningIn(s)') = HolderOf(session[s], RunningIn(s))
  <2>1. Holder' = Holder
    BY <1>4, <1>5, <1>6
  <2> QED BY <1>1, <1>2, <1>3, <2>1 DEF Authority!vars
<1>7. CASE HolderOf(session'[s], RunningIn(s)') = "spent"
  BY <1>1, <1>2, <1>3, <1>4, <1>7, ReleaseStep
<1>8. CASE /\ HolderOf(session[s], RunningIn(s)) = "none"
           /\ HolderOf(session'[s], RunningIn(s)') \in Databases \ Production
  <2>1. Authority!Acquire(s, HolderOf(session'[s], RunningIn(s)'))
    BY <1>1, <1>2, <1>3, <1>4, <1>5, <1>8 DEF Authority!Acquire
  <2> QED BY <1>8, <2>1 DEF Authority!Next
<1>9. CASE CloseConnection(s)
  <2>1. session' = session /\ RunningIn(s)' = RunningIn(s)
    BY <1>9 DEF CloseConnection, RunningIn
  <2> QED BY <1>6, <2>1
<1> QED BY <1>6, <1>7, <1>8, <1>9, HolderSteps

LEMMA AllowedForGood ==
    ASSUME TypeOK, NEW s \in Sessions, NEW c \in Calls, FetchCall(s, c) \/ ExecuteCall(s, c)
    PROVE  audit[c] \subseteq audit'[c]
BY BestEffortEffect
DEF TypeOK, FetchCall, Fetch, FetchOnClosed, FetchBlocked, AdmitFetch, FetchFails,
    ExecuteCall, ExecuteDenied, ExecuteOnClosed, Admit, PreAuditFails, PreAudit, CursorFails,
    StatementRuns, StatementRaises, Rollback, Commit, CommitFails, ReportSuccess,
    ReportFailure, BestEffort

\* Only PreAudit, a step of a call past _ensure_open, writes the event that
\* licenses a call.
LEMMA NewlyAllowed ==
    ASSUME TypeOK, NEW s \in Sessions, NEW c \in Calls, FetchCall(s, c) \/ ExecuteCall(s, c),
           "allowed" \in audit'[c], "allowed" \notin audit[c]
    PROVE  At(s, c, "admitted") /\ call'[c].step = "driver"
<1>1. ASSUME NEW class \in Submitted, FetchBlocked(s, c, class) \/ ExecuteDenied(s, c, class)
      PROVE  FALSE
  BY <1>1, BestEffortEffect DEF FetchBlocked, ExecuteDenied
<1>2. CASE ReportSuccess(s, c)
  BY <1>2, BestEffortEffect DEF ReportSuccess
<1>3. CASE ReportFailure(s, c)
  BY <1>3, BestEffortEffect DEF ReportFailure
<1>4. CASE PreAudit(s, c)
  BY <1>4, GotoEffect DEF PreAudit
<1> QED
  BY <1>1, <1>2, <1>3, <1>4
  DEF FetchCall, Fetch, FetchOnClosed, AdmitFetch, FetchFails, ExecuteCall, ExecuteOnClosed,
      Admit, PreAuditFails, CursorFails, StatementRuns, StatementRaises, Rollback, Commit,
      CommitFails

\* A running call of a writable session holds the session's authority.
LEMMA RunningHolds ==
    ASSUME Inv, NEW s \in Sessions, NEW c \in RunningIn(s), session[s].writable
    PROVE  Authority!Holds(s)
<1>1. session[s].phase \in {"open", "closed"} /\ session[s].db \in Databases
  BY DEF RunningIn, Inv, OwnerInv, SessionInv, SessionOk, Connected, Running, InDriver
<1> QED BY <1>1 DEF Authority!Holds, Holder, HolderOf

\* A step of a call leaves authority alone, or ends it with the last call of a
\* session that was closed under it.
LEMMA CallHolder ==
    ASSUME Inv, NEW s \in Sessions, NEW c \in Calls, FetchCall(s, c) \/ ExecuteCall(s, c)
    PROVE  \/ Holder' = Holder
           \/ /\ Holder' = [Holder EXCEPT ![s] = "spent"]
              /\ call'[c].step \notin Running \/ call[c].step \notin Running
<1> TypeOK
  BY DEF Inv
<1>1. session' = session
  BY CallFrame
<1>2. Holder' = [Holder EXCEPT ![s] = HolderOf(session[s], RunningIn(s)')]
  BY <1>1, RunningFrame, HolderUpdate
<1>3. Holder[s] = HolderOf(session[s], RunningIn(s))
  BY DEF Holder
<1>4. CASE HolderOf(session[s], RunningIn(s)') = HolderOf(session[s], RunningIn(s))
  BY <1>2, <1>3, <1>4 DEF Holder
<1>5. CASE HolderOf(session[s], RunningIn(s)') # HolderOf(session[s], RunningIn(s))
  <2>1. session[s].phase = "closed"
    BY <1>5 DEF HolderOf
  <2>2. RunningIn(s)' = {} /\ RunningIn(s) # {}
    BY <1>5, <2>1, RunningFrame DEF HolderOf
  <2>3. HolderOf(session[s], RunningIn(s)') = "spent"
    BY <2>1, <2>2 DEF HolderOf
  <2> QED BY <1>2, <2>2, <2>3, RunningFrame
<1> QED BY <1>4, <1>5

\* A call licenses itself, applies licensed work, gives authority up, or changes
\* nothing abstract.
LEMMA CallStepsRefine ==
    ASSUME Inv, NEW s \in Sessions, NEW c \in Calls, FetchCall(s, c) \/ ExecuteCall(s, c)
    PROVE  Authority!Next \/ UNCHANGED Authority!vars
<1> TypeOK /\ AuditOk(c)
  BY DEF Inv, AuditInv
<1>1. Production' = Production /\ session' = session
  BY CallFrame DEF Production
<1>2. /\ \A e \in Calls : e # c => call'[e] = call[e] /\ audit'[e] = audit[e]
      /\ call'[c].owner = s
      /\ call[c].step # "idle" => call[c].owner = s
  BY CallSteps, AuditOfCall, StepKinds DEF Inv
<1>4. CASE committed' # committed
  <2>1. /\ audit' = audit /\ call[c].step \in Running /\ call[c].owner = s
        /\ committed \subseteq committed'
        /\ committed' \subseteq committed \union txn[s] \union {c}
    BY <1>4, WorkFrame
  <2>2. call[c].step \in InDriver /\ call'[c].step \in Running
    <3>1. \/ StatementRuns(s, c) \/ StatementRaises(s, c) \/ Rollback(s, c)
          \/ Commit(s, c) \/ CommitFails(s, c)
      BY <1>4
      DEF FetchCall, Fetch, FetchOnClosed, FetchBlocked, AdmitFetch, FetchFails, ExecuteCall,
          ExecuteDenied, ExecuteOnClosed, Admit, PreAuditFails, PreAudit, CursorFails,
          ReportSuccess, ReportFailure
    <3> QED
      BY <3>1, GotoEffect, StepKinds
      DEF StatementRuns, StatementRaises, Rollback, Commit, CommitFails, At
  <2>3. Holder' = Holder
    BY <2>1, <2>2, CallHolder
  <2>4. LicenseOf' = LicenseOf
    BY <1>2, <2>1, StepKinds DEF LicenseOf
  <2>5. Authority!Holds(s)
    BY <2>1, <2>2, RunningHolds DEF AuditOk, RunningIn
  <2>6. \A e \in committed' \ committed : e \in Calls /\ LicenseOf[e] = s
    BY <2>1, <2>2 DEF Inv, EffectInv, EffectOk, LicenseOf, TypeOK, AuditOk
  <2>7. Authority!Apply(s, committed' \ committed)
    BY <1>1, <2>1, <2>3, <2>4, <2>5, <2>6 DEF Authority!Apply
  <2> QED BY <2>6, <2>7 DEF Authority!Next
<1>5. CASE committed' = committed /\ LicenseOf' = LicenseOf
  <2>1. CASE Holder' = Holder
    BY <1>1, <1>5, <2>1 DEF Authority!vars
  <2>2. CASE Holder' = [Holder EXCEPT ![s] = "spent"]
    BY <1>1, <1>5, <2>2, ReleaseStep
  <2> QED BY <2>1, <2>2, CallHolder
<1>6. CASE committed' = committed /\ LicenseOf' # LicenseOf
  <2>1. LicenseOf'[c] # LicenseOf[c] /\ LicenseOf' = [LicenseOf EXCEPT ![c] = LicenseOf'[c]]
    BY <1>2, <1>6 DEF LicenseOf
  <2>2. "allowed" \in audit[c] => call[c].step # "idle"
    BY DEF AuditOk
  <2>3. "allowed" \in audit[c] => "allowed" \in audit'[c]
    BY AllowedForGood
  <2>4. "allowed" \notin audit[c] /\ "allowed" \in audit'[c]
    BY <1>2, <2>1, <2>2, <2>3 DEF LicenseOf
  <2>5. At(s, c, "admitted") /\ call'[c].step = "driver"
    BY <2>4, NewlyAllowed
  <2>6. c \in RunningIn(s) /\ session[s].writable /\ call'[c].step \in Running
    BY <2>5, StepKinds DEF At, RunningIn, AuditOk
  <2>7. Authority!Holds(s)
    BY <2>6, RunningHolds
  <2>8. LicenseOf[c] = NoSession /\ LicenseOf'[c] = s
    BY <1>2, <2>4 DEF LicenseOf
  <2>9. Holder' = Holder
    BY <2>6, CallHolder DEF RunningIn
  <2>10. Authority!License(s, c)
    BY <1>1, <1>6, <2>1, <2>7, <2>8, <2>9 DEF Authority!License
  <2> QED BY <2>10 DEF Authority!Next
<1> QED BY <1>4, <1>5, <1>6

\* The guard, whatever its registry and however its sessions interleave, crash and
\* fail, implements the authority it promises.
THEOREM GuardImplementsAuthority == Spec => ImplementsWriteAuthority
<1>1. Init => Authority!Init
  BY NoneAssumption
  DEF Init, Authority!Init, Production, Holder, HolderOf, LicenseOf, NotOpened
<1>2. Inv /\ [Next]_vars => [Authority!Next]_(Authority!vars)
  <2> SUFFICES ASSUME Inv, [Next]_vars PROVE Authority!Next \/ UNCHANGED Authority!vars
    OBVIOUS
  <2>1. CASE UNCHANGED vars
    BY <2>1 DEF vars, Authority!vars, Production, Holder, HolderOf, RunningIn, LicenseOf
  <2> QED BY <2>1, SessionStepsRefine, CallStepsRefine DEF Next
<1> QED
  BY <1>1, <1>2, GuardInvariant, PTL DEF Spec, ImplementsWriteAuthority, Authority!Spec
=============================================================================
