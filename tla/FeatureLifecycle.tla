-------------------------- MODULE FeatureLifecycle --------------------------
(***************************************************************************)
(* One feature on its way through the commands migration-spec, -design,    *)
(* -implement, -review and -verify (.opencode/commands/), with the four    *)
(* queue rows that carry it (Q-007 .. Q-010), its STOPs on unknown facts   *)
(* (docs/11-stop-condition-contract.md), the judge self-check              *)
(* (docs/03-evidence-and-verification.md) and what the validator demands   *)
(* of its files (scripts/validate_scaffold.py).                            *)
(*                                                                         *)
(* Sessions follow each other; each persists artifact, open questions,     *)
(* card and row in this order and may end after any of them.  A row is     *)
(* written by one step: its transaction is the subject of DurableState.    *)
(* A document is its revision, the revisions it is about, and the unknown  *)
(* facts it declares.  A completed feature is not reopened.                *)
(*                                                                         *)
(* NewNeeds, ControlRan and CardBeforeQuestions are faulty variants that   *)
(* no definition uses.                                                     *)
(***************************************************************************)
EXTENDS Naturals, FiniteSets, CompositeJudge

CONSTANTS
    Questions,          \* unknown facts that may turn up
    Configs,            \* effective judge configurations
    ExpectedSources,    \* evidence sources the scenario requires
    Submissions,        \* what they may submit, sets of results
    MaxRevisions        \* bound: revisions of contract, design and code together

ASSUME FeatureAssumption ==
    /\ MaxRevisions \in Nat \ {0} /\ "G3.5" \notin Questions
    /\ Submissions \subseteq SUBSET [source : ExpectedSources, verdict : SourceVerdicts]

VARIABLES
    card,       \* feature-card.md: [stage, blocked, refs]
    docs,       \* the other documents, and the code
    questions,  \* status of each question in docs/05-open-questions.md
    rows,       \* the feature's queue rows: [status, blocker]
    config,     \* the judge configuration in effect
    controlled, \* configurations with a passing negative control on record
    session,    \* the running session
    met         \* history: the unknown facts met so far that a row depends on

featureVars == <<card, docs, questions, rows, config, controlled, session, met>>

-----------------------------------------------------------------------------
(* Stages, rows and documents *)

Stages == {"discovered", "specified", "designed", "implementing",
           "reviewing", "verifying", "done"}

\* documents required by a stage, besides card and legacy map; cumulative
RequiredFiles(stage) ==
    CASE stage = "discovered" -> {}
      [] stage = "specified"  -> {"contract"}
      [] stage \in {"designed", "implementing"} -> {"contract", "design"}
      [] stage = "reviewing"  -> {"contract", "design", "review"}
      [] OTHER                -> {"contract", "design", "review", "report"}

Commands == {"spec", "design", "implement", "review", "verify"}

FeatureRows == 1 .. 4       \* each depends on the one before

RowOf == [spec |-> 1, design |-> 2, implement |-> 3, review |-> 4, verify |-> 4]

DocOf == [spec |-> "contract", design |-> "design", implement |-> "code",
          review |-> "review", verify |-> "report"]

Absent == [rev |-> 0, needs |-> {}]

Exists(d) == docs[d].rev > 0

Known(q) == questions[q] = "CONFIRMED"

\* no unknown fact is left that blocks what the document is for
Whole(d) == Exists(d) /\ docs[d].needs = {}

\* the document is about the revisions on disk
Current(d) ==
    /\ d \in {"design", "report"} => docs[d].contract = docs.contract.rev
    /\ d \in {"code", "report"} => docs[d].design = docs.design.rev
    /\ d \in {"review", "report"} => docs[d].code = docs.code.rev

\* gate SPEC_READY
G2 == Whole("contract") /\ \A q \in docs.contract.later : questions[q] # "ABSENT"

\* gate DESIGN_READY, without the authorization
Designed ==
    /\ G2 /\ Whole("design") /\ Current("design")
    /\ \A q \in docs.contract.later : Known(q)

G3 == Designed /\ docs.design.authorized

\* G3 fails for want of the user's authorization
Unauthorized == Designed /\ ~docs.design.authorized

NoFindings == Exists("review") /\ docs.review.verdict # "FAIL"

ReviewedPass == Exists("review") /\ docs.review.verdict = "PASS"

VerifiedPass == Exists("report") /\ docs.report.result = "PASS" /\ Current("report")

\* the completion condition of a row
Complete(r) ==
    CASE r = 1 -> G2
      [] r = 2 -> G3
      [] r = 3 -> Whole("code") /\ Current("code")
      [] r = 4 -> ReviewedPass /\ VerifiedPass /\ card.stage = "done"

\* A row gets a status; the rows after it wait for it, or stop waiting.
SetRow(r, status, blocker) ==
    rows' = [x \in FeatureRows |->
        IF x = r THEN [status |-> status, blocker |-> blocker]
        ELSE IF x > r /\ status # "DONE" THEN [rows[x] EXCEPT !.status = "BLOCKED"]
        ELSE IF x = r + 1 /\ rows[x].blocker = {} THEN [rows[x] EXCEPT !.status = "TODO"]
        ELSE rows[x]]

-----------------------------------------------------------------------------
(* A session *)

NoSession == [pc |-> "none"]

Ready(c) ==
    CASE c = "spec"      -> TRUE
      [] c = "design"    -> G2
      [] c = "implement" -> G3
      [] c = "review"    -> Whole("code")
      [] c = "verify"    -> NoFindings

\* the preconditions hold, and the row is claimed before the first change
Begin(c) ==
    /\ session = NoSession
    /\ ~card.blocked /\ Ready(c)
    /\ rows[RowOf[c]].status \in {"TODO", "IN_PROGRESS"}
    /\ SetRow(RowOf[c], "IN_PROGRESS", {})
    /\ session' = [pc |-> "working", cmd |-> c, failed |-> {}]
    /\ UNCHANGED <<card, docs, questions, config, controlled, met>>

Revisions == docs.contract.rev + docs.design.rev + docs.code.rev

NewNeeds(d, found) == {q \in found : ~Known(q)}

\* What a document must declare unknown: what is new, and what it declared,
\* which nothing but an answer removes.
Needs(d, found) == {q \in docs[d].needs \union found : ~Known(q)}

\* The session writes its document.  found: unknown facts it meets that this
\* document depends on; later: that the next gate depends on.
Write(doc, found, later) ==
    LET c == session.cmd IN
    /\ session.pc = "working" /\ card.stage # "done"
    /\ docs' = [docs EXCEPT ![DocOf[c]] = doc]
    /\ session' = [pc |-> "written", cmd |-> c, open |-> doc.needs, later |-> later]
    /\ met' = [r \in FeatureRows |->
                 met[r] \union (IF r = RowOf[c] THEN found ELSE {})
                        \union (IF r = RowOf[c] + 1 THEN later ELSE {})]
    /\ UNCHANGED <<card, questions, rows, config, controlled>>

WriteContract(found, later) ==
    /\ session.pc = "working" /\ session.cmd = "spec"
    /\ Revisions < MaxRevisions
    /\ LET tracked == {q \in docs.contract.later \union later : ~Known(q)} IN
       Write([rev |-> docs.contract.rev + 1, needs |-> Needs("contract", found),
              later |-> tracked], found, tracked)

\* what the contract leaves open blocks the implementation; a new design
\* starts without the authorization
WriteDesign(found) ==
    /\ session.pc = "working" /\ session.cmd = "design"
    /\ Revisions < MaxRevisions
    /\ Write([rev |-> docs.design.rev + 1,
              needs |-> Needs("design", found \union docs.contract.later),
              contract |-> docs.contract.rev, authorized |-> FALSE], found, {})

WriteCode(found) ==
    /\ session.pc = "working" /\ session.cmd = "implement"
    /\ Revisions < MaxRevisions
    /\ Write([rev |-> docs.code.rev + 1, needs |-> Needs("code", found),
              design |-> docs.design.rev], found, {})

WriteReview(findings, found) ==
    /\ session.pc = "working" /\ session.cmd = "review"
    /\ LET needs == Needs("review", found) IN
       Write([rev |-> 1, needs |-> needs, code |-> docs.code.rev,
              verdict |-> IF needs # {} THEN "BLOCKED" ELSE IF findings THEN "FAIL" ELSE "PASS"],
             found, {})

\* A negative control of the configuration in effect.  It passes when every
\* detector rejects the known-wrong result; only a pass is of use later.
PassControl ==
    /\ session.pc = "working" /\ session.cmd = "verify"
    /\ config \notin controlled
    /\ controlled' = controlled \union {config}
    /\ UNCHANGED <<card, docs, questions, rows, config, session, met>>

FailControl ==
    /\ session.pc = "working" /\ session.cmd = "verify"
    /\ config \notin controlled
    /\ session' = [session EXCEPT !.failed = @ \union {config}]
    /\ UNCHANGED <<card, docs, questions, rows, config, controlled, met>>

ControlRan == config \in controlled \union session.failed

\* a control of this very configuration has passed, now or earlier
SelfChecked == config \in controlled

SelfCheck == IF SelfChecked THEN "PASS"
             ELSE IF config \in session.failed THEN "FAIL" ELSE "BLOCKED"

\* the verdict of an unvalidated judge is BLOCKED, whatever it would say
WriteReport(results, found) ==
    /\ session.pc = "working" /\ session.cmd = "verify"
    /\ LET needs == Needs("report", found) IN
       Write([rev |-> 1, needs |-> needs,
              contract |-> docs.contract.rev, design |-> docs.design.rev,
              code |-> docs.code.rev, config |-> config, selfCheck |-> SelfCheck,
              result |-> IF SelfChecked /\ needs = {}
                         THEN Judge(ExpectedSources, results) ELSE "BLOCKED",
              passing |-> {s \in Reporting(results) :
                             \A r \in results : r.source = s => r.verdict = "PASS"}],
             found, {})

\* a resumed session finds its document written, and goes on from there
Keep ==
    LET d == DocOf[session.cmd] IN
    /\ session.pc = "working" /\ Whole(d) /\ Current(d)
    /\ session' = [pc |-> "written", cmd |-> session.cmd, open |-> {},
                   later |-> IF d = "contract" THEN docs.contract.later ELSE {}]
    /\ UNCHANGED <<card, docs, questions, rows, config, controlled, met>>

CardBeforeQuestions ==
    /\ session.pc = "written"
    /\ session' = [session EXCEPT !.pc = "registered"]
    /\ UNCHANGED <<card, docs, questions, rows, config, controlled, met>>

\* unknown facts get a question, or are those of a question there is
Register ==
    /\ session.pc = "written"
    /\ questions' = [q \in Questions |->
          IF q \in session.open \union session.later /\ questions[q] = "ABSENT"
          THEN "OPEN" ELSE questions[q]]
    /\ session' = [session EXCEPT !.pc = "registered"]
    /\ UNCHANGED <<card, docs, rows, config, controlled, met>>

StageAfter(c) ==
    CASE c = "spec"      -> IF G2 THEN "specified" ELSE card.stage
      [] c = "design"    -> IF G3 THEN "designed" ELSE card.stage
      [] c = "implement" -> "implementing"
      [] c = "review"    -> "reviewing"
      [] c = "verify"    -> IF ReviewedPass /\ VerifiedPass THEN "done" ELSE "verifying"

\* the gate at the end of a command
GateFails(c) == (c = "spec" /\ ~G2) \/ (c = "design" /\ ~G3)

\* a STOP and a failed gate leave the stage and block the feature
UpdateCard ==
    /\ session.pc = "registered"
    /\ card' = [stage   |-> IF session.open # {} THEN card.stage ELSE StageAfter(session.cmd),
                blocked |-> session.open # {} \/ GateFails(session.cmd),
                refs    |-> card.refs \union session.open \union session.later]
    /\ session' = [session EXCEPT !.pc = "carded"]
    /\ UNCHANGED <<docs, questions, rows, config, controlled, met>>

\* the row is blocked by the questions or the missing authorization, DONE when
\* its completion condition holds, and else in progress
UpdateRow ==
    LET r == RowOf[session.cmd] IN
    /\ session.pc = "carded"
    /\ IF session.open # {} THEN SetRow(r, "BLOCKED", session.open)
       ELSE IF Complete(r) THEN SetRow(r, "DONE", {})
       ELSE IF r = 2 /\ Unauthorized THEN SetRow(r, "BLOCKED", {"G3.5"})
       ELSE UNCHANGED rows
    /\ session' = NoSession
    /\ UNCHANGED <<card, docs, questions, config, controlled, met>>

\* the session ends between two steps; the files stay as they are
Die ==
    /\ session # NoSession
    /\ session' = NoSession
    /\ UNCHANGED <<card, docs, questions, rows, config, controlled, met>>

-----------------------------------------------------------------------------
(* Between sessions *)

\* the coordinator finds a blocked feature whose row still runs
FinishStop(r) ==
    LET causes == {q \in card.refs : ~Known(q)}
                    \union (IF r = 2 /\ Unauthorized THEN {"G3.5"} ELSE {}) IN
    /\ session = NoSession
    /\ card.blocked /\ rows[r].status = "IN_PROGRESS"
    /\ causes # {}
    /\ SetRow(r, "BLOCKED", causes)
    /\ UNCHANGED <<card, docs, questions, config, controlled, session, met>>

\* "resolving an OQ does not automatically unblock": a step of its own each,
\* once what failed the gate is there
UnblockCard ==
    /\ session = NoSession
    /\ card.blocked /\ ~Unauthorized /\ \A q \in card.refs : Known(q)
    /\ card' = [card EXCEPT !.blocked = FALSE]
    /\ UNCHANGED <<docs, questions, rows, config, controlled, session, met>>

Cleared(b) == IF b = "G3.5" THEN docs.design.authorized ELSE Known(b)

UnblockRow(r) ==
    /\ session = NoSession
    /\ ~card.blocked
    /\ rows[r].blocker # {} /\ \A b \in rows[r].blocker : Cleared(b)
    /\ rows' = [rows EXCEPT ![r] =
          [status |-> IF r > 1 /\ rows[r - 1].status # "DONE" THEN "BLOCKED" ELSE "TODO",
           blocker |-> {}]]
    /\ UNCHANGED <<card, docs, questions, config, controlled, session, met>>

\* later evidence invalidates a completed row: the last one completed goes first
Reopen(r) ==
    /\ session = NoSession
    /\ card.stage # "done"
    /\ rows[r].status = "DONE" /\ rows[r + 1].status # "DONE"
    /\ SetRow(r, "TODO", {})
    /\ UNCHANGED <<card, docs, questions, config, controlled, session, met>>

\* humans answer questions, authorize designs and change the judge
Resolve(q) ==
    /\ questions[q] = "OPEN"
    /\ questions' = [questions EXCEPT ![q] = "CONFIRMED"]
    /\ UNCHANGED <<card, docs, rows, config, controlled, session, met>>

Authorize ==
    /\ session = NoSession
    /\ Whole("design") /\ ~docs.design.authorized
    /\ docs' = [docs EXCEPT !.design.authorized = TRUE]
    /\ UNCHANGED <<card, questions, rows, config, controlled, session, met>>

ChangeConfig ==
    /\ config' \in Configs \ {config}
    /\ UNCHANGED <<card, docs, questions, rows, controlled, session, met>>

-----------------------------------------------------------------------------
FeatureInit ==
    /\ card = [stage |-> "discovered", blocked |-> FALSE, refs |-> {}]
    /\ docs = [contract |-> [rev |-> 0, needs |-> {}, later |-> {}],
               design |-> [rev |-> 0, needs |-> {}, contract |-> 0, authorized |-> FALSE],
               code |-> Absent, review |-> Absent, report |-> Absent]
    /\ questions = [q \in Questions |-> "ABSENT"]
    /\ rows = [r \in FeatureRows |->
                 [status |-> IF r = 1 THEN "TODO" ELSE "BLOCKED", blocker |-> {}]]
    /\ config \in Configs
    /\ controlled = {}
    /\ session = NoSession
    /\ met = [r \in FeatureRows |-> {}]

Unknown == {q \in Questions : ~Known(q)}

FeatureNext ==
    \/ \E c \in Commands : Begin(c)
    \/ \E found, later \in SUBSET Unknown : WriteContract(found, later)
    \/ \E found \in SUBSET Unknown : WriteDesign(found) \/ WriteCode(found)
    \/ \E findings \in BOOLEAN, found \in SUBSET Unknown : WriteReview(findings, found)
    \/ \E results \in Submissions, found \in SUBSET Unknown : WriteReport(results, found)
    \/ PassControl \/ FailControl \/ Keep \/ Register \/ UpdateCard \/ UpdateRow \/ Die
    \/ \E r \in FeatureRows : FinishStop(r) \/ UnblockRow(r)
    \/ \E r \in FeatureRows \ {4} : Reopen(r)
    \/ UnblockCard \/ Authorize \/ ChangeConfig
    \/ \E q \in Questions : Resolve(q)

FeatureSpec == FeatureInit /\ [][FeatureNext]_featureVars

-----------------------------------------------------------------------------
(* Properties *)

Contracts == [rev : 0 .. MaxRevisions, needs : SUBSET Questions, later : SUBSET Questions]

Designs == [rev : 0 .. MaxRevisions, needs : SUBSET Questions,
            contract : 0 .. MaxRevisions, authorized : BOOLEAN]

Codes == [rev : 1 .. MaxRevisions, needs : SUBSET Questions, design : 0 .. MaxRevisions]

Reviews == [rev : {1}, needs : SUBSET Questions, code : 0 .. MaxRevisions, verdict : {"PASS", "FAIL", "BLOCKED"}]

Reports == [rev : {1}, needs : SUBSET Questions, contract : 0 .. MaxRevisions,
            design : 0 .. MaxRevisions, code : 0 .. MaxRevisions, config : Configs,
            selfCheck : {"PASS", "FAIL", "BLOCKED"}, result : CompositeVerdicts,
            passing : SUBSET ExpectedSources]

Documents == [contract : Contracts, design : Designs, code : {Absent} \union Codes,
              review : {Absent} \union Reviews, report : {Absent} \union Reports]

Sessions ==
    {NoSession} \union [pc : {"working"}, cmd : Commands, failed : SUBSET Configs]
      \union [pc : {"written", "registered", "carded"}, cmd : Commands,
              open : SUBSET Questions, later : SUBSET Questions]

\* Types of the feature's files and of a session.
FeatureTypeOK ==
    /\ card \in [stage : Stages, blocked : BOOLEAN, refs : SUBSET Questions]
    /\ docs \in Documents
    /\ questions \in [Questions -> {"ABSENT", "OPEN", "CONFIRMED"}]
    /\ rows \in [FeatureRows -> [status : {"TODO", "IN_PROGRESS", "BLOCKED", "DONE"},
                                 blocker : SUBSET (Questions \union {"G3.5"})]]
    /\ config \in Configs /\ controlled \subseteq Configs
    /\ session \in Sessions
    /\ met \in [FeatureRows -> SUBSET Questions]

Registered(refs) == \A q \in refs \ {"G3.5"} : questions[q] # "ABSENT"

\* the validator's rules for the card, the rows' order, and the report
CardValid ==
    /\ \A d \in RequiredFiles(card.stage) : Exists(d)
    /\ ~(card.stage = "done" /\ card.blocked)
    /\ Registered(card.refs)

RowsValid ==
    \A r \in FeatureRows :
        LET ready == r > 1 => rows[r - 1].status = "DONE" IN
        (rows[r].status = "BLOCKED") <=> (~ready \/ rows[r].blocker # {})

BlockersValid == \A r \in FeatureRows : Registered(rows[r].blocker)

ReportValid ==
    Exists("report") /\ docs.report.result # "BLOCKED" => docs.report.selfCheck = "PASS"

\* The validator accepts the feature's files whenever a session ends, at any
\* step: the documents of the stage, questions and report are there before the
\* card and the rows that rely on them.
FilesAlwaysValid == CardValid /\ RowsValid /\ BlockersValid /\ ReportValid

\* A feature whose last row is DONE is verified as it stands: every row's
\* completion condition holds of the revisions on disk, and the verdict is a
\* PASS of every required source under a judge configuration that rejected a
\* known-wrong result, though code, contract, design and judge may have changed
\* between the verifications and sessions may have ended half-way.
FinishedIsVerified ==
    rows[4].status = "DONE" =>
        /\ \A r \in FeatureRows : rows[r].status = "DONE" /\ Complete(r)
        /\ card.stage = "done" /\ ~card.blocked
        /\ docs.report.config \in controlled
        /\ ExpectedSources \subseteq docs.report.passing

\* A DONE row depends on no unknown fact that any session of its commands, a
\* review among them, met and persisted in its document, also when the session
\* died before the question, the card or the row was written and a later
\* command found its own preconditions satisfied.
NoRowOverUnknown ==
    \A r \in FeatureRows : rows[r].status = "DONE" => \A q \in met[r] : Known(q)

-----------------------------------------------------------------------------
(* Inductive invariant *)

\* a session works on a row in progress; what it carries on is on disk
SessionInv ==
    session # NoSession =>
        /\ rows[RowOf[session.cmd]].status = "IN_PROGRESS"
        /\ session.cmd = "verify" => Exists("review")
        /\ session.pc # "working" =>
              Exists(DocOf[session.cmd]) /\ (session.open # {} => card.stage # "done")
        /\ session.pc \in {"registered", "carded"} =>
              Registered(session.open \union session.later)
        /\ session.pc = "carded" /\ session.open # {} => card.blocked

\* a finished feature has its first rows behind it
StageInv == card.stage = "done" => \A r \in 1 .. 3 : rows[r].status = "DONE"

\* a completed row stays complete until it is reopened
DoneInv == \A r \in FeatureRows : rows[r].status = "DONE" => Complete(r)

\* a PASS was earned
ReportInv ==
    Exists("report") /\ docs.report.result = "PASS" =>
        /\ docs.report.needs = {}
        /\ docs.report.config \in controlled
        /\ ExpectedSources \subseteq docs.report.passing

\* so was a review's
ReviewInv == ReviewedPass => docs.review.needs = {}

NeedsOf(r) ==
    CASE r = 1 -> docs.contract.needs
      [] r = 2 -> docs.design.needs \union docs.contract.later
      [] r = 3 -> docs.code.needs
      [] r = 4 -> docs.review.needs \union docs.report.needs

\* no document forgets an unknown fact
MetInv == \A r \in FeatureRows : \A q \in met[r] : Known(q) \/ q \in NeedsOf(r)

FeatureInv ==
    /\ FeatureTypeOK /\ FilesAlwaysValid
    /\ SessionInv /\ StageInv /\ DoneInv /\ ReportInv /\ ReviewInv /\ MetInv
=============================================================================
