----------------------- MODULE FeatureLifecycleProofs -----------------------
(***************************************************************************)
(* What a verdict of the composite judge means, for every set of expected  *)
(* sources and of results (migration/judge/composite.py); and theorems     *)
(* about FeatureLifecycle, which rests on it, for any unknown facts, judge *)
(* configurations, required sources and numbers of revisions.              *)
(***************************************************************************)
EXTENDS FeatureLifecycle, TLAPS

-----------------------------------------------------------------------------
(* The composite judge *)

\* The verdict is PASS exactly when something was judged, every expected
\* source reported and every result is PASS: a source that is silent, weak or
\* has no adapter cannot be part of a PASS.
THEOREM PassIsEarned ==
    ASSUME NEW sources, NEW expected, NEW results \in SUBSET Results(sources)
    PROVE  Judge(expected, results) = "PASS" <=>
             /\ results # {}
             /\ expected \subseteq Reporting(results)
             /\ \A r \in results : r.verdict = "PASS"
<1> DEFINE merged == Merge(expected, results)
           seen   == {r.verdict : r \in merged}
<1>1. Judge(expected, results) = "PASS" <=> seen = {"PASS"}
  BY DEF Judge, Blocking
<1>2. ASSUME seen = {"PASS"}
      PROVE  /\ results # {}
             /\ expected \subseteq Reporting(results)
             /\ \A r \in results : r.verdict = "PASS"
  <2>1. \A r \in merged : r.verdict = "PASS"
    BY <1>2
  <2>2. expected \subseteq Reporting(results)
    <3>1. SUFFICES ASSUME NEW s \in expected, s \notin Reporting(results)
                   PROVE  FALSE
      OBVIOUS
    <3>2. [source |-> s, verdict |-> "NOT_SUBMITTED"] \in merged
      BY <3>1 DEF Merge
    <3>3. QED
      BY <2>1, <3>2
  <2>3. results # {}
    <3>1. PICK r \in merged : TRUE
      BY <1>2
    <3>2. [source : expected \ Reporting(results), verdict : {"NOT_SUBMITTED"}] = {}
      BY <2>2
    <3>3. QED
      BY <3>1, <3>2 DEF Merge
  <2>4. \A r \in results : r.verdict = "PASS"
    BY <2>1 DEF Merge
  <2>5. QED
    BY <2>2, <2>3, <2>4
<1>3. ASSUME results # {},
             expected \subseteq Reporting(results),
             \A r \in results : r.verdict = "PASS"
      PROVE  seen = {"PASS"}
  <2>1. merged = results
    BY <1>3 DEF Merge
  <2>2. QED
    BY <2>1, <1>3
<1>4. QED
  BY <1>1, <1>2, <1>3

\* A mismatch is decisive: whatever else is reported or missing, FAIL outranks.
THEOREM FailOutranks ==
    ASSUME NEW expected, NEW results, NEW r \in results, r.verdict = "FAIL"
    PROVE  Judge(expected, results) = "FAIL"
<1>1. "FAIL" \in {x.verdict : x \in Merge(expected, results)}
  BY DEF Merge
<1>2. QED
  BY <1>1 DEF Judge

\* The verdict is FAIL only on a reported mismatch: a missing source is never
\* graded as one.
THEOREM FailIsReported ==
    ASSUME NEW expected, NEW results, Judge(expected, results) = "FAIL"
    PROVE  \E r \in results : r.verdict = "FAIL"
<1>1. "FAIL" \in {x.verdict : x \in Merge(expected, results)}
  BY DEF Judge
<1>2. PICK x \in Merge(expected, results) : x.verdict = "FAIL"
  BY <1>1
<1>3. x \notin [source : expected \ Reporting(results), verdict : {"NOT_SUBMITTED"}]
  BY <1>2
<1>4. QED
  BY <1>2, <1>3 DEF Merge

\* Evidence that is left out cannot be what a PASS rested on hiding: a PASS
\* over more results and more expectations is a PASS over any part of them
\* that still reports something for every source it expects.
THEOREM PassIsMonotone ==
    ASSUME NEW sources,
           NEW expected, NEW fewer \in SUBSET expected,
           NEW results \in SUBSET Results(sources), NEW part \in SUBSET results,
           part # {}, fewer \subseteq Reporting(part),
           Judge(expected, results) = "PASS"
    PROVE  Judge(fewer, part) = "PASS"
<1>1. \A r \in results : r.verdict = "PASS"
  BY PassIsEarned
<1>2. part \in SUBSET Results(sources)
  OBVIOUS
<1>3. QED
  BY <1>1, <1>2, PassIsEarned

\* A result that arrives later lifts the verdict to PASS only by being the
\* missing report of an expected source, or the first report of all.
THEOREM OnlyTheMissingReportLifts ==
    ASSUME NEW sources, NEW expected, NEW results \in SUBSET Results(sources),
           NEW late \in Results(sources),
           Judge(expected, results) # "PASS",
           Judge(expected, results \union {late}) = "PASS"
    PROVE  \/ results = {}
           \/ late.source \in expected /\ late.source \notin Reporting(results)
<1> DEFINE all == results \union {late}
<1>1. all \in SUBSET Results(sources)
  OBVIOUS
<1>2. expected \subseteq Reporting(all) /\ \A r \in all : r.verdict = "PASS"
  BY <1>1, PassIsEarned
<1>3. CASE results # {}
  <2>1. ~(expected \subseteq Reporting(results))
    BY <1>2, <1>3, PassIsEarned
  <2>2. PICK s \in expected : s \notin Reporting(results)
    BY <2>1
  <2>3. s \in Reporting(all)
    BY <1>2
  <2>4. s = late.source
    BY <2>2, <2>3 DEF Reporting
  <2>5. QED
    BY <2>2, <2>4
<1>4. QED
  BY <1>3

-----------------------------------------------------------------------------
(* Rows *)

LEMMA RowNumbers == FeatureRows = {1, 2, 3, 4}
BY DEF FeatureRows

\* before a row that is not blocked all are done; after one that is not done
\* all are blocked
LEMMA RowChain ==
    ASSUME RowsValid, NEW r \in FeatureRows, NEW x \in FeatureRows
    PROVE  /\ rows[r].status # "BLOCKED" /\ x < r => rows[x].status = "DONE"
           /\ rows[r].status # "DONE" /\ x > r => rows[x].status = "BLOCKED"
           /\ rows[r].status # "BLOCKED" => rows[r].blocker = {}
<1>1. \A y \in {2, 3, 4} : rows[y].status # "BLOCKED" => rows[y - 1].status = "DONE"
  BY RowNumbers DEF RowsValid
<1>2. /\ rows[2].status # "BLOCKED" => rows[1].status = "DONE"
      /\ rows[3].status # "BLOCKED" => rows[2].status = "DONE"
      /\ rows[4].status # "BLOCKED" => rows[3].status = "DONE"
  BY <1>1
<1>3. rows[r].status # "BLOCKED" => rows[r].blocker = {}
  BY DEF RowsValid
<1> QED BY <1>2, <1>3, RowNumbers

LEMMA SetRowEffect ==
    ASSUME FeatureTypeOK, RowsValid, NEW r \in FeatureRows, NEW status, NEW blocker,
           SetRow(r, status, blocker)
    PROVE  /\ DOMAIN rows' = FeatureRows
           /\ rows'[r] = [status |-> status, blocker |-> blocker]
           /\ \A x \in FeatureRows : x # r => rows'[x].blocker = rows[x].blocker
           /\ \A x \in FeatureRows : x < r => rows'[x] = rows[x]
           /\ \A x \in FeatureRows : x > r =>
                 IF status # "DONE" THEN rows'[x].status = "BLOCKED"
                 ELSE IF x = r + 1 /\ rows[x].blocker = {} THEN rows'[x].status = "TODO"
                 ELSE rows'[x] = rows[x]
<1>1. rows \in [FeatureRows -> [status : {"TODO", "IN_PROGRESS", "BLOCKED", "DONE"},
                                blocker : SUBSET (Questions \union {"G3.5"})]]
  BY DEF FeatureTypeOK
<1> QED BY <1>1, RowNumbers DEF SetRow

\* Setting a row keeps the rows in order.
LEMMA SetRowValid ==
    ASSUME FeatureTypeOK, RowsValid, NEW r \in FeatureRows,
           NEW status \in {"TODO", "IN_PROGRESS", "BLOCKED", "DONE"},
           NEW blocker \in SUBSET (Questions \union {"G3.5"}),
           SetRow(r, status, blocker),
           rows[r].status # "BLOCKED", status = "DONE" => rows[r].status # "DONE",
           (status = "BLOCKED") <=> (blocker # {})
    PROVE  /\ RowsValid'
           /\ rows' \in [FeatureRows -> [status : {"TODO", "IN_PROGRESS", "BLOCKED", "DONE"},
                                         blocker : SUBSET (Questions \union {"G3.5"})]]
<1>1. rows \in [FeatureRows -> [status : {"TODO", "IN_PROGRESS", "BLOCKED", "DONE"},
                                blocker : SUBSET (Questions \union {"G3.5"})]]
  BY DEF FeatureTypeOK
<1>2. rows' \in [FeatureRows -> [status : {"TODO", "IN_PROGRESS", "BLOCKED", "DONE"},
                                 blocker : SUBSET (Questions \union {"G3.5"})]]
  BY <1>1, RowNumbers DEF SetRow
<1>a. /\ \A x \in FeatureRows : x < r => rows'[x] = rows[x]
      /\ rows'[r] = [status |-> status, blocker |-> blocker]
      /\ \A x \in FeatureRows : x # r => rows'[x].blocker = rows[x].blocker
      /\ \A x \in FeatureRows : x > r =>
            IF status # "DONE" THEN rows'[x].status = "BLOCKED"
            ELSE IF x = r + 1 /\ rows[x].blocker = {} THEN rows'[x].status = "TODO"
            ELSE rows'[x] = rows[x]
  BY SetRowEffect
<1>b. /\ \A x \in FeatureRows : x < r => rows[x].status = "DONE"
      /\ status = "DONE" => \A x \in FeatureRows : x > r => rows[x].status = "BLOCKED"
  BY RowChain
<1>3. \A x \in FeatureRows : x < r => rows'[x] = rows[x] /\ rows'[x].status = "DONE"
  BY <1>a, <1>b
<1>4. rows'[r] = [status |-> status, blocker |-> blocker]
  BY <1>a
<1>5. ASSUME NEW x \in FeatureRows
      PROVE  LET ready == x > 1 => rows'[x - 1].status = "DONE" IN
             (rows'[x].status = "BLOCKED") <=> (~ready \/ rows'[x].blocker # {})
  <2>1. CASE x < r
    BY <1>3, <2>1, RowNumbers DEF RowsValid
  <2>2. CASE x = r
    BY <1>3, <1>4, <2>2, RowNumbers
  <2>3. CASE x = r + 1
    BY <1>4, <1>a, <1>b, <2>3, RowNumbers DEF RowsValid
  <2>4. CASE x > r + 1
    <3>1. x - 1 \in FeatureRows /\ x - 1 > r
      BY <2>4, RowNumbers
    <3>2. rows'[x].status = "BLOCKED" /\ rows'[x - 1].status # "DONE"
      BY <3>1, <2>4, <1>a, <1>b, RowNumbers
    <3> QED BY <3>2, <2>4, RowNumbers
  <2> QED BY <2>1, <2>2, <2>3, <2>4, RowNumbers
<1> QED BY <1>2, <1>5 DEF RowsValid

RowTable == [FeatureRows -> [status : {"TODO", "IN_PROGRESS", "BLOCKED", "DONE"},
                             blocker : SUBSET (Questions \union {"G3.5"})]]

\* Taking away a row's last blocker keeps the rows in order.
LEMMA UnblockRowValid ==
    ASSUME FeatureTypeOK, RowsValid, NEW r \in FeatureRows, UnblockRow(r)
    PROVE  /\ RowsValid' /\ rows' \in RowTable
           /\ \A x \in FeatureRows : x # r => rows'[x] = rows[x]
           /\ rows'[r].blocker = {}
           /\ rows'[r].status \in {"TODO", "BLOCKED"} /\ rows[r].status = "BLOCKED"
<1>1. /\ \A x \in FeatureRows : x # r => rows'[x] = rows[x]
      /\ rows'[r] = [status |-> IF r > 1 /\ rows[r - 1].status # "DONE" THEN "BLOCKED" ELSE "TODO",
                     blocker |-> {}]
      /\ rows' \in RowTable
  BY DEF UnblockRow, FeatureTypeOK, RowTable
<1>2. rows[r].status = "BLOCKED"
  BY DEF UnblockRow, RowsValid
<1>3. ASSUME NEW x \in FeatureRows
      PROVE  LET ready == x > 1 => rows'[x - 1].status = "DONE" IN
             (rows'[x].status = "BLOCKED") <=> (~ready \/ rows'[x].blocker # {})
  <2>1. CASE x = r
    BY <1>1, <2>1, RowNumbers
  <2>2. CASE x = r + 1
    BY <1>1, <1>2, <2>2, RowNumbers DEF RowsValid
  <2>3. CASE x # r /\ x # r + 1
    BY <1>1, <2>3, RowNumbers DEF RowsValid
  <2> QED BY <2>1, <2>2, <2>3
<1> QED BY <1>1, <1>2, <1>3 DEF RowsValid

-----------------------------------------------------------------------------
(* Types *)

LEMMA RevisionsType ==
    ASSUME FeatureTypeOK
    PROVE  /\ docs.contract.rev \in 0 .. MaxRevisions /\ docs.design.rev \in 0 .. MaxRevisions
           /\ docs.code.rev \in 0 .. MaxRevisions
           /\ Revisions < MaxRevisions =>
                /\ docs.contract.rev + 1 \in 1 .. MaxRevisions
                /\ docs.design.rev + 1 \in 1 .. MaxRevisions
                /\ docs.code.rev + 1 \in 1 .. MaxRevisions
<1>1. docs \in Documents
  BY DEF FeatureTypeOK
<1>2. /\ docs.contract.rev \in 0 .. MaxRevisions /\ docs.design.rev \in 0 .. MaxRevisions
      /\ docs.code.rev \in 0 .. MaxRevisions
  BY <1>1, FeatureAssumption DEF Documents, Contracts, Designs, Codes, Absent
<1> QED BY <1>2, FeatureAssumption DEF Revisions

LEMMA NeedsType ==
    ASSUME FeatureTypeOK, NEW d \in DOMAIN docs, NEW found \in SUBSET Unknown
    PROVE  Needs(d, found) \subseteq Questions
<1>1. docs[d].needs \subseteq Questions
  BY DEF FeatureTypeOK, Documents, Contracts, Designs, Codes, Reviews, Reports, Absent
<1> QED BY <1>1 DEF Needs, Unknown

\* what every write does, whatever document it writes
LEMMA WriteEffect ==
    ASSUME FeatureTypeOK, NEW doc, NEW found \in SUBSET Questions, NEW later \in SUBSET Questions,
           Write(doc, found, later), doc.needs \subseteq Questions
    PROVE  /\ session.pc = "working" /\ card.stage # "done" /\ session.cmd \in Commands
           /\ docs' = [docs EXCEPT ![DocOf[session.cmd]] = doc]
           /\ session' = [pc |-> "written", cmd |-> session.cmd, open |-> doc.needs, later |-> later]
           /\ session' \in Sessions
           /\ met' \in [FeatureRows -> SUBSET Questions]
           /\ UNCHANGED <<card, questions, rows, config, controlled>>
<1>1. session.pc = "working" /\ session \in Sessions
  BY DEF Write, FeatureTypeOK
<1>2. session.cmd \in Commands
  BY <1>1 DEF Sessions, NoSession
<1>3. session' = [pc |-> "written", cmd |-> session.cmd, open |-> doc.needs, later |-> later]
  BY DEF Write
<1>4. session' \in Sessions
  BY <1>2, <1>3 DEF Sessions
<1>5. met' \in [FeatureRows -> SUBSET Questions]
  BY DEF Write, FeatureTypeOK
<1> QED BY <1>1, <1>2, <1>3, <1>4, <1>5 DEF Write

LEMMA ContractWritten ==
    ASSUME FeatureTypeOK, NEW found \in SUBSET Unknown, NEW later \in SUBSET Unknown,
           WriteContract(found, later)
    PROVE  /\ FeatureTypeOK' /\ UNCHANGED <<card, questions, rows, config, controlled>>
           /\ session.pc = "working" /\ session.cmd = "spec" /\ card.stage # "done"
           /\ \E tracked \in SUBSET Questions :
                /\ tracked = {q \in docs.contract.later \union later : ~Known(q)}
                /\ docs' = [docs EXCEPT !.contract =
                              [rev |-> docs.contract.rev + 1, needs |-> Needs("contract", found),
                               later |-> tracked]]
                /\ session' = [pc |-> "written", cmd |-> "spec",
                               open |-> Needs("contract", found), later |-> tracked]
                /\ met' = [met EXCEPT ![1] = @ \union found, ![2] = @ \union tracked]
           /\ docs'.contract.rev \in Nat \ {0}
<1> DEFINE tracked == {q \in docs.contract.later \union later : ~Known(q)}
           doc == [rev |-> docs.contract.rev + 1, needs |-> Needs("contract", found),
                   later |-> tracked]
<1>1. Write(doc, found, tracked) /\ session.cmd = "spec" /\ Revisions < MaxRevisions
  BY DEF WriteContract
<1>2. docs \in Documents /\ docs.contract \in Contracts /\ found \subseteq Questions
  BY DEF FeatureTypeOK, Documents, Unknown
<1>3. tracked \subseteq Questions
  BY <1>2 DEF Contracts, Unknown
<1>4. Needs("contract", found) \subseteq Questions
  BY <1>2, NeedsType DEF Documents
<1>5. doc \in Contracts /\ doc.rev \in Nat \ {0}
  BY <1>1, <1>3, <1>4, RevisionsType, FeatureAssumption DEF Contracts
<1>6. doc.needs = Needs("contract", found) /\ doc.later = tracked
  OBVIOUS
<1> HIDE DEF tracked, doc
<1>a. doc.needs \subseteq Questions /\ found \in SUBSET Questions /\ tracked \in SUBSET Questions
  BY <1>2, <1>3, <1>4, <1>6
<1>b. /\ session.pc = "working" /\ card.stage # "done"
      /\ docs' = [docs EXCEPT ![DocOf[session.cmd]] = doc]
      /\ session' = [pc |-> "written", cmd |-> session.cmd, open |-> doc.needs, later |-> tracked]
      /\ session' \in Sessions /\ met' \in [FeatureRows -> SUBSET Questions]
      /\ UNCHANGED <<card, questions, rows, config, controlled>>
  BY <1>1, <1>a, WriteEffect
<1>7. /\ session.pc = "working" /\ card.stage # "done"
      /\ docs' = [docs EXCEPT !.contract = doc]
      /\ session' = [pc |-> "written", cmd |-> "spec", open |-> doc.needs, later |-> tracked]
      /\ session' \in Sessions /\ met' \in [FeatureRows -> SUBSET Questions]
      /\ UNCHANGED <<card, questions, rows, config, controlled>>
  <2>1. DocOf[session.cmd] = "contract"
    BY <1>1 DEF DocOf
  <2>2. docs' = [docs EXCEPT !["contract"] = doc]
    BY <1>b, <2>1, Zenon
  <2>3. docs' = [docs EXCEPT !.contract = doc]
    BY <2>2
  <2> QED BY <1>1, <1>b, <2>3
<1>8. docs' \in Documents
  BY <1>2, <1>5, <1>7 DEF Documents
<1>9. met' = [met EXCEPT ![1] = @ \union found, ![2] = @ \union tracked]
  <2>1. met \in [FeatureRows -> SUBSET Questions]
    BY DEF FeatureTypeOK
  <2>2. met' = [r \in FeatureRows |->
                 met[r] \union (IF r = 1 THEN found ELSE {})
                        \union (IF r = 2 THEN tracked ELSE {})]
    BY <1>1 DEF Write, RowOf
  <2>3. \A r \in FeatureRows : met'[r] = [met EXCEPT ![1] = @ \union found, ![2] = @ \union tracked][r]
    BY <2>1, <2>2, RowNumbers
  <2> QED BY <2>1, <2>2, <2>3
<1>10. FeatureTypeOK'
  BY <1>7, <1>8 DEF FeatureTypeOK
<1>11. docs'.contract = doc
  BY <1>2, <1>7 DEF Documents
<1> QED BY <1>1, <1>3, <1>5, <1>6, <1>7, <1>9, <1>10, <1>11 DEF tracked, doc

\* a document that leaves nothing to the next gate
LEMMA MetWritten ==
    ASSUME FeatureTypeOK, NEW doc, NEW found, NEW n \in FeatureRows,
           Write(doc, found, {}), RowOf[session.cmd] = n
    PROVE  met' = [met EXCEPT ![n] = @ \union found]
<1>1. met \in [FeatureRows -> SUBSET Questions]
  BY DEF FeatureTypeOK
<1>2. met' = [r \in FeatureRows |->
               met[r] \union (IF r = n THEN found ELSE {})
                      \union (IF r = n + 1 THEN {} ELSE {})]
  BY DEF Write
<1>3. \A r \in FeatureRows : met'[r] = [met EXCEPT ![n] = @ \union found][r]
  BY <1>1, <1>2
<1> QED BY <1>1, <1>2, <1>3

LEMMA DesignWritten ==
    ASSUME FeatureTypeOK, NEW found \in SUBSET Unknown, WriteDesign(found)
    PROVE  /\ FeatureTypeOK' /\ UNCHANGED <<card, questions, rows, config, controlled>>
           /\ session.pc = "working" /\ session.cmd = "design" /\ card.stage # "done"
           /\ docs' = [docs EXCEPT !.design =
                         [rev |-> docs.design.rev + 1,
                          needs |-> Needs("design", found \union docs.contract.later),
                          contract |-> docs.contract.rev, authorized |-> FALSE]]
           /\ session' = [pc |-> "written", cmd |-> "design",
                          open |-> Needs("design", found \union docs.contract.later),
                          later |-> {}]
           /\ met' = [met EXCEPT ![2] = @ \union found]
           /\ docs'.design.rev \in Nat \ {0}
<1> DEFINE doc == [rev |-> docs.design.rev + 1,
                   needs |-> Needs("design", found \union docs.contract.later),
                   contract |-> docs.contract.rev, authorized |-> FALSE]
<1>1. Write(doc, found, {}) /\ session.cmd = "design" /\ Revisions < MaxRevisions
  BY DEF WriteDesign
<1>2. docs \in Documents /\ found \subseteq Questions
  BY DEF FeatureTypeOK, Unknown
<1>3. docs.contract \in Contracts /\ docs.design \in Designs
  BY <1>2 DEF Documents
<1>4. Needs("design", found \union docs.contract.later) \subseteq Questions
  BY <1>2, <1>3 DEF Needs, Contracts, Designs
<1>5. doc \in Designs /\ doc.rev \in Nat \ {0}
  <2>1. docs.design.rev + 1 \in 1 .. MaxRevisions /\ docs.contract.rev \in 0 .. MaxRevisions
    BY <1>1, RevisionsType
  <2> DEFINE rev == docs.design.rev + 1
             needs == Needs("design", found \union docs.contract.later)
             contract == docs.contract.rev
  <2>2. /\ rev \in 1 .. MaxRevisions /\ contract \in 0 .. MaxRevisions
        /\ needs \subseteq Questions
        /\ doc = [rev |-> rev, needs |-> needs, contract |-> contract, authorized |-> FALSE]
    BY <2>1, <1>4
  <2> HIDE DEF rev, needs, contract, doc
  <2> QED BY <2>2, FeatureAssumption DEF Designs
<1>6. doc.needs = Needs("design", found \union docs.contract.later)
  OBVIOUS
<1>7. doc.needs \subseteq Questions /\ found \in SUBSET Questions /\ {} \in SUBSET Questions
  BY <1>2, <1>4
<1>8. met' = [met EXCEPT ![2] = @ \union found]
  <2>1. RowOf[session.cmd] = 2 /\ 2 \in FeatureRows
    BY <1>1, RowNumbers DEF RowOf
  <2> HIDE DEF doc
  <2> QED BY <1>1, <2>1, MetWritten
<1> HIDE DEF doc
<1>9. /\ session.pc = "working" /\ card.stage # "done"
      /\ docs' = [docs EXCEPT ![DocOf[session.cmd]] = doc]
      /\ session' = [pc |-> "written", cmd |-> session.cmd, open |-> doc.needs, later |-> {}]
      /\ session' \in Sessions /\ met' \in [FeatureRows -> SUBSET Questions]
      /\ UNCHANGED <<card, questions, rows, config, controlled>>
  BY <1>1, <1>7, WriteEffect
<1>10. docs' = [docs EXCEPT !.design = doc]
  <2>1. DocOf[session.cmd] = "design"
    BY <1>1 DEF DocOf
  <2>2. docs' = [docs EXCEPT !["design"] = doc]
    BY <1>9, <2>1, Zenon
  <2> QED BY <2>2
<1>11. docs' \in Documents /\ docs'.design = doc
  BY <1>2, <1>5, <1>10 DEF Documents
<1>12. FeatureTypeOK'
  BY <1>9, <1>11 DEF FeatureTypeOK
<1> QED BY <1>1, <1>5, <1>6, <1>8, <1>9, <1>10, <1>11, <1>12 DEF doc

LEMMA CodeWritten ==
    ASSUME FeatureTypeOK, NEW found \in SUBSET Unknown, WriteCode(found)
    PROVE  /\ FeatureTypeOK' /\ UNCHANGED <<card, questions, rows, config, controlled>>
           /\ session.pc = "working" /\ session.cmd = "implement" /\ card.stage # "done"
           /\ docs' = [docs EXCEPT !.code =
                         [rev |-> docs.code.rev + 1, needs |-> Needs("code", found),
                          design |-> docs.design.rev]]
           /\ session' = [pc |-> "written", cmd |-> "implement",
                          open |-> Needs("code", found), later |-> {}]
           /\ met' = [met EXCEPT ![3] = @ \union found]
           /\ docs'.code.rev \in Nat \ {0}
<1> DEFINE doc == [rev |-> docs.code.rev + 1, needs |-> Needs("code", found),
                   design |-> docs.design.rev]
<1>1. Write(doc, found, {}) /\ session.cmd = "implement" /\ Revisions < MaxRevisions
  BY DEF WriteCode
<1>2. docs \in Documents /\ found \subseteq Questions
  BY DEF FeatureTypeOK, Unknown
<1>3. docs.code \in {Absent} \union Codes /\ docs.design \in Designs
  BY <1>2 DEF Documents
<1>4. Needs("code", found) \subseteq Questions
  BY <1>2, <1>3 DEF Needs, Codes, Absent
<1>5. doc \in Codes /\ doc.rev \in Nat \ {0}
  BY <1>1, <1>4, RevisionsType, FeatureAssumption DEF Codes
<1>6. doc.needs = Needs("code", found)
  OBVIOUS
<1>7. doc.needs \subseteq Questions /\ found \in SUBSET Questions /\ {} \in SUBSET Questions
  BY <1>2, <1>4
<1>8. met' = [met EXCEPT ![3] = @ \union found]
  <2>1. RowOf[session.cmd] = 3 /\ 3 \in FeatureRows
    BY <1>1, RowNumbers DEF RowOf
  <2> HIDE DEF doc
  <2> QED BY <1>1, <2>1, MetWritten
<1> HIDE DEF doc
<1>9. /\ session.pc = "working" /\ card.stage # "done"
      /\ docs' = [docs EXCEPT ![DocOf[session.cmd]] = doc]
      /\ session' = [pc |-> "written", cmd |-> session.cmd, open |-> doc.needs, later |-> {}]
      /\ session' \in Sessions /\ met' \in [FeatureRows -> SUBSET Questions]
      /\ UNCHANGED <<card, questions, rows, config, controlled>>
  BY <1>1, <1>7, WriteEffect
<1>10. docs' = [docs EXCEPT !.code = doc]
  <2>1. DocOf[session.cmd] = "code"
    BY <1>1 DEF DocOf
  <2>2. docs' = [docs EXCEPT !["code"] = doc]
    BY <1>9, <2>1, Zenon
  <2> QED BY <2>2
<1>11. docs' \in Documents /\ docs'.code = doc
  BY <1>2, <1>5, <1>10 DEF Documents
<1>12. FeatureTypeOK'
  BY <1>9, <1>11 DEF FeatureTypeOK
<1> QED BY <1>1, <1>5, <1>6, <1>8, <1>9, <1>10, <1>11, <1>12 DEF doc

\* A review says PASS only when it leaves nothing unknown.
LEMMA ReviewWritten ==
    ASSUME FeatureTypeOK, NEW findings \in BOOLEAN, NEW found \in SUBSET Unknown,
           WriteReview(findings, found)
    PROVE  /\ FeatureTypeOK' /\ UNCHANGED <<card, questions, rows, config, controlled>>
           /\ session.pc = "working" /\ session.cmd = "review" /\ card.stage # "done"
           /\ docs' = [docs EXCEPT !.review = docs'.review]
           /\ docs'.review.rev = 1
           /\ docs'.review.needs = Needs("review", found)
           /\ docs'.review.verdict = "PASS" => docs'.review.needs = {}
           /\ session' = [pc |-> "written", cmd |-> "review",
                          open |-> Needs("review", found), later |-> {}]
           /\ met' = [met EXCEPT ![4] = @ \union found]
<1> DEFINE needs == Needs("review", found)
           verdict == IF needs # {} THEN "BLOCKED" ELSE IF findings THEN "FAIL" ELSE "PASS"
           doc == [rev |-> 1, needs |-> needs, code |-> docs.code.rev, verdict |-> verdict]
<1>1. Write(doc, found, {}) /\ session.cmd = "review"
  BY DEF WriteReview
<1>2. docs \in Documents /\ found \subseteq Questions
  BY DEF FeatureTypeOK, Unknown
<1>3. docs.review \in {Absent} \union Reviews
  BY <1>2 DEF Documents
<1>4. needs \subseteq Questions
  BY <1>2, <1>3 DEF Needs, Reviews, Absent
<1>5. verdict \in {"PASS", "FAIL", "BLOCKED"} /\ (verdict = "PASS" => needs = {})
  OBVIOUS
<1> HIDE DEF needs, verdict
<1>6. doc \in Reviews
  BY <1>4, <1>5, RevisionsType DEF Reviews
<1>7. doc.rev = 1 /\ doc.needs = needs /\ doc.verdict = verdict
  OBVIOUS
<1>8. doc.needs \subseteq Questions /\ found \in SUBSET Questions /\ {} \in SUBSET Questions
  BY <1>2, <1>4
<1> HIDE DEF doc
<1>9. met' = [met EXCEPT ![4] = @ \union found]
  <2>1. RowOf[session.cmd] = 4 /\ 4 \in FeatureRows
    BY <1>1, RowNumbers DEF RowOf
  <2> QED BY <1>1, <2>1, MetWritten
<1>10. /\ session.pc = "working" /\ card.stage # "done"
       /\ docs' = [docs EXCEPT ![DocOf[session.cmd]] = doc]
       /\ session' = [pc |-> "written", cmd |-> session.cmd, open |-> doc.needs, later |-> {}]
       /\ session' \in Sessions /\ met' \in [FeatureRows -> SUBSET Questions]
       /\ UNCHANGED <<card, questions, rows, config, controlled>>
  BY <1>1, <1>8, WriteEffect
<1>11. docs' = [docs EXCEPT !.review = doc]
  <2>1. DocOf[session.cmd] = "review"
    BY <1>1 DEF DocOf
  <2>2. docs' = [docs EXCEPT !["review"] = doc]
    BY <1>10, <2>1, Zenon
  <2> QED BY <2>2
<1>12. docs' \in Documents /\ docs'.review = doc
  BY <1>2, <1>6, <1>11 DEF Documents
<1>13. FeatureTypeOK'
  BY <1>10, <1>12 DEF FeatureTypeOK
<1> QED BY <1>1, <1>5, <1>7, <1>9, <1>10, <1>11, <1>12, <1>13 DEF needs

\* A report says PASS only when its sources do, under a checked judge.
LEMMA ReportWritten ==
    ASSUME FeatureTypeOK, NEW results \in Submissions, NEW found \in SUBSET Unknown,
           WriteReport(results, found)
    PROVE  /\ FeatureTypeOK' /\ UNCHANGED <<card, questions, rows, config, controlled>>
           /\ session.pc = "working" /\ session.cmd = "verify" /\ card.stage # "done"
           /\ docs' = [docs EXCEPT !.report = docs'.report]
           /\ docs'.report.needs = Needs("report", found)
           /\ docs'.report.contract = docs.contract.rev
           /\ docs'.report.design = docs.design.rev /\ docs'.report.code = docs.code.rev
           /\ docs'.report.rev = 1
           /\ docs'.report.result # "BLOCKED" => docs'.report.selfCheck = "PASS"
           /\ docs'.report.result = "PASS" =>
                /\ docs'.report.needs = {}
                /\ docs'.report.config \in controlled
                /\ ExpectedSources \subseteq docs'.report.passing
           /\ session' = [pc |-> "written", cmd |-> "verify",
                          open |-> Needs("report", found), later |-> {}]
           /\ met' = [met EXCEPT ![4] = @ \union found]
<1> DEFINE needs == Needs("report", found)
           passing == {s \in Reporting(results) :
                         \A r \in results : r.source = s => r.verdict = "PASS"}
           result == IF SelfChecked /\ needs = {}
                     THEN Judge(ExpectedSources, results) ELSE "BLOCKED"
           selfCheck == SelfCheck
           doc == [rev |-> 1, needs |-> needs,
                   contract |-> docs.contract.rev, design |-> docs.design.rev,
                   code |-> docs.code.rev, config |-> config,
                   selfCheck |-> selfCheck, result |-> result, passing |-> passing]
<1>1. Write(doc, found, {}) /\ session.cmd = "verify"
  BY DEF WriteReport
<1>2. docs \in Documents /\ found \subseteq Questions /\ config \in Configs
  BY DEF FeatureTypeOK, Unknown
<1>3. docs.report \in {Absent} \union Reports
  BY <1>2 DEF Documents
<1>4. needs \subseteq Questions
  BY <1>2, <1>3 DEF Needs, Reports, Absent
<1>5. results \in SUBSET Results(ExpectedSources)
  BY FeatureAssumption DEF Results
<1>6. passing \subseteq ExpectedSources
  BY <1>5 DEF Reporting, Results
<1>7. result \in CompositeVerdicts /\ selfCheck \in {"PASS", "FAIL", "BLOCKED"}
  BY DEF Judge, CompositeVerdicts, SelfCheck
<1>8. result # "BLOCKED" => selfCheck = "PASS"
  BY DEF SelfCheck
<1>9. result = "PASS" => /\ needs = {} /\ config \in controlled
                         /\ ExpectedSources \subseteq passing
  <2> SUFFICES ASSUME result = "PASS"
               PROVE  /\ needs = {} /\ config \in controlled
                      /\ ExpectedSources \subseteq passing
    OBVIOUS
  <2>1. SelfChecked /\ needs = {} /\ Judge(ExpectedSources, results) = "PASS"
    OBVIOUS
  <2>2. /\ ExpectedSources \subseteq Reporting(results)
        /\ \A r \in results : r.verdict = "PASS"
    BY <1>5, <2>1, PassIsEarned
  <2> QED BY <2>1, <2>2 DEF SelfChecked
<1> HIDE DEF needs, passing, result, selfCheck
<1>10. doc \in Reports
  BY <1>2, <1>4, <1>6, <1>7, RevisionsType DEF Reports
<1>11. /\ doc.rev = 1 /\ doc.needs = needs /\ doc.contract = docs.contract.rev
       /\ doc.design = docs.design.rev /\ doc.code = docs.code.rev /\ doc.config = config
       /\ doc.selfCheck = selfCheck /\ doc.result = result /\ doc.passing = passing
  OBVIOUS
<1>12. doc.needs \subseteq Questions /\ found \in SUBSET Questions /\ {} \in SUBSET Questions
  BY <1>2, <1>4
<1> HIDE DEF doc
<1>13. met' = [met EXCEPT ![4] = @ \union found]
  <2>1. RowOf[session.cmd] = 4 /\ 4 \in FeatureRows
    BY <1>1, RowNumbers DEF RowOf
  <2> QED BY <1>1, <2>1, MetWritten
<1>14. /\ session.pc = "working" /\ card.stage # "done"
      /\ docs' = [docs EXCEPT ![DocOf[session.cmd]] = doc]
      /\ session' = [pc |-> "written", cmd |-> session.cmd, open |-> doc.needs, later |-> {}]
      /\ session' \in Sessions /\ met' \in [FeatureRows -> SUBSET Questions]
      /\ UNCHANGED <<card, questions, rows, config, controlled>>
  BY <1>1, <1>12, WriteEffect
<1>15. docs' = [docs EXCEPT !.report = doc]
  <2>1. DocOf[session.cmd] = "report"
    BY <1>1 DEF DocOf
  <2>2. docs' = [docs EXCEPT !["report"] = doc]
    BY <1>14, <2>1, Zenon
  <2> QED BY <2>2
<1>16. docs' \in Documents /\ docs'.report = doc
  BY <1>2, <1>10, <1>15 DEF Documents
<1>17. FeatureTypeOK'
  BY <1>14, <1>16 DEF FeatureTypeOK
<1> QED BY <1>1, <1>8, <1>9, <1>11, <1>13, <1>14, <1>15, <1>16, <1>17 DEF needs

-----------------------------------------------------------------------------
(* What steps leave alone *)

LEMMA NoSessionIsNone ==
    \A s \in Sessions : s.pc # "none" => s # NoSession /\ s.cmd \in Commands
BY DEF Sessions, NoSession

\* a session claims its row: the rows before it are done, no later one is
LEMMA ClaimedRow ==
    ASSUME FeatureInv, session # NoSession
    PROVE  /\ session.cmd \in Commands /\ RowOf[session.cmd] \in FeatureRows
           /\ rows[RowOf[session.cmd]].status = "IN_PROGRESS"
           /\ \A x \in FeatureRows : x < RowOf[session.cmd] <=> rows[x].status = "DONE"
<1>1. session.cmd \in Commands
  BY DEF FeatureInv, FeatureTypeOK, Sessions
<1>2. RowOf[session.cmd] \in FeatureRows
  BY <1>1, RowNumbers DEF RowOf, Commands
<1>3. rows[RowOf[session.cmd]].status = "IN_PROGRESS"
  BY DEF FeatureInv, SessionInv
<1>4. ASSUME NEW x \in FeatureRows
      PROVE  x < RowOf[session.cmd] <=> rows[x].status = "DONE"
  <2>1. /\ x < RowOf[session.cmd] => rows[x].status = "DONE"
        /\ x > RowOf[session.cmd] => rows[x].status = "BLOCKED"
    BY <1>2, <1>3, RowChain DEF FeatureInv, FilesAlwaysValid
  <2>2. x = RowOf[session.cmd] \/ x < RowOf[session.cmd] \/ x > RowOf[session.cmd]
    BY <1>2, RowNumbers
  <2> QED BY <1>2, <1>3, <2>1, <2>2, RowNumbers
<1> QED BY <1>1, <1>2, <1>3, <1>4

LEMMA FilesOfStages ==
    ASSUME NEW stage, NEW d \in RequiredFiles(stage)
    PROVE  d \in {"contract", "design", "review", "report"}
BY DEF RequiredFiles

\* A question that has an entry keeps it, one that is answered stays answered,
\* and rows stay complete.
LEMMA CompleteKept ==
    ASSUME FeatureTypeOK, UNCHANGED <<docs, card>>,
           \A q \in Questions : /\ questions[q] # "ABSENT" => questions'[q] # "ABSENT"
                                /\ Known(q) => Known(q)',
           NEW r \in FeatureRows, Complete(r)
    PROVE  Complete(r)'
<1>1. docs.contract.later \subseteq Questions
  BY DEF FeatureTypeOK, Documents, Contracts
<1>2. G2 => G2'
  BY <1>1 DEF G2, Whole, Exists
<1>3. G3 => G3'
  BY <1>1, <1>2 DEF G3, Designed, Whole, Exists, Current
<1>4. /\ Whole("code") /\ Current("code") => (Whole("code") /\ Current("code"))'
      /\ VerifiedPass => VerifiedPass'
      /\ ReviewedPass => ReviewedPass'
  BY DEF Whole, Current, Exists, VerifiedPass, ReviewedPass
<1>5. CASE r = 1
  BY <1>2, <1>5 DEF Complete
<1>6. CASE r = 2
  BY <1>3, <1>6 DEF Complete
<1>7. CASE r = 3
  BY <1>4, <1>7 DEF Complete
<1>8. CASE r = 4
  BY <1>4, <1>8 DEF Complete
<1> QED BY <1>5, <1>6, <1>7, <1>8, RowNumbers

\* with the rows as they were, none of them completes by such a step
LEMMA DoneKept ==
    ASSUME FeatureTypeOK, DoneInv, UNCHANGED <<docs, card>>,
           \A q \in Questions : /\ questions[q] # "ABSENT" => questions'[q] # "ABSENT"
                                /\ Known(q) => Known(q)',
           \A r \in FeatureRows : rows'[r].status = "DONE" => rows[r].status = "DONE"
    PROVE  DoneInv'
BY CompleteKept DEF DoneInv

LEMMA MetKept ==
    ASSUME FeatureTypeOK, MetInv, UNCHANGED <<docs, met>>,
           \A q \in Questions : Known(q) => Known(q)'
    PROVE  MetInv'
<1>1. \A r \in FeatureRows : met[r] \subseteq Questions
  BY DEF FeatureTypeOK
<1> QED BY <1>1 DEF MetInv, NeedsOf

LEMMA CardKept ==
    ASSUME FeatureTypeOK, CardValid, UNCHANGED <<docs, card>>,
           \A q \in Questions : questions[q] # "ABSENT" => questions'[q] # "ABSENT"
    PROVE  CardValid'
<1>1. card.refs \subseteq Questions
  BY DEF FeatureTypeOK
<1> QED BY <1>1 DEF CardValid, Registered, Exists, RequiredFiles

LEMMA BlockersKept ==
    ASSUME FeatureTypeOK, BlockersValid,
           \A r \in FeatureRows : rows'[r].blocker \subseteq rows[r].blocker,
           \A q \in Questions : questions[q] # "ABSENT" => questions'[q] # "ABSENT"
    PROVE  BlockersValid'
<1>1. \A r \in FeatureRows : rows[r].blocker \subseteq Questions \union {"G3.5"}
  BY DEF FeatureTypeOK
<1> QED BY <1>1 DEF BlockersValid, Registered

LEMMA ReportKept ==
    ASSUME ReportValid, ReportInv, ReviewInv,
           docs'.report = docs.report, docs'.review = docs.review,
           controlled \subseteq controlled'
    PROVE  ReportValid' /\ ReportInv' /\ ReviewInv'
BY DEF ReportValid, ReportInv, ReviewInv, ReviewedPass, Exists

\* the card says what it said, and no row loses its completion
LEMMA StageKept ==
    ASSUME StageInv, card'.stage = card.stage, rows' = rows
    PROVE  StageInv'
BY DEF StageInv

\* with the first rows done, only the last one is set
LEMMA StageKeptBySetRow ==
    ASSUME FeatureTypeOK, RowsValid, StageInv, UNCHANGED card,
           NEW r \in FeatureRows, rows[r].status # "DONE",
           NEW status, NEW blocker, SetRow(r, status, blocker)
    PROVE  StageInv'
<1> SUFFICES ASSUME card.stage = "done", NEW x \in 1 .. 3 PROVE rows'[x].status = "DONE"
  BY DEF StageInv
<1>1. \A y \in 1 .. 3 : rows[y].status = "DONE"
  BY DEF StageInv
<1>2. r = 4 /\ x \in FeatureRows /\ x < 4
  BY <1>1, RowNumbers DEF FeatureRows
<1>3. \A y \in FeatureRows : y < r => rows'[y] = rows[y]
  BY SetRowEffect
<1> QED BY <1>1, <1>2, <1>3

-----------------------------------------------------------------------------
(* Steps that leave the documents alone *)

\* setting a row to anything but DONE completes no row
LEMMA SetRowCompletesNone ==
    ASSUME FeatureTypeOK, RowsValid, NEW r \in FeatureRows, NEW status, NEW blocker,
           SetRow(r, status, blocker), status # "DONE"
    PROVE  \A x \in FeatureRows : rows'[x].status = "DONE" => rows[x].status = "DONE"
<1>1. /\ rows'[r] = [status |-> status, blocker |-> blocker]
      /\ \A x \in FeatureRows : x < r => rows'[x] = rows[x]
      /\ \A x \in FeatureRows : x > r => rows'[x].status = "BLOCKED"
  BY SetRowEffect
<1>2. \A x \in FeatureRows : x < r \/ x = r \/ x > r
  BY RowNumbers
<1> QED BY <1>1, <1>2

LEMMA BeginKeeps ==
    ASSUME FeatureInv, NEW c \in Commands, Begin(c)
    PROVE  FeatureInv'
<1> USE DEF FeatureInv, FilesAlwaysValid
<1> DEFINE r == RowOf[c]
<1>1. r \in FeatureRows
  BY RowNumbers DEF RowOf, Commands
<1>2. /\ SetRow(r, "IN_PROGRESS", {}) /\ rows[r].status \in {"TODO", "IN_PROGRESS"}
      /\ session' = [pc |-> "working", cmd |-> c, failed |-> {}] /\ Ready(c)
      /\ UNCHANGED <<card, docs, questions, config, controlled, met>>
  BY DEF Begin
<1> HIDE DEF r
<1>3. RowsValid' /\ rows' \in RowTable
  <2>1. rows[r].status # "BLOCKED" /\ {} \in SUBSET (Questions \union {"G3.5"})
    BY <1>2
  <2> QED BY <1>1, <1>2, <2>1, SetRowValid DEF RowTable
<1>4. /\ rows'[r] = [status |-> "IN_PROGRESS", blocker |-> {}]
      /\ \A x \in FeatureRows : x # r => rows'[x].blocker = rows[x].blocker
  BY <1>1, <1>2, SetRowEffect
<1>5. FeatureTypeOK'
  <2>1. session' \in Sessions
    BY <1>2 DEF Sessions
  <2> QED BY <1>2, <1>3, <2>1 DEF FeatureTypeOK, RowTable
<1>6. SessionInv'
  <2>1. c = "verify" => Exists("review")'
    BY <1>2 DEF Ready, NoFindings, Exists
  <2>2. session'.cmd = c /\ session'.pc = "working" /\ rows'[RowOf[c]].status = "IN_PROGRESS"
    BY <1>2, <1>4 DEF r
  <2> QED BY <2>1, <2>2 DEF SessionInv
<1>7. BlockersValid'
  <2>1. \A x \in FeatureRows : rows'[x].blocker \subseteq rows[x].blocker
    BY <1>4
  <2> QED BY <1>2, <2>1, BlockersKept
<1>8. DoneInv'
  <2>1. \A x \in FeatureRows : rows'[x].status = "DONE" => rows[x].status = "DONE"
    BY <1>1, <1>2, SetRowCompletesNone
  <2>2. \A q \in Questions : /\ questions[q] # "ABSENT" => questions'[q] # "ABSENT"
                             /\ Known(q) => Known(q)'
    BY <1>2 DEF Known
  <2> QED BY <1>2, <2>1, <2>2, DoneKept
<1>9. MetInv' /\ CardValid' /\ ReportValid' /\ ReportInv' /\ ReviewInv'
  BY <1>2, MetKept, CardKept, ReportKept DEF Known
<1>10. StageInv'
  BY <1>1, <1>2, StageKeptBySetRow
<1> QED BY <1>3, <1>5, <1>6, <1>7, <1>8, <1>9, <1>10

LEMMA PassControlKeeps ==
    ASSUME FeatureInv, PassControl
    PROVE  FeatureInv'
<1> USE DEF FeatureInv, FilesAlwaysValid
<1>1. /\ UNCHANGED <<card, docs, questions, rows, config, session, met>>
      /\ controlled' = controlled \union {config}
  BY DEF PassControl
<1>2. FeatureTypeOK'
  BY <1>1 DEF FeatureTypeOK
<1>3. RowsValid' /\ SessionInv'
  BY <1>1 DEF RowsValid, SessionInv, Registered, Exists
<1>4. BlockersValid' /\ DoneInv' /\ MetInv' /\ CardValid'
  BY <1>1, BlockersKept, DoneKept, MetKept, CardKept DEF Known
<1>5. ReportValid' /\ ReportInv' /\ ReviewInv' /\ StageInv'
  BY <1>1, ReportKept, StageKept
<1> QED BY <1>2, <1>3, <1>4, <1>5

\* a step after which no session runs, and which changes nothing but that
LEMMA QuietKeeps ==
    ASSUME FeatureInv, config' \in Configs, session' \in Sessions, SessionInv',
           UNCHANGED <<card, docs, questions, rows, controlled, met>>
    PROVE  FeatureInv'
<1> USE DEF FeatureInv, FilesAlwaysValid
<1>1. FeatureTypeOK'
  BY DEF FeatureTypeOK
<1>2. RowsValid'
  BY DEF RowsValid
<1>3. BlockersValid' /\ DoneInv' /\ MetInv' /\ CardValid'
  BY BlockersKept, DoneKept, MetKept, CardKept DEF Known
<1>4. ReportValid' /\ ReportInv' /\ ReviewInv' /\ StageInv'
  BY ReportKept, StageKept
<1> QED BY <1>1, <1>2, <1>3, <1>4

LEMMA FailControlKeeps ==
    ASSUME FeatureInv, FailControl
    PROVE  FeatureInv'
<1> USE DEF FeatureInv
<1>1. /\ session.pc = "working" /\ session' = [session EXCEPT !.failed = @ \union {config}]
      /\ UNCHANGED <<card, docs, questions, rows, config, controlled, met>>
  BY DEF FailControl
<1>2. session \in [pc : {"working"}, cmd : Commands, failed : SUBSET Configs]
  BY <1>1 DEF FeatureTypeOK, Sessions, NoSession
<1>3. session' \in [pc : {"working"}, cmd : Commands, failed : SUBSET Configs]
  BY <1>1, <1>2 DEF FeatureTypeOK
<1>4. session'.pc = "working" /\ session'.cmd = session.cmd /\ session # NoSession
  BY <1>1, <1>2 DEF NoSession
<1>5. session' \in Sessions /\ config' \in Configs
  BY <1>1, <1>3 DEF Sessions, FeatureTypeOK
<1>6. SessionInv'
  <2>1. /\ rows[RowOf[session.cmd]].status = "IN_PROGRESS"
        /\ session.cmd = "verify" => Exists("review")
    BY <1>4 DEF SessionInv
  <2> HIDE DEF FeatureInv
  <2> QED BY <1>1, <1>4, <2>1 DEF SessionInv, Exists
<1> HIDE DEF FeatureInv
<1> QED BY <1>1, <1>5, <1>6, QuietKeeps

LEMMA DieKeeps ==
    ASSUME FeatureInv, Die
    PROVE  FeatureInv'
<1>1. session' = NoSession /\ UNCHANGED <<card, docs, questions, rows, config, controlled, met>>
  BY DEF Die
<1>2. session' \in Sessions /\ SessionInv' /\ config' \in Configs
  BY <1>1 DEF Sessions, SessionInv, FeatureInv, FeatureTypeOK
<1> QED BY <1>1, <1>2, QuietKeeps

LEMMA ChangeConfigKeeps ==
    ASSUME FeatureInv, ChangeConfig
    PROVE  FeatureInv'
<1>1. config' \in Configs /\ UNCHANGED <<card, docs, questions, rows, controlled, session, met>>
  BY DEF ChangeConfig
<1>2. session' \in Sessions /\ SessionInv'
  BY <1>1 DEF SessionInv, Registered, Exists, FeatureInv, FeatureTypeOK
<1> QED BY <1>1, <1>2, QuietKeeps

LEMMA KeepKeeps ==
    ASSUME FeatureInv, Keep
    PROVE  FeatureInv'
<1> USE DEF FeatureInv, FilesAlwaysValid
<1> DEFINE d == DocOf[session.cmd]
           later == IF d = "contract" THEN docs.contract.later ELSE {}
<1>1. /\ session.pc = "working" /\ Whole(d)
      /\ session' = [pc |-> "written", cmd |-> session.cmd, open |-> {}, later |-> later]
      /\ UNCHANGED <<card, docs, questions, rows, config, controlled, met>>
  BY DEF Keep
<1>2. session # NoSession /\ session.cmd \in Commands
  BY <1>1, NoSessionIsNone DEF FeatureTypeOK
<1>3. later \subseteq Questions
  BY DEF FeatureTypeOK, Documents, Contracts
<1>4. session' \in Sessions /\ config' \in Configs
  <2> HIDE DEF later
  <2> QED BY <1>1, <1>2, <1>3 DEF Sessions, FeatureTypeOK
<1>5. SessionInv'
  <2>1. /\ rows[RowOf[session.cmd]].status = "IN_PROGRESS"
        /\ session.cmd = "verify" => Exists("review")
    BY <1>2 DEF SessionInv
  <2>2. Exists(d)
    BY <1>1 DEF Whole
  <2> HIDE DEF later
  <2> QED BY <1>1, <2>1, <2>2 DEF SessionInv, Exists
<1> QED BY <1>1, <1>4, <1>5, QuietKeeps

\* a step that adds or answers questions
LEMMA QuestionsKeep ==
    ASSUME FeatureInv, UNCHANGED <<card, docs, rows, config, controlled, met>>,
           questions' \in [Questions -> {"ABSENT", "OPEN", "CONFIRMED"}],
           \A q \in Questions : /\ questions[q] # "ABSENT" => questions'[q] # "ABSENT"
                                /\ Known(q) => Known(q)',
           session' \in Sessions, SessionInv'
    PROVE  FeatureInv'
<1> USE DEF FeatureInv, FilesAlwaysValid
<1>1. FeatureTypeOK'
  BY DEF FeatureTypeOK
<1>2. RowsValid'
  BY DEF RowsValid
<1>3. BlockersValid' /\ CardValid'
  BY BlockersKept, CardKept
<1>4. DoneInv' /\ MetInv'
  BY DoneKept, MetKept
<1>5. ReportValid' /\ ReportInv' /\ ReviewInv' /\ StageInv'
  BY ReportKept, StageKept
<1> QED BY <1>1, <1>2, <1>3, <1>4, <1>5

LEMMA RegisterKeeps ==
    ASSUME FeatureInv, Register
    PROVE  FeatureInv'
<1> USE DEF FeatureInv
<1>1. /\ session.pc = "written"
      /\ session' = [session EXCEPT !.pc = "registered"]
      /\ UNCHANGED <<card, docs, rows, config, controlled, met>>
      /\ questions' = [q \in Questions |->
            IF q \in session.open \union session.later /\ questions[q] = "ABSENT"
            THEN "OPEN" ELSE questions[q]]
  BY DEF Register
<1>2. session # NoSession /\ session.cmd \in Commands /\ session \in Sessions
  BY <1>1, NoSessionIsNone DEF FeatureTypeOK
<1>3. session \in [pc : {"written", "registered", "carded"}, cmd : Commands,
                   open : SUBSET Questions, later : SUBSET Questions]
  BY <1>1, <1>2 DEF Sessions, NoSession
<1>4. session' \in Sessions
  BY <1>1, <1>3 DEF Sessions
<1>5. /\ questions' \in [Questions -> {"ABSENT", "OPEN", "CONFIRMED"}]
      /\ \A q \in Questions : /\ questions[q] # "ABSENT" => questions'[q] # "ABSENT"
                              /\ Known(q) => Known(q)'
  BY <1>1 DEF FeatureTypeOK, Known
<1>6. SessionInv'
  <2>1. /\ session'.pc = "registered" /\ session'.cmd = session.cmd
        /\ session'.open = session.open /\ session'.later = session.later
    BY <1>1, <1>3
  <2>2. \A q \in session.open \union session.later : q \in Questions /\ questions'[q] # "ABSENT"
    BY <1>1, <1>3
  <2>3. /\ rows[RowOf[session.cmd]].status = "IN_PROGRESS"
        /\ session.cmd = "verify" => Exists("review")
        /\ Exists(DocOf[session.cmd]) /\ (session.open # {} => card.stage # "done")
    BY <1>1, <1>2 DEF SessionInv
  <2>4. rows' = rows /\ docs' = docs /\ card' = card
    BY <1>1
  <2> HIDE DEF FeatureInv
  <2> QED BY <2>1, <2>2, <2>3, <2>4 DEF SessionInv, Registered, Exists
<1> QED BY <1>1, <1>4, <1>5, <1>6, QuestionsKeep

LEMMA ResolveKeeps ==
    ASSUME FeatureInv, NEW q \in Questions, Resolve(q)
    PROVE  FeatureInv'
<1> USE DEF FeatureInv
<1>1. /\ questions' = [questions EXCEPT ![q] = "CONFIRMED"]
      /\ UNCHANGED <<card, docs, rows, config, controlled, session, met>>
  BY DEF Resolve
<1>2. /\ questions' \in [Questions -> {"ABSENT", "OPEN", "CONFIRMED"}]
      /\ \A x \in Questions : /\ questions[x] # "ABSENT" => questions'[x] # "ABSENT"
                              /\ Known(x) => Known(x)'
  BY <1>1 DEF FeatureTypeOK, Known
<1>3. session' \in Sessions
  BY <1>1 DEF FeatureTypeOK
<1>4. SessionInv'
  <2>1. session.pc \in {"registered", "carded"} =>
           session.open \subseteq Questions /\ session.later \subseteq Questions
    BY DEF FeatureTypeOK, Sessions, NoSession
  <2>2. rows' = rows /\ docs' = docs /\ card' = card /\ session' = session
    BY <1>1
  <2>3. session.pc \in {"registered", "carded"} /\ session # NoSession =>
           \A x \in (session.open \union session.later) \ {"G3.5"} : questions'[x] # "ABSENT"
    BY <1>2, <2>1 DEF SessionInv, Registered
  <2>4. SessionInv
    OBVIOUS
  <2> HIDE DEF FeatureInv
  <2> QED BY <2>2, <2>3, <2>4 DEF SessionInv, Registered, Exists
<1> QED BY <1>1, <1>2, <1>3, <1>4, QuestionsKeep

LEMMA UnblockCardKeeps ==
    ASSUME FeatureInv, UnblockCard
    PROVE  FeatureInv'
<1> USE DEF FeatureInv, FilesAlwaysValid
<1>1. /\ card' = [card EXCEPT !.blocked = FALSE] /\ session = NoSession
      /\ UNCHANGED <<docs, questions, rows, config, controlled, session, met>>
  BY DEF UnblockCard
<1>2. /\ card' \in [stage : Stages, blocked : BOOLEAN, refs : SUBSET Questions]
      /\ card'.stage = card.stage /\ card'.refs = card.refs /\ ~card'.blocked
  BY <1>1 DEF FeatureTypeOK
<1>3. FeatureTypeOK'
  BY <1>1, <1>2 DEF FeatureTypeOK
<1>4. RowsValid' /\ BlockersValid' /\ SessionInv'
  BY <1>1 DEF RowsValid, BlockersValid, Registered, SessionInv
<1>5. CardValid'
  BY <1>1, <1>2 DEF CardValid, Registered, Exists
<1>6. ReportValid' /\ ReportInv' /\ ReviewInv' /\ StageInv'
  BY <1>1, <1>2, ReportKept, StageKept
<1>7. DoneInv'
  BY <1>1, <1>2 DEF DoneInv, Complete, G2, G3, Designed, Whole, Exists, Current,
                    ReviewedPass, VerifiedPass, Known
<1>8. MetInv'
  BY <1>1, MetKept DEF Known
<1> QED BY <1>3, <1>4, <1>5, <1>6, <1>7, <1>8

LEMMA FinishStopKeeps ==
    ASSUME FeatureInv, NEW r \in FeatureRows, FinishStop(r)
    PROVE  FeatureInv'
<1> USE DEF FeatureInv, FilesAlwaysValid
<1> DEFINE blocker == {q \in card.refs : ~Known(q)}
                        \union (IF r = 2 /\ Unauthorized THEN {"G3.5"} ELSE {})
<1>1. /\ session = NoSession /\ rows[r].status = "IN_PROGRESS"
      /\ blocker # {} /\ SetRow(r, "BLOCKED", blocker)
      /\ UNCHANGED <<card, docs, questions, config, controlled, session, met>>
  BY DEF FinishStop
<1>2. blocker \subseteq card.refs \union {"G3.5"} /\ card.refs \subseteq Questions
  BY DEF FeatureTypeOK
<1> HIDE DEF blocker
<1>3. RowsValid' /\ rows' \in RowTable
  <2>1. rows[r].status # "BLOCKED" /\ blocker \in SUBSET (Questions \union {"G3.5"})
    BY <1>1, <1>2
  <2> QED BY <1>1, <2>1, SetRowValid DEF RowTable
<1>4. FeatureTypeOK'
  BY <1>1, <1>3 DEF FeatureTypeOK, RowTable
<1>5. SessionInv'
  BY <1>1 DEF SessionInv
<1>6. BlockersValid'
  <2>1. /\ rows'[r] = [status |-> "BLOCKED", blocker |-> blocker]
        /\ \A x \in FeatureRows : x # r => rows'[x].blocker = rows[x].blocker
    BY <1>1, SetRowEffect
  <2>2. Registered(blocker)
    BY <1>2 DEF CardValid, Registered
  <2> QED BY <1>1, <2>1, <2>2 DEF BlockersValid, Registered
<1>7. DoneInv'
  <2>1. \A x \in FeatureRows : rows'[x].status = "DONE" => rows[x].status = "DONE"
    BY <1>1, SetRowCompletesNone
  <2> QED BY <1>1, <2>1, DoneKept DEF Known
<1>8. MetInv' /\ CardValid' /\ ReportValid' /\ ReportInv' /\ ReviewInv'
  BY <1>1, MetKept, CardKept, ReportKept DEF Known
<1>9. StageInv'
  BY <1>1, StageKeptBySetRow
<1> QED BY <1>3, <1>4, <1>5, <1>6, <1>7, <1>8, <1>9

LEMMA UnblockRowKeeps ==
    ASSUME FeatureInv, NEW r \in FeatureRows, UnblockRow(r)
    PROVE  FeatureInv'
<1> USE DEF FeatureInv, FilesAlwaysValid
<1>1. /\ session = NoSession
      /\ UNCHANGED <<card, docs, questions, config, controlled, session, met>>
  BY DEF UnblockRow
<1>2. /\ RowsValid' /\ rows' \in RowTable
      /\ \A x \in FeatureRows : x # r => rows'[x] = rows[x]
      /\ rows'[r].blocker = {} /\ rows'[r].status \in {"TODO", "BLOCKED"}
      /\ rows[r].status = "BLOCKED"
  BY UnblockRowValid
<1>3. FeatureTypeOK'
  BY <1>1, <1>2 DEF FeatureTypeOK, RowTable
<1>4. SessionInv'
  BY <1>1 DEF SessionInv
<1>5. BlockersValid'
  <2>1. \A x \in FeatureRows : rows'[x].blocker \subseteq rows[x].blocker
    BY <1>2
  <2> QED BY <1>1, <2>1, BlockersKept
<1>6. DoneInv'
  <2>1. \A x \in FeatureRows : rows'[x].status = "DONE" => rows[x].status = "DONE"
    BY <1>2
  <2> QED BY <1>1, <2>1, DoneKept DEF Known
<1>7. MetInv' /\ CardValid' /\ ReportValid' /\ ReportInv' /\ ReviewInv'
  BY <1>1, MetKept, CardKept, ReportKept DEF Known
<1>8. StageInv'
  BY <1>1, <1>2 DEF StageInv, FeatureRows
<1> QED BY <1>2, <1>3, <1>4, <1>5, <1>6, <1>7, <1>8

LEMMA ReopenKeeps ==
    ASSUME FeatureInv, NEW r \in FeatureRows \ {4}, Reopen(r)
    PROVE  FeatureInv'
<1> USE DEF FeatureInv, FilesAlwaysValid
<1>1. /\ session = NoSession /\ rows[r].status = "DONE" /\ SetRow(r, "TODO", {})
      /\ card.stage # "done"
      /\ UNCHANGED <<card, docs, questions, config, controlled, session, met>>
      /\ r \in FeatureRows
  BY DEF Reopen
<1>2. RowsValid' /\ rows' \in RowTable
  <2>1. rows[r].status # "BLOCKED" /\ {} \in SUBSET (Questions \union {"G3.5"})
    BY <1>1
  <2> QED BY <1>1, <2>1, SetRowValid DEF RowTable
<1>3. FeatureTypeOK'
  BY <1>1, <1>2 DEF FeatureTypeOK, RowTable
<1>4. SessionInv'
  BY <1>1 DEF SessionInv
<1>5. BlockersValid'
  <2>1. \A x \in FeatureRows : rows'[x].blocker \subseteq rows[x].blocker
    <3>1. /\ rows'[r] = [status |-> "TODO", blocker |-> {}]
          /\ \A x \in FeatureRows : x # r => rows'[x].blocker = rows[x].blocker
      BY <1>1, SetRowEffect
    <3> QED BY <3>1
  <2> QED BY <1>1, <2>1, BlockersKept
<1>6. DoneInv'
  <2>1. \A x \in FeatureRows : rows'[x].status = "DONE" => rows[x].status = "DONE"
    BY <1>1, SetRowCompletesNone
  <2> QED BY <1>1, <2>1, DoneKept DEF Known
<1>7. MetInv' /\ CardValid' /\ ReportValid' /\ ReportInv' /\ ReviewInv'
  BY <1>1, MetKept, CardKept, ReportKept DEF Known
<1>8. StageInv'
  BY <1>1 DEF StageInv
<1> QED BY <1>2, <1>3, <1>4, <1>5, <1>6, <1>7, <1>8

\* the documents of a stage are there before the card names it
LEMMA StageHasFiles ==
    ASSUME FeatureInv, session # NoSession, session.pc = "registered",
           NEW d \in RequiredFiles(StageAfter(session.cmd))
    PROVE  Exists(d)
<1> USE DEF FeatureInv, FilesAlwaysValid
<1> DEFINE c == session.cmd
<1>1. c \in Commands /\ Exists(DocOf[c]) /\ (c = "verify" => Exists("review"))
  BY ClaimedRow DEF SessionInv
<1>2. \A x \in FeatureRows : x < RowOf[c] => Complete(x)
  BY ClaimedRow DEF DoneInv
<1>3. G2 => Exists("contract")
  BY DEF G2, Whole
<1>4. G3 => Exists("contract") /\ Exists("design")
  BY DEF G3, G2, Designed, Whole
<1>5. RowOf[c] > 2 => Exists("contract") /\ Exists("design")
  BY <1>2, <1>4, RowNumbers DEF Complete
<1>6. \A x \in RequiredFiles(card.stage) : Exists(x)
  BY DEF CardValid
<1>7. CASE c = "spec"
  BY <1>3, <1>6, <1>7 DEF StageAfter, RequiredFiles
<1>8. CASE c = "design"
  BY <1>4, <1>6, <1>8 DEF StageAfter, RequiredFiles
<1>9. CASE c = "implement"
  BY <1>5, <1>9 DEF StageAfter, RequiredFiles, RowOf
<1>10. CASE c = "review"
  BY <1>1, <1>5, <1>10 DEF StageAfter, RequiredFiles, RowOf, DocOf
<1>11. CASE c = "verify"
  BY <1>1, <1>5, <1>11 DEF StageAfter, RequiredFiles, RowOf, DocOf
<1> QED BY <1>1, <1>7, <1>8, <1>9, <1>10, <1>11 DEF Commands

LEMMA UpdateCardKeeps ==
    ASSUME FeatureInv, UpdateCard
    PROVE  FeatureInv'
<1> USE DEF FeatureInv, FilesAlwaysValid
<1> DEFINE stage == IF session.open # {} THEN card.stage ELSE StageAfter(session.cmd)
           refs == card.refs \union session.open \union session.later
           blocked == session.open # {} \/ GateFails(session.cmd)
<1>1. /\ session.pc = "registered"
      /\ card' = [stage |-> stage, blocked |-> blocked, refs |-> refs]
      /\ session' = [session EXCEPT !.pc = "carded"]
      /\ UNCHANGED <<docs, questions, rows, config, controlled, met>>
  BY DEF UpdateCard
<1>2. session # NoSession /\ session.cmd \in Commands /\ session \in Sessions
  BY <1>1, NoSessionIsNone DEF FeatureTypeOK
<1>3. session \in [pc : {"written", "registered", "carded"}, cmd : Commands,
                   open : SUBSET Questions, later : SUBSET Questions]
  BY <1>1, <1>2 DEF Sessions, NoSession
<1>4. /\ session' \in Sessions
      /\ session'.pc = "carded" /\ session'.cmd = session.cmd
      /\ session'.open = session.open /\ session'.later = session.later
  BY <1>1, <1>3 DEF Sessions
<1>5. stage \in Stages
  BY <1>2 DEF StageAfter, Stages, Commands, FeatureTypeOK
<1>6. refs \subseteq Questions
  BY <1>3 DEF FeatureTypeOK
<1>7. Registered(refs)
  <2>1. Registered(card.refs) /\ Registered(session.open \union session.later)
    BY <1>1, <1>2 DEF CardValid, SessionInv
  <2> QED BY <2>1 DEF Registered
<1>8. \A d \in RequiredFiles(stage) : Exists(d)
  BY <1>1, <1>2, StageHasFiles DEF CardValid
<1>9. session.open # {} => stage # "done"
  BY <1>1, <1>2 DEF SessionInv
<1>b. stage = "done" => card.stage = "done" \/ session.cmd = "verify"
  BY <1>2 DEF StageAfter, Commands
<1>c. stage = "done" => session.cmd \in {"review", "verify"}
  <2>1. card.stage = "done" => RowOf[session.cmd] = 4
    BY <1>2, ClaimedRow, RowNumbers DEF StageInv, FeatureRows
  <2>2. RowOf[session.cmd] = 4 => session.cmd \in {"review", "verify"}
    BY <1>2 DEF RowOf, Commands
  <2> QED BY <1>b, <2>1, <2>2
<1>d. blocked \in BOOLEAN /\ (session.open # {} => blocked) /\ (blocked => stage # "done")
  <2>1. GateFails(session.cmd) => session.cmd \in {"spec", "design"}
    BY DEF GateFails
  <2> QED BY <1>9, <1>c, <2>1
<1> HIDE DEF stage, refs, blocked
<1>10. /\ card'.stage = stage /\ card'.refs = refs /\ card'.blocked = blocked
       /\ card' \in [stage : Stages, blocked : BOOLEAN, refs : SUBSET Questions]
  BY <1>1, <1>5, <1>6, <1>d
<1>11. FeatureTypeOK'
  BY <1>1, <1>4, <1>10 DEF FeatureTypeOK
<1>12. CardValid'
  <2>1. \A d \in RequiredFiles(stage) : docs'[d].rev > 0
    BY <1>1, <1>8 DEF Exists
  <2>2. \A q \in refs \ {"G3.5"} : questions'[q] # "ABSENT"
    BY <1>1, <1>7 DEF Registered
  <2> HIDE DEF FeatureInv, FilesAlwaysValid
  <2> QED BY <1>10, <1>d, <2>1, <2>2 DEF CardValid, Registered, Exists
<1>13. RowsValid' /\ BlockersValid'
  BY <1>1 DEF RowsValid, BlockersValid, Registered
<1>14. SessionInv'
  <2>1. /\ rows[RowOf[session.cmd]].status = "IN_PROGRESS"
        /\ session.cmd = "verify" => Exists("review")
        /\ Exists(DocOf[session.cmd])
        /\ Registered(session.open \union session.later)
    BY <1>1, <1>2 DEF SessionInv
  <2>2. rows' = rows /\ docs' = docs /\ questions' = questions
    BY <1>1
  <2> HIDE DEF FeatureInv, FilesAlwaysValid
  <2> QED BY <1>4, <1>9, <1>10, <1>d, <2>1, <2>2 DEF SessionInv, Registered, Exists
<1>15. DoneInv'
  <2>1. \A x \in FeatureRows : rows[x].status = "DONE" => x # 4 /\ Complete(x)
    <3>1. RowOf[session.cmd] \in FeatureRows
      BY <1>2, ClaimedRow
    <3> QED BY <1>2, <3>1, ClaimedRow, RowNumbers DEF DoneInv
  <2>2. docs' = docs /\ questions' = questions /\ rows' = rows
    BY <1>1
  <2>3. \A x \in FeatureRows \ {4} : Complete(x) => Complete(x)'
    <3>1. G2 => G2'
      BY <2>2 DEF G2, Whole, Exists
    <3>2. G3 => G3'
      BY <2>2, <3>1 DEF G3, Designed, Whole, Exists, Current, Known
    <3>3. Whole("code") /\ Current("code") => (Whole("code") /\ Current("code"))'
      BY <2>2 DEF Whole, Exists, Current
    <3>4. /\ Complete(1) => Complete(1)'
          /\ Complete(2) => Complete(2)'
          /\ Complete(3) => Complete(3)'
      BY <3>1, <3>2, <3>3 DEF Complete
    <3> QED BY <3>4, RowNumbers
  <2> QED BY <2>1, <2>2, <2>3 DEF DoneInv
<1>16. MetInv' /\ ReportValid' /\ ReportInv' /\ ReviewInv'
  BY <1>1, MetKept, ReportKept DEF Known
<1>17. StageInv'
  <2>1. stage = "done" => RowOf[session.cmd] = 4
    BY <1>c DEF RowOf
  <2>2. RowOf[session.cmd] = 4 => \A x \in 1 .. 3 : rows[x].status = "DONE"
    BY <1>2, ClaimedRow DEF FeatureRows
  <2> QED BY <1>1, <1>10, <2>1, <2>2 DEF StageInv
<1> QED BY <1>11, <1>12, <1>13, <1>14, <1>15, <1>16, <1>17

LEMMA UpdateRowKeeps ==
    ASSUME FeatureInv, UpdateRow
    PROVE  FeatureInv'
<1> USE DEF FeatureInv, FilesAlwaysValid
<1> DEFINE r == RowOf[session.cmd]
<1>1. /\ session.pc = "carded" /\ session' = NoSession
      /\ UNCHANGED <<card, docs, questions, config, controlled, met>>
  BY DEF UpdateRow
<1>2. session # NoSession /\ session \in Sessions
  BY <1>1, NoSessionIsNone DEF FeatureTypeOK
<1>3. r \in FeatureRows /\ rows[r].status = "IN_PROGRESS"
  BY <1>2, ClaimedRow
<1>4. session.open \subseteq Questions /\ Registered(session.open)
  <2>1. session.open \subseteq Questions
    BY <1>1, <1>2 DEF Sessions, NoSession
  <2>2. Registered(session.open \union session.later)
    BY <1>1, <1>2 DEF SessionInv
  <2> QED BY <2>1, <2>2 DEF Registered
<1>5. \/ session.open # {} /\ SetRow(r, "BLOCKED", session.open)
      \/ Complete(r) /\ SetRow(r, "DONE", {})
      \/ SetRow(r, "BLOCKED", {"G3.5"})
      \/ UNCHANGED rows
  BY DEF UpdateRow
<1> HIDE DEF r
<1>6. CASE UNCHANGED rows
  <2>1. session' \in Sessions /\ SessionInv' /\ config' \in Configs
    BY <1>1 DEF Sessions, SessionInv, FeatureTypeOK
  <2> QED BY <1>1, <1>6, <2>1, QuietKeeps
<1>7. ASSUME NEW status \in {"BLOCKED", "DONE"},
             NEW blocker \in SUBSET (Questions \union {"G3.5"}), Registered(blocker),
             status = "BLOCKED" <=> blocker # {}, status = "DONE" => Complete(r),
             SetRow(r, status, blocker)
      PROVE  FeatureInv'
  <2>1. RowsValid' /\ rows' \in RowTable
    <3>1. rows[r].status # "BLOCKED" /\ (status = "DONE" => rows[r].status # "DONE")
      BY <1>3
    <3>2. status \in {"TODO", "IN_PROGRESS", "BLOCKED", "DONE"}
      OBVIOUS
    <3> QED BY <1>3, <1>7, <3>1, <3>2, SetRowValid DEF RowTable
  <2>2. FeatureTypeOK'
    BY <1>1, <2>1 DEF FeatureTypeOK, RowTable, Sessions
  <2>3. /\ rows'[r] = [status |-> status, blocker |-> blocker]
        /\ \A x \in FeatureRows : x # r => rows'[x].blocker = rows[x].blocker
        /\ \A x \in FeatureRows : x < r => rows'[x] = rows[x]
        /\ \A x \in FeatureRows : x > r =>
              IF status # "DONE" THEN rows'[x].status = "BLOCKED"
              ELSE IF x = r + 1 /\ rows[x].blocker = {} THEN rows'[x].status = "TODO"
              ELSE rows'[x] = rows[x]
    BY <1>3, <1>7, SetRowEffect
  <2>4. BlockersValid'
    BY <1>1, <1>7, <2>3 DEF BlockersValid, Registered
  <2>5. DoneInv'
    <3>1. \A x \in FeatureRows : x > r => rows[x].status = "BLOCKED"
      BY <1>3, RowChain
    <3>2. \A x \in FeatureRows : x < r \/ x = r \/ x > r
      BY <1>3, RowNumbers
    <3>3. \A x \in FeatureRows : rows'[x].status = "DONE" => Complete(x)
      BY <1>3, <1>7, <2>3, <3>1, <3>2 DEF DoneInv
    <3>4. \A x \in FeatureRows : Complete(x) => Complete(x)'
      BY <1>1, CompleteKept DEF Known
    <3> QED BY <3>3, <3>4 DEF DoneInv
  <2>6. SessionInv'
    BY <1>1 DEF SessionInv
  <2>7. MetInv' /\ CardValid' /\ ReportValid' /\ ReportInv' /\ ReviewInv'
    BY <1>1, MetKept, CardKept, ReportKept DEF Known
  <2>8. StageInv'
    BY <1>1, <1>3, <1>7, StageKeptBySetRow
  <2> QED BY <2>1, <2>2, <2>4, <2>5, <2>6, <2>7, <2>8
<1>8. CASE session.open # {} /\ SetRow(r, "BLOCKED", session.open)
  <2>1. session.open \in SUBSET (Questions \union {"G3.5"})
    BY <1>4
  <2> HIDE DEF FeatureInv
  <2> QED BY <1>4, <1>7, <1>8, <2>1
<1>9. CASE Complete(r) /\ SetRow(r, "DONE", {})
  <2>1. Registered({}) /\ {} \in SUBSET (Questions \union {"G3.5"})
    BY DEF Registered
  <2> HIDE DEF FeatureInv
  <2> QED BY <1>7, <1>9, <2>1
<1>10. CASE SetRow(r, "BLOCKED", {"G3.5"})
  <2>1. Registered({"G3.5"}) /\ {"G3.5"} \in SUBSET (Questions \union {"G3.5"})
    BY DEF Registered
  <2>2. {"G3.5"} # {}
    OBVIOUS
  <2> HIDE DEF FeatureInv
  <2> QED BY <1>7, <1>10, <2>1, <2>2
<1> HIDE DEF FeatureInv
<1> QED BY <1>5, <1>6, <1>8, <1>9, <1>10

-----------------------------------------------------------------------------
(* Steps that write a document *)

Names == {"contract", "design", "code", "review", "report"}

LEMMA DocNames ==
    /\ \A c \in Commands : DocOf[c] \in Names
    /\ \A stage \in Stages : RequiredFiles(stage) \subseteq Names
BY DEF Names, DocOf, Commands, RequiredFiles

\* A document that is written completes no row and takes none of the rows
\* before the session's own its completion.
LEMMA WriteKeeps ==
    ASSUME FeatureInv, FeatureTypeOK', UNCHANGED <<card, questions, rows, config, controlled>>,
           session.pc = "working", card.stage # "done",
           NEW open, NEW later,
           session' = [pc |-> "written", cmd |-> session.cmd, open |-> open, later |-> later],
           \A d \in Names : Exists(d) \/ d = DocOf[session.cmd] => docs'[d].rev > 0,
           \A x \in FeatureRows : x < RowOf[session.cmd] /\ Complete(x) => Complete(x)',
           MetInv', ReportValid', ReportInv', ReviewInv'
    PROVE  FeatureInv'
<1> USE DEF FeatureInv, FilesAlwaysValid
<1>1. session # NoSession /\ session.cmd \in Commands
  BY NoSessionIsNone DEF FeatureTypeOK
<1>2. RowsValid' /\ BlockersValid'
  BY DEF RowsValid, BlockersValid, Registered
<1>3. CardValid'
  <2>1. \A d \in RequiredFiles(card.stage) : d \in Names /\ Exists(d)
    BY DocNames DEF CardValid, FeatureTypeOK
  <2>2. \A d \in RequiredFiles(card.stage) : docs'[d].rev > 0
    BY <2>1
  <2>3. card' = card /\ questions' = questions /\ CardValid
    OBVIOUS
  <2> HIDE DEF FeatureInv, FilesAlwaysValid
  <2> QED BY <2>2, <2>3 DEF CardValid, Registered, Exists
<1>4. SessionInv'
  <2>1. /\ rows[RowOf[session.cmd]].status = "IN_PROGRESS"
        /\ session.cmd = "verify" => Exists("review")
    BY <1>1 DEF SessionInv
  <2>2. docs'[DocOf[session.cmd]].rev > 0
    BY <1>1, DocNames
  <2>3. session.cmd = "verify" => docs'["review"].rev > 0
    BY <2>1 DEF Names
  <2>4. card' = card /\ rows' = rows
    OBVIOUS
  <2> HIDE DEF FeatureInv, FilesAlwaysValid
  <2> QED BY <2>1, <2>2, <2>3, <2>4 DEF SessionInv, Exists
<1>5. DoneInv'
  <2>1. \A x \in FeatureRows : rows[x].status = "DONE" => x < RowOf[session.cmd] /\ Complete(x)
    BY <1>1, ClaimedRow DEF DoneInv
  <2> QED BY <2>1 DEF DoneInv
<1>6. StageInv'
  BY StageKept
<1> QED BY <1>2, <1>3, <1>4, <1>5, <1>6

\* which documents a row's completion is read from
LEMMA CompleteReads ==
    ASSUME UNCHANGED <<card, questions>>, docs'.contract = docs.contract
    PROVE  /\ Complete(1) => Complete(1)'
           /\ docs'.design = docs.design => (Complete(2) => Complete(2)')
           /\ docs'.design = docs.design /\ docs'.code = docs.code =>
                 (Complete(3) => Complete(3)')
<1>1. G2 => G2'
  BY DEF G2, Whole, Exists
<1>2. docs'.design = docs.design => (G3 => G3')
  BY <1>1 DEF G3, Designed, Whole, Exists, Current, Known
<1>3. docs'.design = docs.design /\ docs'.code = docs.code =>
        (Whole("code") /\ Current("code") => (Whole("code") /\ Current("code"))')
  BY DEF Whole, Exists, Current
<1> QED BY <1>1, <1>2, <1>3 DEF Complete

LEMMA WriteContractKeeps ==
    ASSUME FeatureInv, NEW found \in SUBSET Unknown, NEW later \in SUBSET Unknown,
           WriteContract(found, later)
    PROVE  FeatureInv'
<1>1. FeatureTypeOK /\ docs \in Documents /\ MetInv /\ ReportValid /\ ReportInv /\ ReviewInv
  BY DEF FeatureInv, FilesAlwaysValid, FeatureTypeOK
<1>2. /\ FeatureTypeOK' /\ UNCHANGED <<card, questions, rows, config, controlled>>
      /\ session.pc = "working" /\ session.cmd = "spec" /\ card.stage # "done"
      /\ docs'.contract.rev \in Nat \ {0}
  BY <1>1, ContractWritten
<1>3. PICK tracked \in SUBSET Questions :
         /\ tracked = {q \in docs.contract.later \union later : ~Known(q)}
         /\ docs' = [docs EXCEPT !.contract =
                       [rev |-> docs.contract.rev + 1, needs |-> Needs("contract", found),
                        later |-> tracked]]
         /\ session' = [pc |-> "written", cmd |-> "spec",
                        open |-> Needs("contract", found), later |-> tracked]
         /\ met' = [met EXCEPT ![1] = @ \union found, ![2] = @ \union tracked]
  BY <1>1, ContractWritten
<1>4. /\ docs'.contract.needs = Needs("contract", found) /\ docs'.contract.later = tracked
      /\ docs'.design = docs.design /\ docs'.code = docs.code
      /\ docs'.review = docs.review /\ docs'.report = docs.report
  BY <1>1, <1>3 DEF Documents
<1>5. \A d \in Names : Exists(d) \/ d = DocOf[session.cmd] => docs'[d].rev > 0
  BY <1>2, <1>4 DEF Names, Exists, DocOf
<1>6. \A x \in FeatureRows : x < RowOf[session.cmd] /\ Complete(x) => Complete(x)'
  BY <1>2, RowNumbers DEF RowOf
<1>7. MetInv'
  <2>1. met \in [FeatureRows -> SUBSET Questions]
    BY <1>1 DEF FeatureTypeOK
  <2>2. /\ met'[1] = met[1] \union found /\ met'[2] = met[2] \union tracked
        /\ met'[3] = met[3] /\ met'[4] = met[4]
    BY <1>3, <2>1, RowNumbers
  <2>3. /\ \A q \in met[1] : Known(q) \/ q \in docs.contract.needs
        /\ \A q \in met[2] : Known(q) \/ q \in docs.design.needs \union docs.contract.later
        /\ \A q \in met[3] : Known(q) \/ q \in docs.code.needs
        /\ \A q \in met[4] : Known(q) \/ q \in docs.review.needs \union docs.report.needs
    BY <1>1, RowNumbers DEF MetInv, NeedsOf
  <2>4. \A q : Known(q)' <=> Known(q)
    BY <1>2 DEF Known
  <2>5. \A q \in docs.contract.needs \union found : Known(q) \/ q \in Needs("contract", found)
    BY DEF Needs
  <2>6. \A q \in docs.contract.later : Known(q) \/ q \in tracked
    BY <1>3
  <2>7. /\ \A q \in met'[1] : Known(q)' \/ q \in docs'.contract.needs
        /\ \A q \in met'[2] : Known(q)' \/ q \in docs'.design.needs \union docs'.contract.later
        /\ \A q \in met'[3] : Known(q)' \/ q \in docs'.code.needs
        /\ \A q \in met'[4] : Known(q)' \/ q \in docs'.review.needs \union docs'.report.needs
    BY <1>4, <2>2, <2>3, <2>4, <2>5, <2>6
  <2> QED BY <2>7, RowNumbers DEF MetInv, NeedsOf
<1>8. ReportValid' /\ ReportInv' /\ ReviewInv'
  BY <1>1, <1>2, <1>4, ReportKept
<1> QED BY <1>2, <1>3, <1>5, <1>6, <1>7, <1>8, WriteKeeps

LEMMA WriteDesignKeeps ==
    ASSUME FeatureInv, NEW found \in SUBSET Unknown, WriteDesign(found)
    PROVE  FeatureInv'
<1> DEFINE needs == Needs("design", found \union docs.contract.later)
<1>1. FeatureTypeOK /\ docs \in Documents /\ MetInv /\ ReportValid /\ ReportInv /\ ReviewInv
  BY DEF FeatureInv, FilesAlwaysValid, FeatureTypeOK
<1>2. /\ FeatureTypeOK' /\ UNCHANGED <<card, questions, rows, config, controlled>>
      /\ session.pc = "working" /\ session.cmd = "design" /\ card.stage # "done"
      /\ docs'.design.rev \in Nat \ {0}
      /\ docs' = [docs EXCEPT !.design =
                    [rev |-> docs.design.rev + 1, needs |-> needs,
                     contract |-> docs.contract.rev, authorized |-> FALSE]]
      /\ session' = [pc |-> "written", cmd |-> "design", open |-> needs, later |-> {}]
      /\ met' = [met EXCEPT ![2] = @ \union found]
  BY <1>1, DesignWritten
<1>3. \A q \in docs.design.needs \union found : Known(q) \/ q \in needs
  BY DEF Needs
<1> HIDE DEF needs
<1>4. /\ docs'.design.needs = needs
      /\ docs'.contract = docs.contract /\ docs'.code = docs.code
      /\ docs'.review = docs.review /\ docs'.report = docs.report
  BY <1>1, <1>2 DEF Documents
<1>5. \A d \in Names : Exists(d) \/ d = DocOf[session.cmd] => docs'[d].rev > 0
  <2>1. DocOf[session.cmd] = "design" /\ docs'["design"].rev > 0
    BY <1>2 DEF DocOf
  <2>2. \A d \in Names : d # "design" => docs'[d] = docs[d]
    BY <1>4 DEF Names
  <2> QED BY <2>1, <2>2 DEF Exists
<1>6. \A x \in FeatureRows : x < RowOf[session.cmd] /\ Complete(x) => Complete(x)'
  <2>1. RowOf[session.cmd] = 2
    BY <1>2 DEF RowOf
  <2>2. Complete(1) => Complete(1)'
    BY <1>2, <1>4, CompleteReads
  <2> QED BY <2>1, <2>2, RowNumbers
<1>7. MetInv'
  <2>1. met \in [FeatureRows -> SUBSET Questions]
    BY <1>1 DEF FeatureTypeOK
  <2>2. /\ met'[2] = met[2] \union found
        /\ met'[1] = met[1] /\ met'[3] = met[3] /\ met'[4] = met[4]
    BY <1>2, <2>1, RowNumbers
  <2>3. /\ \A q \in met[1] : Known(q) \/ q \in docs.contract.needs
        /\ \A q \in met[2] : Known(q) \/ q \in docs.design.needs \union docs.contract.later
        /\ \A q \in met[3] : Known(q) \/ q \in docs.code.needs
        /\ \A q \in met[4] : Known(q) \/ q \in docs.review.needs \union docs.report.needs
    BY <1>1, RowNumbers DEF MetInv, NeedsOf
  <2>4. \A q : Known(q)' <=> Known(q)
    BY <1>2 DEF Known
  <2>5. /\ \A q \in met'[1] : Known(q)' \/ q \in docs'.contract.needs
        /\ \A q \in met'[2] : Known(q)' \/ q \in docs'.design.needs \union docs'.contract.later
        /\ \A q \in met'[3] : Known(q)' \/ q \in docs'.code.needs
        /\ \A q \in met'[4] : Known(q)' \/ q \in docs'.review.needs \union docs'.report.needs
    BY <1>3, <1>4, <2>2, <2>3, <2>4
  <2> QED BY <2>5, RowNumbers DEF MetInv, NeedsOf
<1>8. ReportValid' /\ ReportInv' /\ ReviewInv'
  BY <1>1, <1>2, <1>4, ReportKept
<1> QED BY <1>2, <1>5, <1>6, <1>7, <1>8, WriteKeeps

LEMMA WriteCodeKeeps ==
    ASSUME FeatureInv, NEW found \in SUBSET Unknown, WriteCode(found)
    PROVE  FeatureInv'
<1> DEFINE needs == Needs("code", found)
<1>1. FeatureTypeOK /\ docs \in Documents /\ MetInv /\ ReportValid /\ ReportInv /\ ReviewInv
  BY DEF FeatureInv, FilesAlwaysValid, FeatureTypeOK
<1>2. /\ FeatureTypeOK' /\ UNCHANGED <<card, questions, rows, config, controlled>>
      /\ session.pc = "working" /\ session.cmd = "implement" /\ card.stage # "done"
      /\ docs'.code.rev \in Nat \ {0}
      /\ docs' = [docs EXCEPT !.code =
                    [rev |-> docs.code.rev + 1, needs |-> needs, design |-> docs.design.rev]]
      /\ session' = [pc |-> "written", cmd |-> "implement", open |-> needs, later |-> {}]
      /\ met' = [met EXCEPT ![3] = @ \union found]
  BY <1>1, CodeWritten
<1>3. \A q \in docs.code.needs \union found : Known(q) \/ q \in needs
  BY DEF Needs
<1> HIDE DEF needs
<1>4. /\ docs'.code.needs = needs
      /\ docs'.contract = docs.contract /\ docs'.design = docs.design
      /\ docs'.review = docs.review /\ docs'.report = docs.report
  BY <1>1, <1>2 DEF Documents
<1>5. \A d \in Names : Exists(d) \/ d = DocOf[session.cmd] => docs'[d].rev > 0
  <2>1. DocOf[session.cmd] = "code" /\ docs'["code"].rev > 0
    BY <1>2 DEF DocOf
  <2>2. \A d \in Names : d # "code" => docs'[d] = docs[d]
    BY <1>4 DEF Names
  <2> QED BY <2>1, <2>2 DEF Exists
<1>6. \A x \in FeatureRows : x < RowOf[session.cmd] /\ Complete(x) => Complete(x)'
  <2>1. RowOf[session.cmd] = 3
    BY <1>2 DEF RowOf
  <2>2. (Complete(1) => Complete(1)') /\ (Complete(2) => Complete(2)')
    BY <1>2, <1>4, CompleteReads
  <2> QED BY <2>1, <2>2, RowNumbers
<1>7. MetInv'
  <2>1. met \in [FeatureRows -> SUBSET Questions]
    BY <1>1 DEF FeatureTypeOK
  <2>2. /\ met'[3] = met[3] \union found
        /\ met'[1] = met[1] /\ met'[2] = met[2] /\ met'[4] = met[4]
    BY <1>2, <2>1, RowNumbers
  <2>3. /\ \A q \in met[1] : Known(q) \/ q \in docs.contract.needs
        /\ \A q \in met[2] : Known(q) \/ q \in docs.design.needs \union docs.contract.later
        /\ \A q \in met[3] : Known(q) \/ q \in docs.code.needs
        /\ \A q \in met[4] : Known(q) \/ q \in docs.review.needs \union docs.report.needs
    BY <1>1, RowNumbers DEF MetInv, NeedsOf
  <2>4. \A q : Known(q)' <=> Known(q)
    BY <1>2 DEF Known
  <2>5. /\ \A q \in met'[1] : Known(q)' \/ q \in docs'.contract.needs
        /\ \A q \in met'[2] : Known(q)' \/ q \in docs'.design.needs \union docs'.contract.later
        /\ \A q \in met'[3] : Known(q)' \/ q \in docs'.code.needs
        /\ \A q \in met'[4] : Known(q)' \/ q \in docs'.review.needs \union docs'.report.needs
    BY <1>3, <1>4, <2>2, <2>3, <2>4
  <2> QED BY <2>5, RowNumbers DEF MetInv, NeedsOf
<1>8. ReportValid' /\ ReportInv' /\ ReviewInv'
  BY <1>1, <1>2, <1>4, ReportKept
<1> QED BY <1>2, <1>5, <1>6, <1>7, <1>8, WriteKeeps

LEMMA WriteReviewKeeps ==
    ASSUME FeatureInv, NEW findings \in BOOLEAN, NEW found \in SUBSET Unknown,
           WriteReview(findings, found)
    PROVE  FeatureInv'
<1> DEFINE needs == Needs("review", found)
           review == docs'.review
<1>1. FeatureTypeOK /\ docs \in Documents /\ MetInv /\ ReportValid /\ ReportInv /\ ReviewInv
  BY DEF FeatureInv, FilesAlwaysValid, FeatureTypeOK
<1>2. /\ FeatureTypeOK' /\ UNCHANGED <<card, questions, rows, config, controlled>>
      /\ session.pc = "working" /\ session.cmd = "review" /\ card.stage # "done"
      /\ docs' = [docs EXCEPT !.review = review]
      /\ review.needs = needs /\ review.rev = 1
      /\ review.verdict = "PASS" => review.needs = {}
      /\ session' = [pc |-> "written", cmd |-> "review", open |-> needs, later |-> {}]
      /\ met' = [met EXCEPT ![4] = @ \union found]
  BY <1>1, ReviewWritten
<1>3. \A q \in docs.review.needs \union found : Known(q) \/ q \in needs
  BY DEF Needs
<1> HIDE DEF needs
<1>4. /\ docs'.contract = docs.contract /\ docs'.design = docs.design
      /\ docs'.code = docs.code /\ docs'.report = docs.report
  BY <1>1, <1>2 DEF Documents
<1>5. \A d \in Names : Exists(d) \/ d = DocOf[session.cmd] => docs'[d].rev > 0
  <2>1. DocOf[session.cmd] = "review" /\ docs'["review"].rev > 0
    BY <1>2 DEF DocOf
  <2>2. \A d \in Names : d # "review" => docs'[d] = docs[d]
    BY <1>4 DEF Names
  <2> QED BY <2>1, <2>2 DEF Exists
<1>6. \A x \in FeatureRows : x < RowOf[session.cmd] /\ Complete(x) => Complete(x)'
  <2>1. RowOf[session.cmd] = 4
    BY <1>2 DEF RowOf
  <2>2. /\ Complete(1) => Complete(1)'
        /\ Complete(2) => Complete(2)'
        /\ Complete(3) => Complete(3)'
    BY <1>2, <1>4, CompleteReads
  <2> QED BY <2>1, <2>2, RowNumbers
<1>7. MetInv'
  <2>1. met \in [FeatureRows -> SUBSET Questions]
    BY <1>1 DEF FeatureTypeOK
  <2>2. /\ met'[4] = met[4] \union found
        /\ met'[1] = met[1] /\ met'[2] = met[2] /\ met'[3] = met[3]
    BY <1>2, <2>1, RowNumbers
  <2>3. /\ \A q \in met[1] : Known(q) \/ q \in docs.contract.needs
        /\ \A q \in met[2] : Known(q) \/ q \in docs.design.needs \union docs.contract.later
        /\ \A q \in met[3] : Known(q) \/ q \in docs.code.needs
        /\ \A q \in met[4] : Known(q) \/ q \in docs.review.needs \union docs.report.needs
    BY <1>1, RowNumbers DEF MetInv, NeedsOf
  <2>4. \A q : Known(q)' <=> Known(q)
    BY <1>2 DEF Known
  <2>5. /\ \A q \in met'[1] : Known(q)' \/ q \in docs'.contract.needs
        /\ \A q \in met'[2] : Known(q)' \/ q \in docs'.design.needs \union docs'.contract.later
        /\ \A q \in met'[3] : Known(q)' \/ q \in docs'.code.needs
        /\ \A q \in met'[4] : Known(q)' \/ q \in docs'.review.needs \union docs'.report.needs
    BY <1>2, <1>3, <1>4, <2>2, <2>3, <2>4
  <2> QED BY <2>5, RowNumbers DEF MetInv, NeedsOf
<1>8. ReportValid' /\ ReportInv' /\ ReviewInv'
  <2>1. ReviewInv'
    BY <1>2 DEF ReviewInv, ReviewedPass
  <2>2. ReportValid' /\ ReportInv'
    BY <1>1, <1>2, <1>4 DEF ReportValid, ReportInv, Exists
  <2> QED BY <2>1, <2>2
<1> QED BY <1>2, <1>5, <1>6, <1>7, <1>8, WriteKeeps

LEMMA WriteReportKeeps ==
    ASSUME FeatureInv, NEW results \in Submissions, NEW found \in SUBSET Unknown,
           WriteReport(results, found)
    PROVE  FeatureInv'
<1> DEFINE needs == Needs("report", found)
           report == docs'.report
<1>1. FeatureTypeOK /\ docs \in Documents /\ MetInv /\ ReportValid /\ ReportInv /\ ReviewInv
  BY DEF FeatureInv, FilesAlwaysValid, FeatureTypeOK
<1>2. /\ FeatureTypeOK' /\ UNCHANGED <<card, questions, rows, config, controlled>>
      /\ session.pc = "working" /\ session.cmd = "verify" /\ card.stage # "done"
      /\ docs' = [docs EXCEPT !.report = report]
      /\ report.needs = needs /\ report.rev = 1
      /\ report.result # "BLOCKED" => report.selfCheck = "PASS"
      /\ report.result = "PASS" => /\ report.needs = {} /\ report.config \in controlled
                                   /\ ExpectedSources \subseteq report.passing
      /\ session' = [pc |-> "written", cmd |-> "verify", open |-> needs, later |-> {}]
      /\ met' = [met EXCEPT ![4] = @ \union found]
  BY <1>1, ReportWritten
<1>3. \A q \in docs.report.needs \union found : Known(q) \/ q \in needs
  BY DEF Needs
<1> HIDE DEF needs
<1>4. /\ docs'.contract = docs.contract /\ docs'.design = docs.design
      /\ docs'.code = docs.code /\ docs'.review = docs.review
  BY <1>1, <1>2 DEF Documents
<1>5. \A d \in Names : Exists(d) \/ d = DocOf[session.cmd] => docs'[d].rev > 0
  <2>1. DocOf[session.cmd] = "report" /\ docs'["report"].rev > 0
    BY <1>2 DEF DocOf
  <2>2. \A d \in Names : d # "report" => docs'[d] = docs[d]
    BY <1>4 DEF Names
  <2> QED BY <2>1, <2>2 DEF Exists
<1>6. \A x \in FeatureRows : x < RowOf[session.cmd] /\ Complete(x) => Complete(x)'
  <2>1. RowOf[session.cmd] = 4
    BY <1>2 DEF RowOf
  <2>2. /\ Complete(1) => Complete(1)'
        /\ Complete(2) => Complete(2)'
        /\ Complete(3) => Complete(3)'
    BY <1>2, <1>4, CompleteReads
  <2> QED BY <2>1, <2>2, RowNumbers
<1>7. MetInv'
  <2>1. met \in [FeatureRows -> SUBSET Questions]
    BY <1>1 DEF FeatureTypeOK
  <2>2. /\ met'[4] = met[4] \union found
        /\ met'[1] = met[1] /\ met'[2] = met[2] /\ met'[3] = met[3]
    BY <1>2, <2>1, RowNumbers
  <2>3. /\ \A q \in met[1] : Known(q) \/ q \in docs.contract.needs
        /\ \A q \in met[2] : Known(q) \/ q \in docs.design.needs \union docs.contract.later
        /\ \A q \in met[3] : Known(q) \/ q \in docs.code.needs
        /\ \A q \in met[4] : Known(q) \/ q \in docs.review.needs \union docs.report.needs
    BY <1>1, RowNumbers DEF MetInv, NeedsOf
  <2>4. \A q : Known(q)' <=> Known(q)
    BY <1>2 DEF Known
  <2>5. /\ \A q \in met'[1] : Known(q)' \/ q \in docs'.contract.needs
        /\ \A q \in met'[2] : Known(q)' \/ q \in docs'.design.needs \union docs'.contract.later
        /\ \A q \in met'[3] : Known(q)' \/ q \in docs'.code.needs
        /\ \A q \in met'[4] : Known(q)' \/ q \in docs'.review.needs \union docs'.report.needs
    BY <1>2, <1>3, <1>4, <2>2, <2>3, <2>4
  <2> QED BY <2>5, RowNumbers DEF MetInv, NeedsOf
<1>8. ReportValid' /\ ReportInv' /\ ReviewInv'
  <2>1. report.result # "BLOCKED" => report.selfCheck = "PASS"
    BY <1>2
  <2>2. report.result = "PASS" => /\ report.needs = {} /\ report.config \in controlled'
                                  /\ ExpectedSources \subseteq report.passing
    BY <1>2
  <2>3. ReviewInv'
    BY <1>1, <1>4 DEF ReviewInv, ReviewedPass, Exists
  <2> QED BY <2>1, <2>2, <2>3 DEF ReportValid, ReportInv
<1> QED BY <1>2, <1>5, <1>6, <1>7, <1>8, WriteKeeps

LEMMA AuthorizeKeeps ==
    ASSUME FeatureInv, Authorize
    PROVE  FeatureInv'
<1> USE DEF FeatureInv, FilesAlwaysValid
<1>1. /\ session = NoSession /\ docs' = [docs EXCEPT !.design.authorized = TRUE]
      /\ UNCHANGED <<card, questions, rows, config, controlled, session, met>>
  BY DEF Authorize
<1>2. docs \in Documents /\ docs.design \in Designs
  BY DEF FeatureTypeOK, Documents
<1>3. docs' = [docs EXCEPT !.design = [docs.design EXCEPT !.authorized = TRUE]]
  BY <1>1
<1>4. /\ docs'.contract = docs.contract /\ docs'.code = docs.code
      /\ docs'.review = docs.review /\ docs'.report = docs.report
      /\ docs'.design = [docs.design EXCEPT !.authorized = TRUE]
  BY <1>2, <1>3 DEF Documents
<1>5. /\ docs'.design.rev = docs.design.rev /\ docs'.design.needs = docs.design.needs
      /\ docs'.design.contract = docs.design.contract /\ docs'.design.authorized
      /\ docs'.design \in Designs
  BY <1>2, <1>4 DEF Designs
<1>6. FeatureTypeOK'
  <2>1. docs' \in Documents
    BY <1>2, <1>3, <1>4, <1>5 DEF Documents
  <2> QED BY <1>1, <2>1 DEF FeatureTypeOK
<1>7. \A d \in Names : docs'[d].rev = docs[d].rev
  BY <1>4, <1>5 DEF Names
<1>8. CardValid'
  <2>1. \A d \in RequiredFiles(card.stage) : d \in Names /\ Exists(d)
    BY DocNames DEF CardValid, FeatureTypeOK
  <2>2. \A d \in RequiredFiles(card.stage) : docs'[d].rev > 0
    BY <1>7, <2>1 DEF Exists
  <2>3. card' = card /\ questions' = questions /\ CardValid
    BY <1>1
  <2> HIDE DEF FeatureInv, FilesAlwaysValid
  <2> QED BY <2>2, <2>3 DEF CardValid, Registered, Exists
<1>9. RowsValid' /\ BlockersValid' /\ SessionInv'
  BY <1>1 DEF RowsValid, BlockersValid, Registered, SessionInv
<1>10. ReportValid' /\ ReportInv' /\ ReviewInv' /\ StageInv'
  BY <1>1, <1>4, ReportKept, StageKept
<1>11. MetInv'
  <2>1. \A r \in FeatureRows : NeedsOf(r)' = NeedsOf(r)
    BY <1>4, <1>5, RowNumbers DEF NeedsOf
  <2>2. met' = met /\ \A q : Known(q)' <=> Known(q)
    BY <1>1 DEF Known
  <2> QED BY <2>1, <2>2 DEF MetInv
<1>12. DoneInv'
  <2>1. G2 => G2'
    BY <1>1, <1>4 DEF G2, Whole, Exists
  <2>2. G3 => G3'
    BY <1>1, <1>4, <1>5, <2>1 DEF G3, Designed, Whole, Exists, Current, Known
  <2>3. Whole("code") /\ Current("code") => (Whole("code") /\ Current("code"))'
    BY <1>4, <1>5 DEF Whole, Exists, Current
  <2>4. VerifiedPass => VerifiedPass'
    BY <1>4, <1>5 DEF VerifiedPass, Exists, Current
  <2>5. /\ Complete(1) => Complete(1)'
        /\ Complete(2) => Complete(2)'
        /\ Complete(3) => Complete(3)'
        /\ Complete(4) => Complete(4)'
    BY <1>1, <1>4, <2>1, <2>2, <2>3, <2>4 DEF Complete, ReviewedPass, Exists
  <2> QED BY <1>1, <2>5, RowNumbers DEF DoneInv
<1> QED BY <1>6, <1>8, <1>9, <1>10, <1>11, <1>12

-----------------------------------------------------------------------------
(* The invariant *)

LEMMA FeatureInvInit == FeatureInit => FeatureInv
<1> SUFFICES ASSUME FeatureInit PROVE FeatureInv
  OBVIOUS
<1>1. /\ card = [stage |-> "discovered", blocked |-> FALSE, refs |-> {}]
      /\ docs = [contract |-> [rev |-> 0, needs |-> {}, later |-> {}],
                 design |-> [rev |-> 0, needs |-> {}, contract |-> 0, authorized |-> FALSE],
                 code |-> Absent, review |-> Absent, report |-> Absent]
      /\ questions = [q \in Questions |-> "ABSENT"]
      /\ rows = [r \in FeatureRows |->
                   [status |-> IF r = 1 THEN "TODO" ELSE "BLOCKED", blocker |-> {}]]
      /\ config \in Configs /\ controlled = {} /\ session = NoSession
      /\ met = [r \in FeatureRows |-> {}]
  BY DEF FeatureInit
<1>2. FeatureTypeOK
  <2>1. docs \in Documents
    <3>1. [rev |-> 0, needs |-> {}, later |-> {}] \in Contracts
      BY FeatureAssumption DEF Contracts
    <3>2. [rev |-> 0, needs |-> {}, contract |-> 0, authorized |-> FALSE] \in Designs
      BY FeatureAssumption DEF Designs
    <3> QED BY <1>1, <3>1, <3>2 DEF Documents
  <2>2. card \in [stage : Stages, blocked : BOOLEAN, refs : SUBSET Questions]
    BY <1>1 DEF Stages
  <2> QED BY <1>1, <2>1, <2>2 DEF FeatureTypeOK, Sessions
<1>3. FilesAlwaysValid
  <2>1. CardValid
    BY <1>1 DEF CardValid, RequiredFiles, Registered
  <2>2. RowsValid
    BY <1>1, RowNumbers DEF RowsValid
  <2>3. BlockersValid
    BY <1>1 DEF BlockersValid, Registered
  <2>4. ReportValid
    BY <1>1 DEF ReportValid, Exists, Absent
  <2> QED BY <2>1, <2>2, <2>3, <2>4 DEF FilesAlwaysValid
<1>4. SessionInv /\ StageInv /\ DoneInv /\ ReportInv /\ ReviewInv /\ MetInv
  BY <1>1 DEF SessionInv, StageInv, DoneInv, ReportInv, ReviewInv, ReviewedPass, MetInv,
              Exists, Absent
<1> QED BY <1>2, <1>3, <1>4 DEF FeatureInv

LEMMA FeatureInvStutter ==
    ASSUME FeatureInv, UNCHANGED featureVars
    PROVE  FeatureInv'
<1>1. UNCHANGED <<card, docs, questions, rows, config, controlled, session, met>>
  BY DEF featureVars
<1>2. config' \in Configs /\ session' \in Sessions /\ SessionInv'
  BY <1>1 DEF FeatureInv, FeatureTypeOK, SessionInv, Registered, Exists
<1> QED BY <1>1, <1>2, QuietKeeps

LEMMA FeatureInvStep == FeatureInv /\ [FeatureNext]_featureVars => FeatureInv'
<1> SUFFICES ASSUME FeatureInv, [FeatureNext]_featureVars PROVE FeatureInv'
  OBVIOUS
<1>1. ASSUME NEW c \in Commands, Begin(c) PROVE FeatureInv'
  BY <1>1, BeginKeeps
<1>2. ASSUME NEW found \in SUBSET Unknown, NEW later \in SUBSET Unknown,
             WriteContract(found, later)
      PROVE  FeatureInv'
  BY <1>2, WriteContractKeeps
<1>3. ASSUME NEW found \in SUBSET Unknown, WriteDesign(found) \/ WriteCode(found)
      PROVE  FeatureInv'
  BY <1>3, WriteDesignKeeps, WriteCodeKeeps
<1>4. ASSUME NEW findings \in BOOLEAN, NEW found \in SUBSET Unknown,
             WriteReview(findings, found)
      PROVE  FeatureInv'
  BY <1>4, WriteReviewKeeps
<1>5. ASSUME NEW results \in Submissions, NEW found \in SUBSET Unknown,
             WriteReport(results, found)
      PROVE  FeatureInv'
  BY <1>5, WriteReportKeeps
<1>6. CASE PassControl \/ FailControl \/ Keep \/ Register \/ UpdateCard \/ UpdateRow \/ Die
  BY <1>6, PassControlKeeps, FailControlKeeps, KeepKeeps, RegisterKeeps, UpdateCardKeeps, UpdateRowKeeps, DieKeeps
<1>7. ASSUME NEW r \in FeatureRows, FinishStop(r) \/ UnblockRow(r) PROVE FeatureInv'
  BY <1>7, FinishStopKeeps, UnblockRowKeeps
<1>8. ASSUME NEW r \in FeatureRows \ {4}, Reopen(r) PROVE FeatureInv'
  BY <1>8, ReopenKeeps
<1>9. CASE UnblockCard \/ Authorize \/ ChangeConfig
  BY <1>9, UnblockCardKeeps, AuthorizeKeeps, ChangeConfigKeeps
<1>10. ASSUME NEW q \in Questions, Resolve(q) PROVE FeatureInv'
  BY <1>10, ResolveKeeps
<1>11. CASE UNCHANGED featureVars
  BY <1>11, FeatureInvStutter
<1> QED BY <1>1, <1>2, <1>3, <1>4, <1>5, <1>6, <1>7, <1>8, <1>9, <1>10, <1>11 DEF FeatureNext

\* The inductive invariant: types, the validator's rules, a session that only
\* works on a row in progress, completed rows that stay complete, passes that
\* were earned and unknown facts that no document forgets
\* (docs/08-queue-execution.md, .opencode/commands/).
THEOREM FeatureInvariant == FeatureSpec => []FeatureInv
<1> QED BY FeatureInvInit, FeatureInvStep, PTL DEF FeatureSpec

\* The validator accepts the feature's files whenever a session ends or dies
\* (scripts/validate_scaffold.py).
THEOREM FilesStayValid == FeatureSpec => []FilesAlwaysValid
<1>1. FeatureInv => FilesAlwaysValid
  BY DEF FeatureInv
<1> QED BY <1>1, FeatureInvariant, PTL

\* A finished feature is verified as it stands, by a judge that rejected a
\* known-wrong result (docs/03-evidence-and-verification.md).
THEOREM FinishedAlwaysVerified == FeatureSpec => []FinishedIsVerified
<1>1. ASSUME FeatureInv, rows[4].status = "DONE"
      PROVE  /\ \A r \in FeatureRows : rows[r].status = "DONE" /\ Complete(r)
             /\ card.stage = "done" /\ ~card.blocked
             /\ docs.report.config \in controlled
             /\ ExpectedSources \subseteq docs.report.passing
  <2> USE <1>1 DEF FeatureInv, FilesAlwaysValid
  <2>1. \A r \in FeatureRows : rows[r].status = "DONE"
    <3>1. ASSUME NEW r \in FeatureRows, r < 4 PROVE rows[r].status = "DONE"
      <4>1. 4 \in FeatureRows
        BY RowNumbers
      <4> QED BY <1>1, <3>1, <4>1, RowChain
    <3> QED BY <3>1, RowNumbers
  <2>2. \A r \in FeatureRows : Complete(r)
    BY <2>1 DEF DoneInv
  <2>3. card.stage = "done" /\ VerifiedPass
    BY <2>2, RowNumbers DEF Complete
  <2>4. ~card.blocked
    BY <2>3 DEF CardValid
  <2>5. docs.report.config \in controlled /\ ExpectedSources \subseteq docs.report.passing
    BY <2>3 DEF VerifiedPass, ReportInv
  <2> QED BY <2>1, <2>2, <2>3, <2>4, <2>5
<1>2. FeatureInv => FinishedIsVerified
  BY <1>1 DEF FinishedIsVerified
<1> QED BY <1>2, FeatureInvariant, PTL

\* No completed row rests on an unknown fact, whoever met it and wherever that
\* session died (docs/11-stop-condition-contract.md).
THEOREM NoDoneRowOverUnknown == FeatureSpec => []NoRowOverUnknown
<1>1. ASSUME FeatureInv, NEW r \in FeatureRows, rows[r].status = "DONE", NEW q \in met[r]
      PROVE  Known(q)
  <2>1. Complete(r) /\ (Known(q) \/ q \in NeedsOf(r)) /\ ReportInv
    BY <1>1 DEF FeatureInv, DoneInv, MetInv
  <2>2. CASE r = 1
    BY <2>1, <2>2 DEF Complete, NeedsOf, G2, Whole
  <2>3. CASE r = 2
    BY <2>1, <2>3 DEF Complete, NeedsOf, G3, Designed, Whole
  <2>4. CASE r = 3
    BY <2>1, <2>4 DEF Complete, NeedsOf, Whole
  <2>5. CASE r = 4
    <3>1. ReviewedPass /\ VerifiedPass
      BY <2>1, <2>5 DEF Complete
    <3>2. docs.review.needs = {} /\ docs.report.needs = {}
      BY <1>1, <3>1 DEF FeatureInv, ReviewInv, ReportInv, VerifiedPass
    <3> QED BY <2>1, <2>5, <3>2 DEF NeedsOf
  <2> QED BY <2>2, <2>3, <2>4, <2>5, RowNumbers
<1>2. FeatureInv => NoRowOverUnknown
  BY <1>1 DEF NoRowOverUnknown
<1> QED BY <1>2, FeatureInvariant, PTL
=============================================================================
