----------------------- MODULE GradeTransitionProofs -----------------------
(***************************************************************************)
(* Proofs about GradeTransition, for any number of grades, references,     *)
(* identifiers, rows, edits and changes, and for any relation Inside.      *)
(*                                                                         *)
(* Only Accept touches the base, and what it accepts has passed the check: *)
(* the properties of the base follow from what one check compares, and     *)
(* from the prefix that carries them over to the next base.                *)
(***************************************************************************)
EXTENDS GradeTransition, TLAPS

\* A history that another one begins with has its rows, in their places.
LEMMA PrefixRows ==
    ASSUME NEW s \in Seq(Rows), NEW t \in Seq(Rows), IsPrefix(s, t)
    PROVE  /\ Len(s) <= Len(t)
           /\ \A i \in 1 .. Len(s) : s[i] = t[i]
<1>1. Len(s) <= Len(t) /\ SubSeq(s, 1, Len(s)) = SubSeq(t, 1, Len(s))
  BY DEF IsPrefix
<1>2. ASSUME NEW i \in 1 .. Len(s) PROVE s[i] = t[i]
  <2>1. SubSeq(s, 1, Len(s))[i] = s[i]
    OBVIOUS
  <2>2. SubSeq(t, 1, Len(s))[i] = t[i]
    BY <1>1
  <2> QED BY <2>1, <2>2, <1>1
<1> QED BY <1>1, <1>2

-----------------------------------------------------------------------------
(* What a step may change *)

Acceptance ==
    /\ Accepts(base, draft)
    /\ base' = draft
    /\ LET first == ~base.present \/ base.history = <<>> IN
       /\ settled' = IF first THEN Len(draft.history) ELSE settled
       /\ adopted' = IF first THEN base.present ELSE adopted

\* The base and what is remembered about it change only by an acceptance.
LEMMA OnlyAcceptance == [Next]_vars => UNCHANGED <<base, settled, adopted>> \/ Acceptance
<1> SUFFICES ASSUME [Next]_vars PROVE UNCHANGED <<base, settled, adopted>> \/ Acceptance
  OBVIOUS
<1>1. CASE Accept
  BY <1>1 DEF Accept, Acceptance
<1>2. CASE Reject
  BY <1>2 DEF Reject
<1>3. CASE \E id \in Ids, row \in Rows : Create(id, row)
  BY <1>3 DEF Create, Write
<1>4. CASE Delete
  BY <1>4 DEF Delete, Write
<1>5. CASE \E row \in Rows : Decide(row)
  BY <1>5 DEF Decide, Write
<1>6. CASE \E g \in Grades : Regrade(g)
  BY <1>6 DEF Regrade, Write
<1>7. CASE \E i \in 1 .. MaxRows, row \in Rows : Rewrite(i, row)
  BY <1>7 DEF Rewrite, Write
<1>8. CASE Truncate
  BY <1>8 DEF Truncate, Write
<1>9. CASE \E ref \in Refs : Mention(ref)
  BY <1>9 DEF Mention, Write
<1>10. CASE \E id \in Ids : Rename(id)
  BY <1>10 DEF Rename, Write
<1>11. CASE UNCHANGED vars
  BY <1>11 DEF vars
<1> QED BY <1>1, <1>2, <1>3, <1>4, <1>5, <1>6, <1>7, <1>8, <1>9, <1>10, <1>11 DEF Next

-----------------------------------------------------------------------------
(* Types, and no settled row is lost *)

\* A record is what it is made of.
LEMMA RecordFields ==
    ASSUME NEW r, r \in Records \union {Absent}, r.present
    PROVE  /\ r \in Records
           /\ r.id \in Ids /\ r.grade \in Grades /\ r.body \in SUBSET Refs
           /\ r.history \in Seq(Rows)
<1>1. r # Absent
  BY DEF Absent
<1>2. r \in Records
  BY <1>1
<1> QED BY <1>2 DEF Records

LEMMA TypeInit == Init => TypeOK
<1> SUFFICES ASSUME Init PROVE TypeOK
  OBVIOUS
<1> USE GradeAssumption
<1>1. base \in Records \union {Absent}
  <2>1. ASSUME NEW id \in Ids, NEW g \in Grades, NEW b \in SUBSET Refs
        PROVE  [present |-> TRUE, id |-> id, grade |-> g, body |-> b,
                history |-> <<>>] \in Records
    <3>1. <<>> \in Seq(Rows)
      OBVIOUS
    <3> QED BY <3>1 DEF Records
  <2> QED BY <2>1 DEF Init
<1>2. settled \in 0 .. (IF base.present THEN Len(base.history) ELSE 0)
  <2>1. CASE base = Absent
    <3>1. ~base.present
      BY <2>1 DEF Absent
    <3> QED BY <3>1 DEF Init
  <2>2. CASE base # Absent
    <3>1. base.history = <<>>
      BY <2>2 DEF Init
    <3>2. Len(base.history) = 0
      BY <3>1
    <3> QED BY <3>2 DEF Init
  <2> QED BY <2>1, <2>2
<1>3. adopted \in BOOLEAN /\ draft = base
  BY DEF Init
<1>4. edits \in 0 .. MaxEdits /\ changes \in 0 .. MaxChanges /\ ~(edits > 0)
  BY DEF Init
<1> QED BY <1>1, <1>2, <1>3, <1>4 DEF TypeOK

\* What an acceptance means for two typed records, the first one present.
LEMMA AcceptedHistory ==
    ASSUME TypeOK, Acceptance
    PROVE  /\ draft.present /\ draft \in Records
           /\ draft.history # <<>> /\ HistoryIsValid(draft)
           /\ base.present =>
                /\ base \in Records
                /\ TransitionHolds(base, draft)
                /\ base.history # <<>> => IsPrefix(base.history, draft.history)
<1>1. draft.present /\ draft \in Records
  BY RecordFields DEF TypeOK, Acceptance, Accepts
<1>2. draft.history # <<>> /\ HistoryIsValid(draft)
  BY DEF Acceptance, Accepts, Parses
<1>3. ASSUME base.present
      PROVE  /\ base \in Records
             /\ TransitionHolds(base, draft)
             /\ base.history # <<>> => IsPrefix(base.history, draft.history)
  <2>1. base \in Records
    BY <1>3, RecordFields DEF TypeOK
  <2>2. TransitionHolds(base, draft)
    BY <1>3 DEF Acceptance, Accepts
  <2> QED BY <2>1, <2>2 DEF TransitionHolds, Keeps
<1> QED BY <1>1, <1>2, <1>3

\* Every edit of a typed draft gives a typed draft.
LEMMA DraftStaysTyped ==
    ASSUME TypeOK, [Next]_vars
    PROVE  draft' \in Records \union {Absent}
<1> USE GradeAssumption
<1>0. draft \in Records \union {Absent} /\ base \in Records \union {Absent}
  BY DEF TypeOK
<1>1. CASE Accept
  BY <1>0, <1>1 DEF Accept
<1>2. CASE Reject
  BY <1>0, <1>2 DEF Reject
<1>3. ASSUME NEW id \in Ids, NEW row \in Rows, Create(id, row)
      PROVE  draft' \in Records \union {Absent}
  <2>1. <<row>> \in Seq(Rows) /\ row.to \in Grades
    BY DEF Rows
  <2> QED BY <1>3, <2>1 DEF Create, Write, Records
<1>4. CASE Delete
  BY <1>4 DEF Delete, Write
<1>5. ASSUME NEW row \in Rows, Decide(row)
      PROVE  draft' \in Records \union {Absent}
  <2>1. draft \in Records /\ draft.history \in Seq(Rows)
    BY <1>0, <1>5, RecordFields DEF Decide
  <2>2. Append(draft.history, row) \in Seq(Rows) /\ row.to \in Grades
    BY <2>1 DEF Rows
  <2> QED BY <1>5, <2>1, <2>2 DEF Decide, Write, Records
<1>6. ASSUME NEW g \in Grades, Regrade(g)
      PROVE  draft' \in Records \union {Absent}
  <2>1. draft \in Records
    BY <1>0, <1>6, RecordFields DEF Regrade
  <2> QED BY <1>6, <2>1 DEF Regrade, Write, Records
<1>7. ASSUME NEW i \in 1 .. MaxRows, NEW row \in Rows, Rewrite(i, row)
      PROVE  draft' \in Records \union {Absent}
  <2>1. draft \in Records /\ draft.history \in Seq(Rows)
    BY <1>0, <1>7, RecordFields DEF Rewrite
  <2>2. [draft.history EXCEPT ![i] = row] \in Seq(Rows)
    BY <1>7, <2>1 DEF Rewrite
  <2>3. draft' = [draft EXCEPT !.history = [draft.history EXCEPT ![i] = row]]
    BY <1>7 DEF Rewrite, Write
  <2> QED BY <2>1, <2>2, <2>3 DEF Records
<1>8. CASE Truncate
  <2>1. draft \in Records /\ draft.history \in Seq(Rows) /\ draft.history # <<>>
    BY <1>0, <1>8, RecordFields DEF Truncate
  <2>2. SubSeq(draft.history, 1, Len(draft.history) - 1) \in Seq(Rows)
    BY <2>1
  <2> QED BY <1>8, <2>1, <2>2 DEF Truncate, Write, Records
<1>9. ASSUME NEW ref \in Refs, Mention(ref)
      PROVE  draft' \in Records \union {Absent}
  <2>1. draft \in Records /\ draft.body \union {ref} \in SUBSET Refs
    BY <1>0, <1>9, RecordFields DEF Mention
  <2> QED BY <1>9, <2>1 DEF Mention, Write, Records
<1>10. ASSUME NEW id \in Ids, Rename(id)
       PROVE  draft' \in Records \union {Absent}
  <2>1. draft \in Records
    BY <1>0, <1>10, RecordFields DEF Rename
  <2> QED BY <1>10, <2>1 DEF Rename, Write, Records
<1>11. CASE UNCHANGED vars
  BY <1>0, <1>11 DEF vars
<1> QED BY <1>1, <1>2, <1>3, <1>4, <1>5, <1>6, <1>7, <1>8, <1>9, <1>10, <1>11 DEF Next

\* The bounds on edits and changes are kept.
LEMMA CountersStayTyped ==
    ASSUME TypeOK, [Next]_vars
    PROVE  /\ edits' \in 0 .. MaxEdits /\ changes' \in 0 .. MaxChanges
           /\ edits' > 0 => changes' < MaxChanges
<1> USE GradeAssumption DEF TypeOK
<1>1. CASE Accept
  <2>1. edits' = 0 /\ changes' = changes + 1 /\ changes < MaxChanges
    BY <1>1 DEF Accept
  <2> QED BY <2>1
<1>2. CASE Reject
  BY <1>2 DEF Reject
<1>3. CASE \E r : Write(r)
  BY <1>3 DEF Write
<1>4. CASE UNCHANGED vars
  BY <1>4 DEF vars
<1> QED BY <1>1, <1>2, <1>3, <1>4
    DEF Next, Create, Delete, Decide, Regrade, Rewrite, Truncate, Mention, Rename

LEMMA TypeStep == TypeOK /\ [Next]_vars => TypeOK'
<1> SUFFICES ASSUME TypeOK, [Next]_vars PROVE TypeOK'
  OBVIOUS
<1>1. CASE UNCHANGED <<base, settled, adopted>>
  BY <1>1, DraftStaysTyped, CountersStayTyped DEF TypeOK
<1>2. CASE Acceptance
  <2>1. draft.present /\ draft \in Records /\ draft.history \in Seq(Rows)
    BY <1>2, AcceptedHistory, RecordFields
  <2>2. settled' \in 0 .. Len(draft.history)
    <3>1. CASE ~base.present \/ base.history = <<>>
      BY <1>2, <2>1, <3>1 DEF Acceptance
    <3>2. CASE base.present /\ base.history # <<>>
      <4>1. base.history \in Seq(Rows) /\ IsPrefix(base.history, draft.history)
        BY <1>2, <3>2, AcceptedHistory, RecordFields DEF TypeOK
      <4>2. Len(base.history) <= Len(draft.history)
        BY <4>1, <2>1, PrefixRows
      <4>3. settled' = settled /\ settled \in 0 .. Len(base.history)
        BY <1>2, <3>2 DEF Acceptance, TypeOK
      <4> QED BY <2>1, <4>1, <4>2, <4>3
    <3> QED BY <3>1, <3>2
  <2>3. adopted' \in BOOLEAN
    <3>1. base \in Records \union {Absent}
      BY DEF TypeOK
    <3>2. base.present \in BOOLEAN
      <4>1. CASE base \in Records
        BY <4>1 DEF Records
      <4>2. CASE base = Absent
        BY <4>2 DEF Absent
      <4> QED BY <3>1, <4>1, <4>2
    <3> QED BY <1>2, <3>2 DEF Acceptance, TypeOK
  <2> QED BY <1>2, <2>1, <2>2, <2>3, DraftStaysTyped, CountersStayTyped
      DEF TypeOK, Acceptance
<1> QED BY <1>1, <1>2, OnlyAcceptance

\* TypeOK holds in every reachable state: among it, an accepted change never
\* loses rows that were once settled.
THEOREM TypeCorrect == Spec => []TypeOK
BY TypeInit, TypeStep, PTL DEF Spec

-----------------------------------------------------------------------------
(* What one acceptance compares *)

\* An accepted change keeps the record, its name and its rows.
THEOREM HistoryStaysAppendOnly == Spec => HistoryIsAppendOnly
<1>1. ASSUME TypeOK, [Next]_vars, base.present, base' # base
      PROVE  base'.present /\ base'.id = base.id /\ IsPrefix(base.history, base'.history)
  <2>1. Acceptance /\ base' = draft
    BY <1>1, OnlyAcceptance DEF Acceptance
  <2>2. draft.present /\ draft \in Records /\ base \in Records
        /\ TransitionHolds(base, draft)
    BY <1>1, <2>1, AcceptedHistory
  <2>3. base.history \in Seq(Rows) /\ draft.history \in Seq(Rows)
    BY <2>2 DEF Records
  <2>4. IsPrefix(base.history, draft.history)
    <3>1. CASE base.history = <<>>
      BY <2>3, <3>1 DEF IsPrefix
    <3>2. CASE base.history # <<>>
      BY <1>1, <2>1, <3>2, AcceptedHistory
    <3> QED BY <3>1, <3>2
  <2> QED BY <2>1, <2>2, <2>4 DEF TransitionHolds
<1>2. TypeOK /\ [Next]_vars =>
        [base.present => /\ base'.present
                         /\ base'.id = base.id
                         /\ IsPrefix(base.history, base'.history)]_base
  BY <1>1
<1> QED BY <1>2, TypeCorrect, PTL DEF Spec, HistoryIsAppendOnly

-----------------------------------------------------------------------------
(* No evidence is spent twice *)

\* What is known when row i is decided covers what all the rows before it
\* cite: the base's rows are in the base's text, the others are appended.
LEMMA KnownCoversCited ==
    ASSUME TypeOK, Acceptance, HasHistory,
           NEW i \in Len(base.history) + 1 .. Len(draft.history)
    PROVE  Cited(draft.history, 1, i - 1) \subseteq KnownAt(base, draft, i)
<1>1. base.history \in Seq(Rows) /\ draft.history \in Seq(Rows)
      /\ IsPrefix(base.history, draft.history)
  BY AcceptedHistory, RecordFields DEF HasHistory, TypeOK
<1>2. Inherited(base) = Len(base.history)
  BY DEF HasHistory, Inherited
<1> SUFFICES ASSUME NEW j \in 1 .. i - 1
             PROVE  draft.history[j].refs \subseteq KnownAt(base, draft, i)
  BY DEF Cited
<1>3. CASE j <= Len(base.history)
  <2>1. j \in 1 .. Len(base.history)
    BY <1>1, <1>3
  <2>2. draft.history[j] = base.history[j]
    BY <1>1, <2>1, PrefixRows
  <2>3. base.history[j].refs \subseteq Cited(base.history, 1, Len(base.history))
    BY <2>1 DEF Cited
  <2> QED BY <2>2, <2>3 DEF KnownAt, Mentioned
<1>4. CASE ~(j <= Len(base.history))
  <2>1. j \in Inherited(base) + 1 .. i - 1
    BY <1>1, <1>2, <1>4
  <2>2. draft.history[j].refs \subseteq Cited(draft.history, Inherited(base) + 1, i - 1)
    BY <2>1 DEF Cited
  <2> QED BY <2>2 DEF KnownAt
<1> QED BY <1>3, <1>4

LEMMA EvidenceStep ==
    TypeOK /\ PromotionsBringEvidence /\ [Next]_vars => PromotionsBringEvidence'
<1> SUFFICES ASSUME TypeOK, PromotionsBringEvidence, [Next]_vars
             PROVE  PromotionsBringEvidence'
  OBVIOUS
<1>1. CASE UNCHANGED <<base, settled, adopted>>
  BY <1>1 DEF PromotionsBringEvidence, HasHistory
<1>2. CASE Acceptance
  <2>1. base' = draft
    BY <1>2 DEF Acceptance
  <2>2. draft.present /\ draft \in Records /\ draft.history \in Seq(Rows)
    BY <1>2, AcceptedHistory, RecordFields
  <2>3. CASE ~HasHistory
    <3>1. settled' = Len(draft.history)
      BY <1>2, <2>3 DEF Acceptance, HasHistory
    <3>2. settled' + 1 .. Len(draft.history) = {}
      BY <2>2, <3>1
    <3> QED BY <2>1, <3>2 DEF PromotionsBringEvidence
  <2>4. CASE HasHistory
    <3>1. settled' = settled /\ settled \in Nat
      BY <1>2, <2>4, RecordFields DEF Acceptance, HasHistory, TypeOK
    <3>2. base.history \in Seq(Rows) /\ IsPrefix(base.history, draft.history)
          /\ TransitionHolds(base, draft)
      BY <1>2, <2>4, AcceptedHistory, RecordFields DEF HasHistory, TypeOK
    <3> SUFFICES ASSUME NEW i \in settled + 1 .. Len(draft.history),
                        Promotes(draft.history[i])
                 PROVE  \E ref \in draft.history[i].refs :
                           ~Occurs(ref, Cited(draft.history, 1, i - 1))
      BY <2>1, <3>1 DEF PromotionsBringEvidence, HasHistory
    <3>3. CASE i <= Len(base.history)
      <4>1. i \in settled + 1 .. Len(base.history)
        BY <3>1, <3>2, <3>3
      <4>2. draft.history[i] = base.history[i]
        BY <2>2, <3>1, <3>2, <4>1, PrefixRows
      <4>3. Cited(draft.history, 1, i - 1) = Cited(base.history, 1, i - 1)
        <5>1. \A j \in 1 .. i - 1 : draft.history[j] = base.history[j]
          BY <2>2, <3>1, <3>2, <4>1, PrefixRows
        <5> QED BY <5>1 DEF Cited
      <4> QED BY <2>4, <4>1, <4>2, <4>3 DEF PromotionsBringEvidence
    <3>4. CASE ~(i <= Len(base.history))
      <4>1. i \in Len(base.history) + 1 .. Len(draft.history)
        BY <2>2, <3>1, <3>2, <3>4
      <4>2. BringsEvidence(base, draft, i)
        BY <2>4, <3>2, <4>1
           DEF TransitionHolds, AppendedRowHolds, Inherited, HasHistory
      <4>3. PICK ref \in draft.history[i].refs : ~Occurs(ref, KnownAt(base, draft, i))
        BY <4>2 DEF BringsEvidence
      <4>4. Cited(draft.history, 1, i - 1) \subseteq KnownAt(base, draft, i)
        BY <1>2, <2>4, <4>1, KnownCoversCited
      <4>5. ~Occurs(ref, Cited(draft.history, 1, i - 1))
        BY <4>3, <4>4 DEF Occurs
      <4> QED BY <4>3, <4>5
    <3> QED BY <3>3, <3>4
  <2> QED BY <2>3, <2>4
<1> QED BY <1>1, <1>2, OnlyAcceptance

\* A promotion that a later change appends cites a reference that no earlier
\* row of the whole history cites, however many changes lie in between.
THEOREM PromotionsAlwaysBringEvidence == Spec => []PromotionsBringEvidence
<1>1. Init => PromotionsBringEvidence
  <2> SUFFICES ASSUME Init PROVE ~HasHistory
    BY DEF PromotionsBringEvidence
  <2>1. CASE base = Absent
    BY <2>1 DEF Absent, HasHistory
  <2>2. CASE base # Absent
    <3>1. base.history = <<>>
      BY <2>2 DEF Init
    <3> QED BY <3>1 DEF HasHistory
  <2> QED BY <2>1, <2>2
<1> QED BY <1>1, EvidenceStep, TypeCorrect, PTL DEF Spec
=============================================================================
