-------------------------- MODULE GradeTransition --------------------------
(***************************************************************************)
(* The life of one evidence record under the transition check              *)
(* (scripts/validate_grade_transition.py).  A writer edits a draft of the  *)
(* record in any way; the check compares it with the record at the base    *)
(* revision, and a draft it accepts becomes the next base.                 *)
(*                                                                         *)
(* A grade is its place in GRADE_ORDER.  A reference is known when its     *)
(* text occurs anywhere in the base record's text: a reference that is     *)
(* part of another one's text occurs wherever that one does.  Dates and   *)
(* reasons of a row and the Markdown around it are left out.               *)
(*                                                                         *)
(* KeepsCommonRows and KnownOnlyFromBase are faulty variants that no       *)
(* action uses.                                                            *)
(***************************************************************************)
EXTENDS Naturals, SequencesExt

CONSTANTS
    Top,        \* the best grade; the worst, "?", is 0
    Refs,       \* evidence references
    Cells,      \* sets of references that a row may cite
    Inside,     \* pairs of references: the first one's text is in the second's
    Ids,        \* record identifiers
    MaxRows,    \* bound: rows of a history
    MaxEdits,   \* bound: edits between two checks
    MaxChanges  \* bound: accepted changes

ASSUME GradeAssumption ==
    /\ Top \in Nat /\ MaxRows \in Nat /\ MaxEdits \in Nat /\ MaxChanges \in Nat
    /\ Cells \subseteq SUBSET Refs
    /\ Inside \subseteq Refs \X Refs

VARIABLES
    base,       \* the record at the base revision
    draft,      \* the candidate
    edits,      \* edits made to the draft since the last check
    changes,    \* drafts accepted
    settled,    \* history: rows of the version that brought the history in
    adopted     \* history: that version adopted a record without one

vars == <<base, draft, edits, changes, settled, adopted>>

-----------------------------------------------------------------------------
(* Records *)

Grades == 0 .. Top

Dash == Top + 1

Rows == [from : Grades \union {Dash}, to : Grades, refs : Cells]

\* A record without a history is one that predates the control.
Records == [present : {TRUE}, id : Ids, grade : Grades, body : SUBSET Refs,
            history : Seq(Rows)]

Absent == [present |-> FALSE]

Promotes(row) == row.from \in Grades /\ row.to > row.from

Cited(h, from, to) == UNION {h[i].refs : i \in from .. to}

\* the references that a record's text mentions
Mentioned(r) == r.body \union Cited(r.history, 1, Len(r.history))

Occurs(ref, mentioned) == \E m \in mentioned : m = ref \/ <<ref, m>> \in Inside

-----------------------------------------------------------------------------
(* The check *)

Chains(h) ==
    /\ h[1].from = Dash
    /\ \A i \in 2 .. Len(h) : h[i].from = h[i - 1].to

\* _parse_history without an error
HistoryIsValid(r) ==
    /\ Chains(r.history)
    /\ \A i \in DOMAIN r.history :
         r.history[i].refs = {} => i = 1 /\ r.history[i].to = 0
    /\ r.grade = Last(r.history).to

\* _parse_record: only a candidate must have a history
Parses(r, requireHistory) ==
    IF r.history = <<>> THEN ~requireHistory ELSE HistoryIsValid(r)

\* rows of the candidate that are not appended
Inherited(b) == IF b.history = <<>> THEN 1 ELSE Len(b.history)

KeepsCommonRows(b, c) ==
    IF b.history = <<>> THEN c.history[1].from = Dash /\ c.history[1].to = b.grade
    ELSE IsPrefix(b.history, c.history) \/ IsPrefix(c.history, b.history)

\* the base's history is a prefix, or the first row adopts the base's grade
Keeps(b, c) ==
    IF b.history = <<>> THEN c.history[1].from = Dash /\ c.history[1].to = b.grade
    ELSE IsPrefix(b.history, c.history)

KnownOnlyFromBase(b, c, i) == Mentioned(b)

\* what is spent when row i is decided
KnownAt(b, c, i) == Mentioned(b) \union Cited(c.history, Inherited(b) + 1, i - 1)

BringsEvidence(b, c, i) ==
    Promotes(c.history[i]) =>
        \E ref \in c.history[i].refs : ~Occurs(ref, KnownAt(b, c, i))

AppendedRowHolds(b, c, i) ==
    LET prior == IF i = Inherited(b) + 1 THEN b.grade ELSE c.history[i - 1].to IN
    /\ c.history[i].from = prior
    /\ c.history[i].from # c.history[i].to
    /\ BringsEvidence(b, c, i)

\* _check_existing_transition
TransitionHolds(b, c) ==
    /\ b.id = c.id
    /\ Keeps(b, c)
    /\ c.grade # b.grade => Len(c.history) > Inherited(b)
    /\ \A i \in Inherited(b) + 1 .. Len(c.history) : AppendedRowHolds(b, c, i)

\* _check_file
Accepts(b, c) ==
    /\ c.present
    /\ Parses(c, TRUE)
    /\ b.present => Parses(b, FALSE) /\ TransitionHolds(b, c)

-----------------------------------------------------------------------------
(* Writing and checking *)

Init ==
    /\ \/ base = Absent
       \/ \E id \in Ids, g \in Grades, b \in SUBSET Refs :
            base = [present |-> TRUE, id |-> id, grade |-> g, body |-> b,
                    history |-> <<>>]
    /\ draft = base
    /\ edits = 0 /\ changes = 0 /\ settled = 0 /\ adopted = FALSE

Write(r) ==
    /\ edits < MaxEdits /\ changes < MaxChanges
    /\ draft' = r
    /\ edits' = edits + 1
    /\ UNCHANGED <<base, changes, settled, adopted>>

Create(id, row) ==
    /\ ~draft.present
    /\ Write([present |-> TRUE, id |-> id, grade |-> row.to, body |-> {},
              history |-> <<row>>])

Delete == draft.present /\ Write(Absent)

\* a decision is recorded, and the Grade field with it
Decide(row) ==
    /\ draft.present /\ Len(draft.history) < MaxRows
    /\ Write([draft EXCEPT !.history = Append(@, row), !.grade = row.to])

\* or only one of the two
Regrade(g) == draft.present /\ Write([draft EXCEPT !.grade = g])

Rewrite(i, row) ==
    /\ draft.present /\ i \in DOMAIN draft.history
    /\ Write([draft EXCEPT !.history[i] = row])

Truncate ==
    /\ draft.present /\ draft.history # <<>>
    /\ Write([draft EXCEPT !.history = SubSeq(@, 1, Len(@) - 1)])

Mention(ref) == draft.present /\ Write([draft EXCEPT !.body = @ \union {ref}])

Rename(id) == draft.present /\ Write([draft EXCEPT !.id = id])

\* exit code 0: the draft becomes the base of the next change
Accept ==
    /\ edits > 0
    /\ Accepts(base, draft)
    /\ base' = draft
    /\ edits' = 0 /\ changes' = changes + 1
    /\ LET first == ~base.present \/ base.history = <<>> IN
       /\ settled' = IF first THEN Len(draft.history) ELSE settled
       /\ adopted' = IF first THEN base.present ELSE adopted
    /\ UNCHANGED draft

\* exit code 1: the writer starts over
Reject ==
    /\ edits > 0
    /\ ~Accepts(base, draft)
    /\ draft' = base
    /\ edits' = 0
    /\ UNCHANGED <<base, changes, settled, adopted>>

Next ==
    \/ \E id \in Ids, row \in Rows : Create(id, row)
    \/ Delete
    \/ \E row \in Rows : Decide(row)
    \/ \E g \in Grades : Regrade(g)
    \/ \E i \in 1 .. MaxRows, row \in Rows : Rewrite(i, row)
    \/ Truncate
    \/ \E ref \in Refs : Mention(ref)
    \/ \E id \in Ids : Rename(id)
    \/ Accept \/ Reject

Spec == Init /\ [][Next]_vars

-----------------------------------------------------------------------------
(* Properties *)

\* and no accepted change ever loses rows that were once settled
TypeOK ==
    /\ {base, draft} \subseteq Records \union {Absent}
    /\ edits \in 0 .. MaxEdits /\ changes \in 0 .. MaxChanges
    /\ edits > 0 => changes < MaxChanges
    /\ settled \in 0 .. (IF base.present THEN Len(base.history) ELSE 0)
    /\ adopted \in BOOLEAN

HasHistory == base.present /\ base.history # <<>>

\* "Do not delete, reorder, or rewrite past grade decisions": an accepted
\* change keeps the record, its name and all its rows.
HistoryIsAppendOnly ==
    [][ base.present =>
          /\ base'.present
          /\ base'.id = base.id
          /\ IsPrefix(base.history, base'.history) ]_base

\* "Every promotion has at least one evidence reference that was not part of
\* the prior grade decision": no evidence is spent twice.  A promotion that a
\* later change appended cites a reference that no earlier row of the whole
\* history cites, not even inside another reference.
PromotionsBringEvidence ==
    HasHistory =>
        \A i \in settled + 1 .. Len(base.history) :
            Promotes(base.history[i]) =>
                \E ref \in base.history[i].refs :
                    ~Occurs(ref, Cited(base.history, 1, i - 1))

\* the same of all promotions of an adopted record, its baseline row being
\* the decision before the first of them
AdoptedPromotionsBringEvidence ==
    HasHistory /\ adopted =>
        \A i \in 2 .. Len(base.history) :
            Promotes(base.history[i]) =>
                \E ref \in base.history[i].refs :
                    ~Occurs(ref, Cited(base.history, 1, i - 1))
=============================================================================
