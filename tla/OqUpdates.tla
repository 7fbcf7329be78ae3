----------------------------- MODULE OqUpdates ------------------------------
(***************************************************************************)
(* The open-question update check (scripts/check_oq_updates.py) on the     *)
(* history of docs/05-open-questions.md: a status may change only together *)
(* with recorded evidence.                                                 *)
(*                                                                         *)
(* A registry is a sequence of lines: table rows, "### OQ-n" headings,     *)
(* lines with an evidence marker, and prose.  git diff is external: which  *)
(* lines it keeps is its choice.  An ID does not begin with another ID.    *)
(*                                                                         *)
(* RowsTouched is a faulty variant that no definition uses.                *)
(***************************************************************************)
EXTENDS Naturals, Sequences, FiniteSets, Functions

CONSTANTS
    Registries,     \* contents the registry may have; no ID has two rows
    MaxCommits      \* bound

VARIABLES
    oqCommits,      \* the committed registries, oldest first
    oqTree,         \* the registry in the working tree
    oqCheck         \* the last check, while nothing has changed since

oqVars == <<oqCommits, oqTree, oqCheck>>

Row(id, status) == [kind |-> "row", id |-> id, status |-> status]
Heading(id) == [kind |-> "heading", id |-> id]
Marker == [kind |-> "marker"]
Prose == [kind |-> "prose"]

IsRow(line) == line.kind = "row"

ASSUME OqAssumption ==
    /\ MaxCommits \in Nat \ {0}
    /\ \A f \in Registries :
        /\ f \in Seq(Range(f))
        /\ \A i, j \in DOMAIN f : IsRow(f[i]) /\ IsRow(f[j]) /\ f[i].id = f[j].id => i = j

-----------------------------------------------------------------------------
(* The diff *)

Lines(f, at) == {f[i] : i \in at}

Picked(f, at) ==
    LET rank(i) == Cardinality({j \in at : j <= i})
    IN  [n \in 1 .. Cardinality(at) |-> f[CHOOSE i \in at : rank(i) = n]]

\* a diff keeps a common subsequence; what it does not keep is removed or added
Diffs(old, new) ==
    {[removed |-> Lines(old, DOMAIN old \ k[1]), added |-> Lines(new, DOMAIN new \ k[2])] :
        k \in {k \in (SUBSET DOMAIN old) \X (SUBSET DOMAIN new) :
                  Picked(old, k[1]) = Picked(new, k[2])}}

Head0 == oqCommits[Len(oqCommits)]

\* the working tree against the last commit, or else the last commit against
\* the one before
Compared ==
    IF oqTree # Head0 THEN <<Head0, oqTree>>
    ELSE IF Len(oqCommits) > 1 THEN <<oqCommits[Len(oqCommits) - 1], Head0>>
    ELSE <<Head0, Head0>>

RowsTouched(diff) ==
    {a.id : a \in {a \in diff.added : IsRow(a) /\ \E r \in diff.removed : IsRow(r) /\ r.id = a.id}}

\* questions with a removed row and an added row of another status
StatusChanges(diff) ==
    {a.id : a \in {a \in diff.added :
        IsRow(a) /\ \E r \in diff.removed : IsRow(r) /\ r.id = a.id /\ r.status # a.status}}

HasEvidence(diff, id) == Heading(id) \in diff.added \/ Marker \in diff.added

-----------------------------------------------------------------------------
OqInit ==
    /\ \E f \in Registries : oqCommits = <<f>> /\ oqTree = f
    /\ oqCheck = [done |-> FALSE]

EditRegistry ==
    /\ oqTree' \in Registries \ {oqTree}
    /\ oqCheck' = [done |-> FALSE]
    /\ UNCHANGED oqCommits

CommitRegistry ==
    /\ oqTree # Head0 /\ Len(oqCommits) < MaxCommits
    /\ oqCommits' = Append(oqCommits, oqTree)
    /\ oqCheck' = [done |-> FALSE]
    /\ UNCHANGED oqTree

CheckOq ==
    /\ ~oqCheck.done
    /\ \E diff \in Diffs(Compared[1], Compared[2]) :
        oqCheck' = [done |-> TRUE, changes |-> StatusChanges(diff),
                    passed |-> \A id \in StatusChanges(diff) : HasEvidence(diff, id)]
    /\ UNCHANGED <<oqCommits, oqTree>>

OqNext == EditRegistry \/ CommitRegistry \/ CheckOq

OqSpec == OqInit /\ [][OqNext]_oqVars

-----------------------------------------------------------------------------
(* Properties *)

\* Types of the history and of the check.
OqTypeOK ==
    /\ oqTree \in Registries
    /\ oqCommits \in Seq(Registries) /\ Len(oqCommits) \in 1 .. MaxCommits
    /\ oqCheck.done \in BOOLEAN /\ (oqCheck.done => oqCheck.passed \in BOOLEAN)

StatusOf(f, id) == {line.status : line \in {x \in Range(f) : IsRow(x) /\ x.id = id}}

\* Whatever lines git keeps, the check finds exactly the questions whose status
\* differs between the two registries it compares, however rows are moved,
\* added or dropped; and it passes one only when the new registry has evidence.
StatusChangesAreSeen ==
    oqCheck.done =>
        LET old == Compared[1]
            new == Compared[2] IN
        /\ oqCheck.changes =
             {line.id : line \in {x \in Range(new) :
                IsRow(x) /\ StatusOf(old, x.id) \notin {{}, StatusOf(new, x.id)}}}
        /\ oqCheck.passed =>
             \A id \in oqCheck.changes : {Heading(id), Marker} \intersect Range(new) # {}
=============================================================================
