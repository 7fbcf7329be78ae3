---------------------------- MODULE MCRepoGates -----------------------------
(***************************************************************************)
(* The gates on the repository's Markdown: the published STOP policy, the  *)
(* feature's files and rows, the open-question registry.  They share no    *)
(* state, so each is explored by itself, from all of its initial states,   *)
(* while the others rest.                                                  *)
(***************************************************************************)
EXTENDS StopSync, FeatureLifecycle, OqUpdates, TLC

VARIABLE gate       \* the part that moves in this behaviour

Strings(tokens, n) == UNION {[1 .. i -> tokens] : i \in 0 .. n}

\* every arrangement of few tokens, with and without a handling section
SmallTexts ==
    Strings({"stop", "begin", "end"}, 4)
      \union Strings({"stop", "begin", "end", "x", "esc"}, 3)
      \union Strings({"STOP", "begin", "end", "x"}, 3)
      \union {text \o <<"hand", "pay1">> : text \in Strings({"stop", "begin", "end"}, 3)}

Published == <<"stop", "begin", "v1", "end", "hand", "pay1">>

MCAgentPaths == <<"designer", "verifier">>
MCAgentTexts == {[designer |-> text, verifier |-> Published] : text \in SmallTexts}

\* no markers yet, and a stop heading in another case
HeadingTexts == {[designer |-> text, verifier |-> Published] : text \in {<<"STOP">>, <<"STOP", "x">>}}

Rows1 == {Row("OQ-1", status) : status \in {"OPEN", "CONFIRMED"}}
Rows2 == {Row("OQ-2", status) : status \in {"OPEN", "CONFIRMED"}}

\* one or two rows, in either order, with and without evidence
MCRegistries ==
    {<<a>> : a \in Rows1} \union {<<b, a>> : a \in Rows1, b \in Rows2}
      \union {<<a, b>> : a \in Rows1, b \in Rows2}
      \union {<<a, b, line>> : a \in Rows1, b \in Rows2, line \in {Marker, Heading("OQ-1")}}
      \union {<<Prose, a>> : a \in Rows1}

Passing(sources) == [source : sources, verdict : {"PASS"}]

\* one source passes, reports nothing or finds a mismatch, the others pass
MCSubmissions ==
    LET one == CHOOSE s \in ExpectedSources : TRUE
        others == Passing(ExpectedSources \ {one})
    IN  {others} \union {others \union {[source |-> one, verdict |-> verdict]} :
                          verdict \in {"PASS", "FAIL"}}

\* no definition tells configurations apart
Symmetry == Permutations(Configs)

SyncRests ==
    /\ agentsMd = "v1" /\ agentFiles = [a \in Agents |-> Published]
    /\ original = agentFiles /\ sync = AtRest
    /\ policyEdits = 0 /\ syncFailures = 0

OqRests == oqCommits = <<<<Prose>>>> /\ oqTree = <<Prose>> /\ oqCheck = [done |-> FALSE]

Init ==
    \/ gate = "policy" /\ SyncInit /\ FeatureInit /\ OqRests
    \/ gate = "feature" /\ FeatureInit /\ SyncRests /\ OqRests
    \/ gate = "questions" /\ OqInit /\ SyncRests /\ FeatureInit

Next ==
    \/ gate = "policy" /\ SyncNext /\ UNCHANGED <<gate, featureVars, oqVars>>
    \/ gate = "feature" /\ FeatureNext /\ UNCHANGED <<gate, syncVars, oqVars>>
    \/ gate = "questions" /\ OqNext /\ UNCHANGED <<gate, syncVars, featureVars>>

Spec == Init /\ [][Next]_<<gate, syncVars, featureVars, oqVars>>

\* The invariant of the part that moves: the inductive ones of the sync and
\* of the feature, the types of the question check.
RepoInv ==
    /\ gate = "policy" => RepairInv
    /\ gate = "feature" => FeatureInv
    /\ gate = "questions" => OqTypeOK
=============================================================================
