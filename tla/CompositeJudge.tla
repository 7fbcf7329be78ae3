--------------------------- MODULE CompositeJudge ---------------------------
(***************************************************************************)
(* The composite judge (migration/judge/composite.py) over the results its *)
(* ports report (migration/judge/ports.py).  A list of results is the set  *)
(* of them: the verdict depends on nothing else, and a source may report   *)
(* several results.  Details and capture items are left out.               *)
(***************************************************************************)

Blocking == {"NOT_SUBMITTED", "NOT_IMPLEMENTED"}

SourceVerdicts == {"PASS", "FAIL", "INSUFFICIENT"} \union Blocking

CompositeVerdicts == {"PASS", "FAIL", "PARTIAL", "BLOCKED"}

Results(sources) == [source : sources, verdict : SourceVerdicts]

Reporting(results) == {r.source : r \in results}

\* every expected source that reported nothing counts as not submitted
Merge(expected, results) ==
    results \union [source : expected \ Reporting(results), verdict : {"NOT_SUBMITTED"}]

Judge(expected, results) ==
    LET seen == {r.verdict : r \in Merge(expected, results)} IN
    IF seen = {} THEN "BLOCKED"
    ELSE IF "FAIL" \in seen THEN "FAIL"
    ELSE IF seen \intersect Blocking # {} THEN "BLOCKED"
    ELSE IF seen = {"PASS"} THEN "PASS"
    ELSE "PARTIAL"
=============================================================================
