------------------------- MODULE MCGradeTransition -------------------------
(* GradeTransition with three grades and two references, one part of the other. *)
EXTENDS GradeTransition

RefNames == {"x.log", "x.log.1"}
CellTable == {{}, {"x.log"}, {"x.log.1"}}
InsideTable == {<<"x.log", "x.log.1">>}
Symmetry == Permutations(Ids)
=============================================================================
