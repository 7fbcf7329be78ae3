SPECIFICATION Spec
CONSTANTS
  Top = 2
  Refs <- RefNames
  Cells <- CellTable
  Inside <- InsideTable
  Ids = {r1, r2}
  MaxRows = 3
  MaxEdits = 2
  MaxChanges = 2
SYMMETRY Symmetry
CHECK_DEADLOCK FALSE
INVARIANT AdoptedPromotionsBringEvidence
