SPECIFICATION Spec
CONSTANTS
  Coordinators = {c1, c2}
  Rows <- Rows2
  Deps <- Deps2
  PhasesOf <- Phases2
  Gates = 1
  MaxGeneration = 3
  MaxCrashes = 1
CHECK_DEADLOCK FALSE
SYMMETRY Symmetry
INVARIANT QueueHolds
