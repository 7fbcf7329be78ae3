SPECIFICATION Spec
CONSTANTS
  Objects <- ObjectNames
  Registry <- RegistryOrder
  Category <- CategoryTable
  Lists <- ListsTable
  Defining <- DefiningQueries
  Commands <- CommandLines
  Covers <- CoverTable
  Encrypted = {"view"}
  Denied = {"view"}
  MaxChanges = 1
  step1 = step1
  step2 = step2
SYMMETRY Symmetry
CHECK_DEADLOCK FALSE
INVARIANTS
  TypeOK
  AbsenceIsEvidence
  StepTextNeverOutranksJobs
  WrongTargetSeesNothing
  
  Inv
