SPECIFICATION Spec
CONSTANTS
  Coordinators = {c1}
  Rows <- Rows3
  Deps <- Deps3
  PhasesOf <- Phases3
  Gates = 2
  MaxGeneration = 4
  MaxCrashes = 2
CHECK_DEADLOCK FALSE
INVARIANTS
  TypeOK
  SerialInv
  EqualGenerationsAgree
  HumanIsObeyed
PROPERTIES
  InterruptedIsRecovered
  ImplementsRecord
