SPECIFICATION MCSpec
CONSTANTS
  Sessions = {s1, s2}
  Calls = {c1, c2}
  Profiles <- ProfileNames
  Engine <- EngineTable
  Environment <- EnvironmentTable
  Capability <- CapabilityTable
  Databases <- DatabaseNames
  EngineOf <- DatabaseEngine
  IdentityOf <- DatabaseIdentity
  Identities <- IdentityNames
  Folded <- FoldedTable
  Unresolved = Unresolved
  Malformed = Malformed
  Submitted = {"mutation", "read", "unknown"}
  NoProfile = NoProfile
  NoDatabase = NoDatabase
  NoSession = NoSession
SYMMETRY Symmetry
CHECK_DEADLOCK FALSE
INVARIANTS
  Inv
  ProductionNeverWritten
  OnlyAttestedTargetsSeeSql
  RefusedOpeningKeepsNoConnection
  NoEffectWithoutRecord
  SuccessIsDurable
  RefusedCallHasNoTrace
PROPERTIES
  EndedSessionIsQuiet
  ImplementsWriteAuthority
