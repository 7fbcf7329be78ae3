SPECIFICATION Spec
CONSTANTS
    AgentPaths <- MCAgentPaths
    AgentTexts <- MCAgentTexts
    Policies = {"v1", "v2"}
    Payloads = {"pay1", "pay2"}
    MaxPolicyEdits = 1
    MaxSyncFailures = 1
    Questions = {"OQ-1"}
    Configs = {fixtures1, fixtures2}
    ExpectedSources = {contractTests, dbAssertions}
    Submissions <- MCSubmissions
    MaxRevisions = 4
    Registries <- MCRegistries
    MaxCommits = 2
SYMMETRY Symmetry
INVARIANTS
    RepoInv
    SyncRepairs
    FilesAlwaysValid
    FinishedIsVerified
    NoRowOverUnknown
    StatusChangesAreSeen
PROPERTIES
    RoleTextIsKept
