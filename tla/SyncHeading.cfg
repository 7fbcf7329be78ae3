SPECIFICATION Spec
CONSTANTS
    AgentPaths <- MCAgentPaths
    AgentTexts <- HeadingTexts
    Policies = {"v1", "v2"}
    Payloads = {"pay1", "pay2"}
    MaxPolicyEdits = 0
    MaxSyncFailures = 0
    Questions = {"OQ-1"}
    Configs = {fixtures1, fixtures2}
    ExpectedSources = {contractTests, dbAssertions}
    Submissions <- MCSubmissions
    MaxRevisions = 1
    Registries <- MCRegistries
    MaxCommits = 1
INVARIANTS
    BlocksAreRefreshed
