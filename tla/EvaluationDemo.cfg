SPECIFICATION MCSpec
CONSTANTS
    ToolIds = {1, 2}
    MaxToolIds = 2
    MaxGrantRecords = 16
    Contexts <- MCContexts
    Grants <- MCGrants
    LogicalIds = {"t1", "t2", "t3", "tenant", "demo", "r2", "r3", "w", "a", "g", "e"}
    Versions = {"v1"}
    MAX_CRITERIA = 2
    MAX_EVENTS = 2
    MAX_EXPECTED_BYTES = 9
    MAX_EVENT_BYTES = 15
    MAX_SNAPSHOT_BYTES = 181
    MAX_FINDINGS = 2
    MAX_FINDING_BYTES = 18
    MAX_RESULTS_PER_TENANT = 2
    MAX_RESULTS_GLOBAL = 3
    EvaluationConfig <- MCConfig
    RunIds = {"demo", "r2"}
    TenantOf <- MCTenantOf
    Outputs = {"output", "overlong", "overlonger"}
    MaxRequestDto = 1
    MaxResultBytes = 210
    MaxToolText = 300
    JsonFrame = 10
    Callers = {c1, c2}
    EvaluateInputs <- MCEvaluateInputs
    DemoRun = "demo"
    DemoDefinition <- MCDefinition
    MAX_RUN_ID_BYTES = 4
    MAX_TELEMETRY_QUERY_LIMIT = 2
INVARIANTS ResultsDescribeRuns AnswersAreStored
PROPERTIES DeadlineWakes
CHECK_DEADLOCK FALSE
