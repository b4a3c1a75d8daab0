SPECIFICATION MCSpec
VIEW View
INVARIANTS InvokedUnderGrant
PROPERTIES  CallsStayInGrant
CONSTANTS
    ToolIds = {1, 2, 3, 4}
    MaxToolIds = 3
    MaxGrantRecords = 20
    Contexts <- MCContexts
    Grants <- MCGrants
    MaxTools = 1
    MaxPromptTextBytes = 1
    MaxPromptBytes = 2
    MaxSchemasBytes = 1
    MaxOutputTokens = 1
    MaxResponseTextBytes = 1
    MaxResponseCalls = 1
    MaxArgumentsBytes = 1
    MaxReportedTokens = 1
    MaxTotalTokens = 1
    CatalogModels = {"m"}
    CatalogSkills = {}
    CatalogSteering = {}
    CatalogTools = {1, 2, 3}
    RegisteredTools = {1, 2}
    MaxCapabilityReferences = 3
    MaxToolCalls = 1
    MaxOutputBytes = 1
    MaxInputBytes = 1
    SchemaBytes = 1
    Texts = {}
    TextBytes <- NoTexts
    Containment = {}
    BlankTexts = {}
    MaxSearchLimit = 1
    MaxQueryBytes = 1
    MaxDocumentTextBytes = 1
    MaxResultTextBytes = 1
    MaxStaticDocuments = 1
    MaxStaticTextBytes = 1
    AgentIds = {"a1", "a2", "b1"}
    AgentIdInputs = {"a1", "b1", "a2", "bad"}
    Builtins <- MCBuiltins
    DefinitionInputs <- MCDefinitionInputs
    InvokeInputs <- MCInvokeInputs
    InvocationAnswers <- MCInvocationAnswers
    MAX_MCP_SERIALIZED_RESULT_BYTES = 2
    Spelled <- MCSpelled
    Ordered <- MCOrdered
    MAX_JSON_INPUT_BYTES = 12
    Catalog <- MCCatalog
    WorkflowInputs <- MCWorkflowInputs
    StartInputs <- MCStartInputs
    RunKeys = {"k1"}
    MalformedRunId <- MCMalformedRunId
    SummaryBytes = 2
    MIN_TERMINAL_EVIDENCE_BYTES = 1
    MAX_EVIDENCE_BYTES = 2
CHECK_DEADLOCK FALSE
