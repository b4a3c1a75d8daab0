CONSTANTS
    c1 = c1  c2 = c2
    Callers = {c1, c2}
    Tenants = {"t", "u"}
    MaxTools = 5
    MaxPromptTextBytes = 2
    MaxPromptBytes = 3
    MaxSchemasBytes = 10
    MaxOutputTokens = 4
    MaxResponseTextBytes = 4
    MaxResponseCalls = 3
    MaxArgumentsBytes = 20
    MaxReportedTokens = 5
    MaxTotalTokens = 8
    CatalogModels = {"p.m", "unknown"}
    CatalogTools = {"grep", "edit", "ghost", "factory.memory.recall"}
    RegisteredTools = {"grep", "edit", "factory.memory.recall"}
    MaxCapabilityReferences = 3
    MaxToolCalls = 3
    MaxOutputBytes = 4
    MaxSearchLimit = 2
    BuiltinList <- SampleBuiltins
    Offered <- SampleOffered
    Requests <- SampleRequests
    Responses <- SampleResponses
    Failures = {"Unavailable"}
    IndexAnswers <- SampleAnswers
    OutputBytes = {2}
    ModelProvider <- SampleProvider
    ServedProvider = "p"
    Texts <- SampleTexts
    TextBytes <- SampleTextBytes
    Containment <- SampleContainment
    BlankTexts = {"all"}
    MaxInputBytes = 2
    MaxSandboxArgumentBytes = 2
    MaxResultTextBytes = 3
    MaxQueryBytes = 2
    MaxDocumentTextBytes = 2
    MaxStaticDocuments = 4
    MaxStaticTextBytes = 5
    Fixtures <- SampleFixtures
    Corpora <- SampleCorpora
    FixedOutputs <- SampleOutputs
    CatalogSkills = {"s"}
    CatalogSteering = {}
    SchemaBytes = 2
SPECIFICATION Spec
SYMMETRY CallerSymmetry
INVARIANTS EffectsWithinGrant EffectsFollowPlan SignalStopsEffects ResultsStayInTenant
