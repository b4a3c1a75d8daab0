SPECIFICATION MCSpec
CONSTANTS
    Words <- MCWords
    Digits = {"1"}
    MAX_SEGMENT_BYTES = 4
    CargoNames = {"w", "p"}
    GenerateInputs <- MCGenerateInputs
    Generators = {"g1", "g2"}
    MAX_CONTRIBUTIONS = 3
    MAX_TOOLS = 5
    MAX_AGGREGATE_SCHEMA_BYTES = 24
    Contributions <- MCContributions
    ToolArguments <- MCToolArguments
    MAX_MCP_STDIO_FRAME_BYTES = 2
    Streams <- MCStreams
    Senders = {"s1", "s2"}
    MaxFaults = 2
    LogicalIds = {"t1", "t2", "p1"}
    AuthToolIds = {1, 2, 3}
    MAX_TOOL_IDS = 2
    MAX_TOKEN_PRESENTATION_BYTES = 12
    MAX_TOKEN_BYTES = 10
    MAX_BLOCKS = 3
    MAX_DATALOG_FACTS = 8
    MAX_DATALOG_RULES = 2
    MAX_DATALOG_CHECKS = 1
    RootKey = "root"
    Mints <- MCMints
    Authorities <- MCAuthorities
    HolderBlocks <- MCHolderBlocks
    AuthRequests <- MCAuthRequests
    Clock = {1, 2, 3}
    MaxTokenBlocks = 4
INVARIANTS SentIsWritten CallsReachOwner TargetsAccounted AttenuationNarrows DecisionBindsRequest
PROPERTIES FramingIgnoresChunks
CHECK_DEADLOCK FALSE
