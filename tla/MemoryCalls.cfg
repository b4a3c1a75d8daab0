SPECIFICATION Spec
CONSTANTS
    ToolIds = {1, 2}
    MaxToolIds = 2
    MaxGrantRecords = 6
    LogicalIds = {"t1", "t2", "n1", "n2", "r1"}
    RecordKeys = {1, 2, 3}
    MaxContentBytes = 13
    MaxTags = 1
    MaxMetadataEntries = 1
    MaxMetadataEntryBytes = 1
    MaxQueryLimit = 3
    MaxTermBytes = 1
    MaxPartitionRecords = 2
    MaxTenantNamespaces = 1
    Contexts <- MCContexts
    Grants <- MCGrants
    RememberInputs <- MCRememberInputs
    TypedRequests <- MCTypedRequests
    Addresses <- MCAddresses
    SearchInputs <- MCSearchInputs
    Config <- MCConfig
    MaxRequestBytes = 1
    MaxMcpContentBytes = 2
    MaxMcpTags = 1
    MaxMcpQueryLimit = 3
    MaxResultBytes = 13
    KeyBytes = 1
    RecordBytes = 1
    FrameBytes = 1
    Times = {1, 2}
    MaxNodes = 3
VIEW View
INVARIANT IndexMatchesGraph
PROPERTIES ReferenceStore ReadsHideNothing DecisionBindsCall
CHECK_DEADLOCK FALSE
