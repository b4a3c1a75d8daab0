SPECIFICATION Spec
VIEW View
CONSTANTS
    ToolIds = {1, 2}
    MaxToolIds = 2
    MaxGrantRecords = 16
    Contexts <- MCContexts
    Grants <- MCGrants
    Malformed = Malformed
    MAX_IDENTIFIER_BYTES = 14
    MAX_BODY_BYTES = 3
    MAX_ATTRIBUTES = 3
    MAX_ATTRIBUTE_VALUE_BYTES = 40
    MAX_EVENT_BYTES = 120
    MAX_QUERY_LIMIT = 3
    MAX_METRIC_UNIT_BYTES = 3
    MAX_METRIC_BYTES = 60
    MAX_SPAN_BYTES = 60
    MAX_TRACESTATE_BYTES = 3
    MAX_BAGGAGE_ENTRIES = 2
    MAX_BAGGAGE_VALUE_BYTES = 5
    ObservabilityConfig <- MCConfig
    MAX_LOCAL_EVENTS_PER_TENANT = 3
    MAX_LOCAL_EVENTS_TOTAL = 2
    MaxSequence = 4
    Events <- MCEvents
    Queries <- MCQueries
    MaxTelemetryRequest = 1
    MaxTelemetryResult = 26
    Metrics <- MCMetrics
    Emitters = {e1, e2}
    Headers <- MCHeaders
    Spans <- MCSpans
    MaxAccepted = 3
    Callers = {c1, c2}
    SandboxTenants = {"t1", "t2"}
    Commands <- MCCommands
    Outputs = {0, 2}
    MAX_PROGRAM_BYTES = 2
    MAX_ARGUMENTS = 2
    MAX_ARGUMENT_BYTES = 2
    MAX_ARGUMENTS_BYTES = 3
    MAX_WORKING_DIRECTORY_BYTES = 2
    MAX_TIMEOUT_MILLIS = 2
    MaxDto = 1
    MaxResponse = 1
    MaxCalls = 2
INVARIANTS RingKeepsNewest EventsFollowEffects OneInstrumentPerName
PROPERTIES PagesAreTruthful ContextSurvivesHops
CHECK_DEADLOCK FALSE
