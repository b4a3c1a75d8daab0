SPECIFICATION MCSpec
CONSTANTS
    p1 = p1  p2 = p2
    Tenants = {"t", "u"}
    Namespaces = {"n"}
    ObjectKeys = {1}
    ValueBytes = {1, 2}
    MaxRevision = 3
    Processes = {p1, p2}
    Callers = {"c"}
    LimitChoices <- BothLimits
    Base = 4
    TenantIds <- SampleTenants
    NamespaceIds <- SampleNamespaces
    RawKeys <- SampleKeys
    MaxComponent = 2
    MaxKey = 2
    MaxRows = 2
SYMMETRY ProcessNames
INVARIANTS AcknowledgedSurvives OwnStoreValidates RangeListsScope
PROPERTY ObjectStoreSpec
