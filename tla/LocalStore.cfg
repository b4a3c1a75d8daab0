SPECIFICATION Spec
CONSTANTS
    t1 = t1  t2 = t2  c1 = c1  c2 = c2
    Tenants = {t1, t2}
    Namespaces = {"n"}
    ObjectKeys = {1, 2}
    ValueBytes = {0, 1, 2}
    MaxRevision = 3
    Callers = {c1, c2}
    Listers = {"l"}
    StoreLimits <- TightLimits
    PageLimit = 1
SYMMETRY Names
INVARIANTS CountersMatchObjects ListingIsComplete
PROPERTY ObjectStoreSpec
