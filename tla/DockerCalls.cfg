SPECIFICATION Spec
CONSTANTS
    Calls = {c1, c2}
    Tenants = {"t", "u"}
    Requests = {"r"}
    MaxContainers = 2
INVARIANT TimedOutCommandIsGone
PROPERTY RemovesOnlyOwn
