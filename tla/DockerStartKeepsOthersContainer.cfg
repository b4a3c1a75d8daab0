SPECIFICATION Spec
CONSTANTS
    Calls = {c1, c2}
    Tenants = {"t"}
    Requests = {"r"}
    MaxContainers = 2
PROPERTIES StartKeepsOthersContainer
