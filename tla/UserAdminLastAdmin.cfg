SPECIFICATION Spec
CONSTANTS
    WebThreads = {w1, w2}
    Roles = {"admin", "operator"}
    MaxId = 2
    MaxRequests = 2
CHECK_DEADLOCK FALSE
INVARIANTS
    AnAdminRemains
