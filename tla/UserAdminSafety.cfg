SPECIFICATION Spec
CONSTANTS
    WebThreads = {w1, w2}
    Roles = {"admin", "operator"}
    MaxId = 2
    MaxRequests = 3
SYMMETRY WebSymmetry
CHECK_DEADLOCK FALSE
INVARIANTS
    TypeOK
    TrailReplaysToUsers
PROPERTIES
    AdminsLostOnlyByRace
    OwnersLostOnlyByRace
