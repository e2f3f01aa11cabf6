SPECIFICATION Spec
CONSTANTS
    WebThreads = {w1, w2}
    TicksPerSecond = 2
    TokenSeconds = 1
    MaxEvents = 2
    WindowSeconds = 1
    MaxClock = 5
    MaxRequests = 4
    MaxRestarts = 1
SYMMETRY ThreadSymmetry
INVARIANTS
    TypeOK
    AttemptsBounded
    OldestLeavesInTime
PROPERTIES
    LoggedOutStaysOut
    OldTokensRefused
CHECK_DEADLOCK FALSE
