SPECIFICATION FairSpec
CONSTANTS
    Jobs = {j1}
    Scripts = {s1, s2}
    PythonScripts = {s2}
    SchedThreads = {c1, c2}
    WebThreads = {w1}
    NoJob = NoJob
    NoScript = NoScript
    MaxFires = 2
    MaxRequests = 1
    MaxEdits = 1
    MaxFaults = 1
CHECK_DEADLOCK FALSE
INVARIANTS
    TypeOK
    TrailMatchesStatus
    HeldRunsAreOpen
    OneRunningScheduledRow
    FiresAccounted
    SlotsAreHeld
PROPERTIES
    FinalRowsAreFrozen
    NoStartOverAKnownRun
    RunsLetGoForCause
    ImplementsLedger
    UndisturbedRunsFinalise
    SlotIsReleased
