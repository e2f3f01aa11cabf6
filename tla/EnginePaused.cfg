SPECIFICATION Spec
CONSTANTS
    Jobs = {j1}
    Scripts = {s1}
    PythonScripts = {s1}
    SchedThreads = {c1}
    WebThreads = {w1}
    NoJob = NoJob
    NoScript = NoScript
    MaxFires = 1
    MaxRequests = 0
    MaxEdits = 1
    MaxFaults = 0
CHECK_DEADLOCK FALSE
PROPERTIES
    FlippedJobsAreSkipped
