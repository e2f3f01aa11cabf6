SPECIFICATION FairSpec
CONSTANTS
    Jobs = {j1}
    Scripts = {s1}
    Exprs = {e1, e2, bad}
    Schedulable = {e1, e2}
    WebThreads = {w1, w2}
    Periodic = Periodic
    NoJob = NoJob
    NoScript = NoScript
    NotArmed = NotArmed
    Nobody = Nobody
    MaxEdits = 3
    MaxRestarts = 1
INVARIANTS
    TypeOK
    QuietMeansAgreed
PROPERTIES
    Converges
