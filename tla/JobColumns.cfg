SPECIFICATION Spec
CONSTANTS
    WebThreads = {w1, w2}
    Fields = {}
    Parts = {minute, hour}
    Texts = {a, b}
    Scripts = {s1}
    NoScript = NoScript
    Null = Null
    NoRow = NoRow
    MaxId = 2
    MaxRequests = 3
SYMMETRY DataSymmetry
CHECK_DEADLOCK FALSE
INVARIANTS
    DerivedInSync

