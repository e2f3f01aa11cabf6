SPECIFICATION Spec
CONSTANTS
    Expressions <- SmallExpressions
    Missing = Missing
    Junk = Junk
    NoStep = NoStep
    NoText = NoText
INVARIANT AlwaysDescribed
