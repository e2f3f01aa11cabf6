SPECIFICATION Spec
CONSTANTS
    Expressions <- SmallExpressions
    Missing = Missing
    Junk = Junk
    NoStep = NoStep
    NoText = NoText
INVARIANTS
    TypeOK
    StoredIsCanonical
    MeaningKept
    OnlyStepsDisagree
    TriggerFollowsRow
    DescriptionIsExact
