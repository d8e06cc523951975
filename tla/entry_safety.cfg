SPECIFICATION Spec
CONSTANTS
    Quantity = 2
    HasTarget = TRUE
    PartialEntry = TRUE
    PartialExits = TRUE
    RefusesSecondExit = TRUE
    BlankReads = TRUE
    PollAttempts = 2
    MinRejections = 2
    ConfirmPasses = 2
    MaxAttempts = 2
    MaxFaults = 1
    MaxCrashes = 1
    MaxCloses = 1
    MaxOutside = 0
INVARIANTS
    AbandonedMeansNoPosition
    ClosedOnEvidence
PROPERTIES
    ImplementsContract
    ConfirmationCovers
CHECK_DEADLOCK FALSE
