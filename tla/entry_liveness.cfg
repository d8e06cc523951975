SPECIFICATION FairSpec
CONSTANTS
    Quantity = 1
    HasTarget = TRUE
    PartialEntry = FALSE
    PartialExits = FALSE
    RefusesSecondExit = TRUE
    BlankReads = FALSE
    PollAttempts = 1
    MinRejections = 2
    ConfirmPasses = 2
    MaxAttempts = 2
    MaxFaults = 1
    MaxCrashes = 0
    MaxCloses = 1
    MaxOutside = 1
PROPERTIES
    NakedIsNoticed
    GoneIsSettled
    UnknownIsResolved
CHECK_DEADLOCK FALSE
