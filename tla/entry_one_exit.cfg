SPECIFICATION Spec
CONSTANTS
    Quantity = 2
    HasTarget = FALSE
    PartialEntry = TRUE
    PartialExits = TRUE
    RefusesSecondExit = FALSE
    BlankReads = FALSE
    PollAttempts = 2
    MinRejections = 2
    ConfirmPasses = 2
    MaxAttempts = 3
    MaxFaults = 0
    MaxCrashes = 2
    MaxCloses = 2
    MaxOutside = 1
INVARIANT
    OneExitOrder
CHECK_DEADLOCK FALSE
