SPECIFICATION Spec
CONSTANTS
    MaxStops = 2
    MaxFaults = 1
    NoId = NoId
INVARIANT NothingLost
PROPERTIES HeldKeepsItsStop SiblingGoes NakedIsCovered
CHECK_DEADLOCK FALSE
