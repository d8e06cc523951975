\* Two orders, so that one record can be lost while the other is resolved; one
\* resolution and one fault anywhere.
CONSTANTS
    Orders = {o1, o2}
    Calls = {c1}
    OrphanBatchLimit = 3
    MaxFaults = 1
    NoRecord = NoRecord
    NoOrder = NoOrder
    NoCall = NoCall
SPECIFICATION Spec
INVARIANTS
    
    NoEntryInDoubt
PROPERTIES
    ResolutionCloses
    LostOrderIsFound
