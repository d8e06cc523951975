\* Two contracts, two sells, two mishaps, one close, one sale by the owner.
SPECIFICATION FairSpec
CONSTANTS
  Quantity = 2
  PollAttempts = 2
  MinRejections = 2
  MaxAttempts = 2
  MaxMishaps = 2
  MaxCloses = 1
  MaxOutside = 1
INVARIANTS
  OneSale
  JournalIsTrue
PROPERTIES
  SaleEnds
  ExpiryIsActedOn
CHECK_DEADLOCK FALSE
