\* As option_trade.cfg: two mishaps are a lost answer and a restart.
SPECIFICATION Spec
CONSTANTS
  Quantity = 2
  PollAttempts = 2
  MinRejections = 2
  MaxAttempts = 2
  MaxMishaps = 2
  MaxCloses = 1
  MaxOutside = 1
PROPERTIES
  ResumesOnItsId
CHECK_DEADLOCK FALSE
