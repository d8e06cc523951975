\* Two tickers, two tickets, one link, two requests at a time, one fault.
CONSTANTS
    a = a
    b = b
    Accounts = {"live", "paper", "confirm"}
    Approval <- MCApproval
    Tickers <- MCTickers
    Costs <- MCCosts
    TicketIds = {k1, k2}
    LinkIds = {l1}
    Hands = {h1, h2}
    OrderCap = 2
    DailyCap = 1
    OrdersPerRun = 2
    MaxRecords = 2
    MaxFaults = 1
    Nobody = Nobody
    NoTicket = NoTicket
    NoLink = NoLink
    NoTicker = NoTicker
SPECIFICATION Spec
INVARIANTS
    CapHolds
    OneOpenEntry
    OneSubmissionPerDecision
CHECK_DEADLOCK FALSE
PROPERTY
    ApprovalEnds
