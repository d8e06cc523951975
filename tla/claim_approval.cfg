SPECIFICATION ApprovalSpec
CONSTANTS
    Tickers = {t1, t2, t3}
    Price <- MCPrice
    StopDistance <- MCStopDistance
    Premium <- MCPremium
    Multiplier = 2
    Sector <- MCSector
    Same = Same
    EquityLevels <- MCEquityLevels
    MarginEquity = 6
    Funds <- MCFunds
    RiskPercent = 20
    PositionPercent = 50
    TotalPercent = 70
    SectorPercent = 60
    DrawdownPercent = 20
    MaxPositions = 2
    OrdersPerRun = 2
    RampDivisor = 1
    Losses <- MCLosses
    LossLimit = 2
    MaxEvents = 3
    Unclassified = Unclassified
    NoEntry = NoEntry
    NoTicket = NoTicket
PROPERTY
    ScanOnlyProposes
CHECK_DEADLOCK FALSE
