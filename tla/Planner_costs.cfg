CONSTANTS
    HoursPerMonth = 4
    MsPerHour = 4
    MsPerSecond = 1
    PerMillion = 2
    BytesPerGb = 2
    Bps = 4
    Unlimited = 8
    Week = 2
    MinPoints = 4
    DefaultWindow = 7
    MaxSpan = 6
    FeedDays = 5
    Cases <- SmallCases
    Open = Open
    None = None
    Refused = Refused
SPECIFICATION FairSpec
CHECK_DEADLOCK FALSE
INVARIANTS
    WholesaleExact
    BudgetCoversBand
PROPERTIES
    BreakEvenKept
