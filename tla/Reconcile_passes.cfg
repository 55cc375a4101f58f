CONSTANTS
    a = a
    b = b
    Order <- TwoServices
    AutoServices = {a, b}
    Last = 1
    RuntimeOf <- EachRuns
    Faults = {"killed"}
    Operators = FALSE
SPECIFICATION MCSpec
CHECK_DEADLOCK FALSE
INVARIANTS
    OnlyGreenUnlessPushed
    OperatorsFreezeHolds
PROPERTIES
    EachAutoServiceFollows
