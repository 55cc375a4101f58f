CONSTANTS
    p1 = p1
    p2 = p2
    u1 = u1
    u2 = u2
    Last = 1
    Pkgs = {p1}
    Units = {u1, u2}
    CodeOf <- Code
    DepsOf <- Deps
    UnitFileOf <- UnitText
    AuxOf <- AuxText
    HasBuild = FALSE
    OutputOf <- NoOutput
    DrainPolicy = "refuse"
    QuietChecks = 2
    SessionStates = {"none", "active", "unknown"}
    FreezeStates = {FALSE, TRUE}
    OptionSets <- AllFlags
    ToBehind = TRUE
    MaxAttempts = 1
SPECIFICATION FairSpec
CHECK_DEADLOCK FALSE
INVARIANTS
    GuardedRestart
PROPERTIES
    EveryOperationEnds
