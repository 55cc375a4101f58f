CONSTANTS
    p1 = p1
    p2 = p2
    u1 = u1
    u2 = u2
    Last = 2
    Pkgs = {p1}
    Units = {u1, u2}
    CodeOf <- Code
    DepsOf <- Deps
    UnitFileOf <- UnitText
    AuxOf <- AuxText
    HasBuild = TRUE
    OutputOf <- Output
    DrainPolicy = "refuse"
    QuietChecks = 1
    SessionStates = {"none"}
    FreezeStates = {FALSE}
    OptionSets <- NoFlags
    ToBehind = FALSE
    MaxAttempts = 2
SPECIFICATION Spec
CHECK_DEADLOCK FALSE
INVARIANTS
    ServesCheckout
    FilesMatch
    ExitCodeHonest
