CONSTANTS
    u1 = u1
    u2 = u2
    Last = 2
    Units = {u1}
    CodeOf <- Code
    UnitFileOf <- UnitText
    SocketOf <- Socket
    SchemaOf <- Schema
    Formats = {"time", "sha12"}
    Keep = 1
    SystemdSilent = FALSE
    SessionStates = {"none", "active"}
    OptionSets <- SomeFlags
    MaxAttempts = 2
SPECIFICATION Spec
CHECK_DEADLOCK FALSE
INVARIANTS
    HostMatchesCurrent
    NeverPrunedInUse
    CurrentIsWhole
