SPECIFICATION Spec
CONSTANTS
    Sites = {"a", "b"}
    Releases = {"r1", "r2"}
    BadReleases = {"r2"}
    Scenes <- MediaScenes
    None = None
    Service = "a"
    Repos = {"shared", "host"}
    Trees <- MCTrees
    FirstTree <- Edited
    VhostNames = {"x.conf", "y.conf"}
    MaxSessions = 1
    MaxAlerts = 2
INVARIANTS
    NullIsUnknown
CHECK_DEADLOCK FALSE
