SPECIFICATION MCSpec
CONSTANTS
    Sites = {"a", "b"}
    Releases = {"r1", "r2"}
    BadReleases = {"r2"}
    Scenes <- MCScenes
    None = None
    Service = "a"
    Repos = {"shared", "host"}
    Trees <- MCTrees
    FirstTree <- Edited
    MaxSessions = 1
    MaxAlerts = 1
    VhostNames = {"x.conf", "y.conf"}
INVARIANTS
    NewsTold
    VhostsSettle
    ZeroIsNobody
    PassIsProven
PROPERTIES
    NoFalseAllClear
    PagesFollow
CHECK_DEADLOCK FALSE
