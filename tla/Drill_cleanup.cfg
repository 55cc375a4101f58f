CONSTANTS
    Drills = {d1, d2}
    Dbs = {main}
    MaxMishaps = 2
    MaxKills = 1
    MaxDeploys = 1
SPECIFICATION DrillSpec
SYMMETRY AnyDrill
CHECK_DEADLOCK FALSE
INVARIANTS
    InstanceIsolated
    EndsClean
    PassedIsOwn
