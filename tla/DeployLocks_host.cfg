CONSTANTS
    o1 = o1
    o2 = o2
    o3 = o3
    a = a
    b = b
    NoOp = NoOp
    Ops = {o1, o2, o3}
    Deploys = {o1, o2, o3}
    Services = {a, b}
    SvcOf <- TwoServices
SPECIFICATION FairSpec
CHECK_DEADLOCK FALSE
INVARIANTS
    ExclusiveUnlessStolen
    OneDeployWorks
PROPERTIES
    QueueMoves
    LeftoverNeverBlocks
