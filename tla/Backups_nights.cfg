CONSTANTS
    db = db
    mail = mail
    nightly = nightly
    byhand = byhand
    Order <- Both
    HasDb = {db, mail}
    HasObjects = {mail}
    Daily = 2
    Weekly = 2
    WeekLength = 2
    DumpEvery = 2
    OffsiteDays = 2
    MinKeep = 2
    Faults = {"unhealthy", "copy", "throws", "prune", "upload", "manifest", "expire", "killed", "off", "skip"}
    LastNight = 4
    MaxFaults = 1
    MaxByHand = 1
    Lookers = {nightly, byhand}
    WalServices = {mail, db}
    RiseLimit = 2
    MishapLimit = 2
SPECIFICATION MCSpec
CHECK_DEADLOCK FALSE
INVARIANTS
    RetentionKept
    OkMeansBackedUp
    WalRiseRecorded
PROPERTIES
    PruneIsSafe
