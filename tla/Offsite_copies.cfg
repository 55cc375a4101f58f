SPECIFICATION Spec
CONSTANTS
    Masters = {"k1", "k2"}
    Salts <- MCSalts
    Bytes = {1, 2, 3, 4, 7, 8, 9}
    ChunkSize = 2
    Files <- MCFiles
    ServiceOf <- MCServiceOf
    IsDump = {"live.dump"}
    Listing <- MCListing
    Plain <- MCPlain
    PartSize = 2
    Batches <- MCBatches
    LocalDays = 1
    Retention = 1
    MinKeep = 2
    Outs <- MCOuts
    Live <- MCLive
    Faults = {"refused", "answer lost", "killed", "damaged", "configured", "unlisted"}
    LastDay = 3
    MaxPushes = 3
    MaxFaults = 1
INVARIANTS
    RestoredIsPushed
    RestoreIsWhole
    OkRestores
CHECK_DEADLOCK FALSE
