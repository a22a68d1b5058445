SPECIFICATION FairSpec
CONSTANTS
    r1 = r1
    r2 = r2
    w1 = w1
    NoFile = NoFile
    Files = {1}
    Folders = {"temp", "uploads"}
    Requests = {r1, r2}
    Workers = {w1}
    ListLimit = 1
    BatchLimit = 2
INVARIANTS
    TypeOK
    LossExplained
    LeftoversExplained
    CleanerSparesLive
PROPERTIES
    FailedCollected
CHECK_DEADLOCK FALSE
