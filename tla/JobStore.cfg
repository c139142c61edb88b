SPECIFICATION FairSpec
CONSTANTS
    Jobs = {j1, j2}
    Kinds = {"image", "music", "video"}
    MaxCrashes = 1
CHECK_DEADLOCK FALSE
INVARIANTS
    TypeOK
    RecordsCurrent
    KeptForClients
    NothingStray
PROPERTIES
    FinishedFinal
    JobsEnd
