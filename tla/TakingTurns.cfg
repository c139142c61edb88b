SPECIFICATION FairSpec
CONSTANTS
    g1 = g1
    a = a
    b = b
    x = x
    y = y
    r1 = r1
    r2 = r2
    GPUs = {g1}
    LLMs = {a, b}
    Backends = {x, y}
    Requests = {r1, r2}
    Jobs = {j1}
    Room <- MCRoom
    Plan <- MCPlan
    On <- MCOn
    Reserved <- MCReserved
    MayLock <- MCMayLock
    MayWant <- MCMayWant
    MaxLoaded = {0, 1}
    LoadAttempts = 2
    None = None
INVARIANTS
    TypeOK
    RepliesUncut
    RoomKept
PROPERTY
    NobodyCrowdedOut
    NobodyWaits
CHECK_DEADLOCK FALSE
