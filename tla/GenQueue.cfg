SPECIFICATION FairSpec
CONSTANTS
    GPUs = {g1, g2}
    Jobs = {j1, j2, j3}
    Holders = {h1, h2}
    Owners = {bench}
    MaxWaitingPerGPU = 2
    None = None
INVARIANTS
    TypeOK
    OneUser
    Bookkeeping
    NobodyForgotten
PROPERTIES
    ClaimKeepsJobsOut
    FirstComeFirstServed
    Served
    ImplementsTurns
