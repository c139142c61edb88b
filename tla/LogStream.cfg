SPECIFICATION FairSpec
CONSTANTS
    Sources = {s1, s2}
    None = None
    Pages = {"script", "build", "start", "parts"}
    HistSize = 2
    ChanCap = 1
    MaxLines = 3
    MaxFaults = 2
    MaxFlips = 2
CHECK_DEADLOCK FALSE
INVARIANTS
    TypeOK
    HeldOnlyWhileNeeded
    PanelFaithful
    HeardOnce

    
