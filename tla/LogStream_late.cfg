SPECIFICATION Spec
CONSTANTS
    Sources = {s1}
    None = None
    Pages = {"start"}
    HistSize = 1
    ChanCap = 1
    MaxLines = 1
    MaxFaults = 0
    MaxFlips = 0
CHECK_DEADLOCK FALSE
INVARIANT
    LaterGetTheEnd
