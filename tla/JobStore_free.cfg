SPECIFICATION Spec
CONSTANTS
    Jobs = {j1, j2}
    Kinds = {"video"}
    MaxCrashes = 0
CHECK_DEADLOCK FALSE
INVARIANT
    CancelledMeansFree
