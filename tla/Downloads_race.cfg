SPECIFICATION Spec
CONSTANTS
    Callers = {1, 2}
    MaxRuns = 3
INVARIANT NothingRaces
CHECK_DEADLOCK FALSE
