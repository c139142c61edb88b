SPECIFICATION Spec
CONSTANTS
    Procs = {p1, p2}
    Callers = {c1}
    None = None
SYMMETRY Symmetry
CHECK_DEADLOCK FALSE
INVARIANT
    RunningIsRecorded
