SPECIFICATION FairSpec
CONSTANTS
    Procs = {p1, p2}
    Callers = {c1, c2}
    None = None
CHECK_DEADLOCK FALSE
INVARIANT
    TypeOK
PROPERTIES
    StoppedMeansGone
    LostOnlyByRaces
    CallsEnd
