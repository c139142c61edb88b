SPECIFICATION FairSpec
CONSTANTS
    b1 = b1
    b2 = b2
    s1 = s1
    Builds = {b1, b2}
    UserBuild = b1
    Settings = {s1}
    Own = Own
    None = None
    Plans <- MCPlans
    MaxRuns = 2
INVARIANTS
    TypeOK
    AppliedIsServed
    NothingLeft
PROPERTIES
    CompletedKept
    UserServed
