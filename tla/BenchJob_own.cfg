SPECIFICATION Spec
CONSTANTS
    b1 = b1
    b2 = b2
    s1 = s1
    Builds = {b1, b2}
    UserBuild = b1
    Settings = {s1}
    Own = Own
    None = None
    Plans <- MCProfiles
    MaxRuns = 1
INVARIANTS
    OwnIsServed
