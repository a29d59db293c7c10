CONSTANTS
    Source = {s1, s2, s3}
    Call = {c1, c2}
    None = None
    PerSecond = 3
    PerSource = 2
    TableSize = 2
    Second = 2
    Minute = 3
    MaxDelay = 1
SPECIFICATION LimiterSpec
SYMMETRY Symmetry
INVARIANTS
    LimiterTypeOK
    RateBounded
    TableBounded
PROPERTIES
    RefusalJustified
