CONSTANTS
    DatabasePath = {a}
    KeyPath = {b, c}
    Command = {i1, i2}
    None = None
    Handler = {h1, h2}
SPECIFICATION ServiceSpec
CHECK_DEADLOCK FALSE
INVARIANTS
    DatabaseHasKey
    NoLockCycle
    CleanShutdown
PROPERTIES
    StateNeverOverwritten
    ServiceEnds
