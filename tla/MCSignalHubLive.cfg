CONSTANTS
    Device = {d1, d2}
    Attempt = {}
    Conn = {c1, c2}
    Req = {r1}
    None = None
    QueueLimit = 1
    AttemptLimit = 0
SPECIFICATION FairSpec
CHECK_DEADLOCK FALSE
INVARIANT
    RevokedIsToldOrClosed
PROPERTIES
    QueueMoves
    ClosedIsFreed
