CONSTANTS
    Device = {d1, d2}
    Attempt = {x1}
    Conn = {c1, c2, c3}
    Req = {}
    None = None
    QueueLimit = 1
    AttemptLimit = 3
SPECIFICATION Spec
SYMMETRY Symmetry
CHECK_DEADLOCK FALSE
INVARIANTS
    HubTypeOK
    OneSocketPerDevice
    SignalsInOrder
    NoGapBetweenSockets
