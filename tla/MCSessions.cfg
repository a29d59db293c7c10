CONSTANTS
    User = {u1}
    Network = {n1}
    Device = {d1, d2}
    Token = {}
    Nonce = {}
    Pair = {}
    UserToken = {}
    Creator = {}
    Req = {r1, r2}
    Attempt = {x1, x2}
    None = None
    Limits = {2}
    DefaultLimit = 2
    NetworkQuota = 1
    FiveMinutes = 1
    Minute = 2
    PresenceWindow = 1
    MaxTime = 2
SPECIFICATION MCSpec
SYMMETRY Symmetry
INVARIANTS
    TypeOK
    RevocationBoundsLease
    TargetUnboundBoundsLease
    OneAttemptPerLink
    PresenceEndsWithLoss
PROPERTIES
    LiveAttemptKept
