CONSTANTS
    User = {u1, u2}
    Network = {n1, n2}
    Device = {d1, d2}
    Token = {}
    Nonce = {}
    Pair = {}
    UserToken = {}
    Creator = {}
    Req = {r1}
    Attempt = {x1}
    None = None
    Limits = {2}
    DefaultLimit = 2
    NetworkQuota = 1
    FiveMinutes = 1
    Minute = 2
    PresenceWindow = 1
    MaxTime = 0
SPECIFICATION MCSpec
PROPERTY
    OneAccountPerAttempt
