CONSTANTS
    User = {u1, u2}
    Network = {n1, n2}
    Device = {d1, d2}
    Token = {}
    Nonce = {s1}
    Pair = {p1}
    UserToken = {}
    Creator = {}
    Req = {r1}
    None = None
    Limits = {2}
    DefaultLimit = 2
    NetworkQuota = 1
    FiveMinutes = 1
    MaxTime = 0
SPECIFICATION MCSpec
SYMMETRY Symmetry
PROPERTIES
    Lifecycle_Spec
