CONSTANTS
    User = {u1}
    Network = {n1}
    Device = {d1, d2}
    Token = {}
    Nonce = {s1}
    Pair = {p1, p2}
    UserToken = {}
    Creator = {}
    Req = {r1, r2}
    None = None
    Limits = {2}
    DefaultLimit = 2
    NetworkQuota = 1
    FiveMinutes = 1
    MaxTime = 1
SPECIFICATION MCSpec
SYMMETRY Symmetry
INVARIANTS
    TypeOK
    OpenPairsAuthorized
    OpenPairsSpaced
    ShareMintsOnePair
    DeletedNetworkIsEmpty
PROPERTIES
    Lifecycle_Spec
