CONSTANTS
    User = {u1}
    Network = {n1}
    Device = {d1, d2}
    Token = {t1}
    Nonce = {}
    Pair = {}
    UserToken = {}
    Creator = {c1}
    None = None
    Limits = {1, 2}
    DefaultLimit = 2
    NetworkQuota = 1
    FiveMinutes = 1
    MaxTime = 2
    Cert = {k1, k2, k3}
    Request = {q1}
    Call = {r1, r2}
    Month = 2
    Week = 1
SPECIFICATION CertSpec
SYMMETRY Symmetry
CHECK_DEADLOCK FALSE
INVARIANTS
    OneAnswerPerRequest
    TokenAdmitsOnce
PROPERTIES
    CapacityRespected
    RevokedGetsNothingNew
    ReplacedForCause
