CONSTANTS
    User = {u1, u2}
    Network = {n1, n2, n3}
    Device = {d1, d2}
    Token = {}
    Nonce = {}
    Pair = {}
    UserToken = {b1}
    Creator = {c1, c2}
    Visit = {v1, v2}
    LoginSlots = 1
    Day = 1
    None = None
    Limits = {1}
    DefaultLimit = 1
    NetworkQuota = 1
    FiveMinutes = 1
    MaxTime = 0
SPECIFICATION LoginSpec
SYMMETRY Symmetry
CHECK_DEADLOCK FALSE
INVARIANTS
    BindingsAreLinked
    QuotaOverrun
    NoSessionOfDisabled
    SlotsReturned
PROPERTIES
    FirstAccountKept
    DisabledIsFrozen
