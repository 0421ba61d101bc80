SPECIFICATION Spec
CONSTANTS
    Url = {u1, u2, u3, u4}
    NoUrl = NoUrl
    Lengths = {0, 1, 2, 4, 5, 11, 15, 18}
    CacheSize = 4
    Policies = {"lru", "minlru", "rand"}
    Width = 6
    Half = 8
    MaxRequests = 8
SYMMETRY UrlSymmetry
CHECK_DEADLOCK FALSE
INVARIANTS
    TypeOK
    SizeAccounted
    TablesAgree
    AlwaysEvictable
PROPERTY
    EvictsByRecency
