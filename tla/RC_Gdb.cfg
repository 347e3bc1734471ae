SPECIFICATION FairSpec
CONSTANTS
    c1 = c1
    c2 = c2
    Calls <- TwoCalls
    Uploads <- NoUploads
    N = 2
    Auth = "gdb"
    KeepAlive = TRUE
    Secured = TRUE
    MaxExpiries = 1
INVARIANTS
    TypeOK
    FailoverInOrder
    EffectAtMostOnce
    ResolvedMeansApplied
    RejectedWhenExhausted
    TypeErrorWithoutCredentials
    FreshTokenAfterRefusal
PROPERTIES
    ImplementsFailover
    EveryCallSettles
