SPECIFICATION FairSpec
CONSTANTS
    c1 = c1
    c2 = c2
    Calls <- TwoCalls
    Settings <- Sound
    MaxLogouts = 2
INVARIANTS
    TypeOK
    RefusedAgainOnlyAfterLogouts
PROPERTIES
    EveryCallSettles
    ImplementsFailover
