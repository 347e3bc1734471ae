SPECIFICATION Spec
CONSTANTS
    c1 = c1
    c2 = c2
    Calls <- TwoCalls
    Settings <- Expiring
    MaxLogouts = 0
INVARIANTS
    FreshTokenAfterRefusal
