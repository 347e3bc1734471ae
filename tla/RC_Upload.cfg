SPECIFICATION Spec
CONSTANTS
    c1 = c1
    c2 = c2
    Calls <- OneCall
    Uploads <- OneCall
    N = 2
    Auth = "gdb"
    KeepAlive = TRUE
    Secured = TRUE
    MaxExpiries = 1
INVARIANTS
    ResolvedUploadWasWhole
