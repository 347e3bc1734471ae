SPECIFICATION FairSpec
CONSTANTS
    w1 = w1
    w2 = w2
    commit1 = commit1
    rollback1 = rollback1
    Writes <- OneWrite
    Commits <- OneCommit
    Rollbacks <- None
    N = 1
    ParentKeepAlive = FALSE
    MaxRefusals = 1
PROPERTIES
    NoReloginWithoutKeepAlive
