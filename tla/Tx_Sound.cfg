SPECIFICATION FairSpec
CONSTANTS
    w1 = w1
    w2 = w2
    commit1 = commit1
    rollback1 = rollback1
    Writes <- TwoWrites
    Commits <- OneCommit
    Rollbacks <- OneRollback
    N = 2
    ParentKeepAlive = TRUE
    MaxRefusals = 1
INVARIANTS
    TypeOK
    CommitKeepsResolvedWrites
    FailureMeansNoEffect
    OneEndSucceeds
    StrandedOnlyAfterFailure
PROPERTIES
    InactiveForGood
    EndDeactivates
