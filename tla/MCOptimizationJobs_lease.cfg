SPECIFICATION Spec

CONSTANTS
    Jobs = {j1}
    Workers = {w1, w2}
    Clients = {c1}
    NoJob = NoJob
    ActiveLimit = 1
    MaxAttempts = 2
    LeaseTime = 1
    JobWindow = 3
    Retention = 1
    Heartbeats = TRUE
    MaxTime = 6
    MaxLag = 2
    CrashHorizon = 6

INVARIANTS
    TypeOK
    RowsConsistent

PROPERTIES
    ValidLeaseRespected

SYMMETRY Symmetry
