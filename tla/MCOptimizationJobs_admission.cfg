SPECIFICATION Spec

CONSTANTS
    Jobs = {j1, j2}
    Workers = {w1}
    Clients = {c1, c2}
    NoJob = NoJob
    ActiveLimit = 1
    MaxAttempts = 2
    LeaseTime = 1
    JobWindow = 2
    Retention = 1
    Heartbeats = FALSE
    MaxTime = 2
    MaxLag = 1
    CrashHorizon = 0

INVARIANTS
    ActiveCapped

PROPERTIES
    OutcomesKept
    ImplementsLifecycle

SYMMETRY Symmetry
