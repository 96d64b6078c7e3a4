SPECIFICATION FairSpec

CONSTANTS
    Jobs = {j1}
    Workers = {w1}
    Clients = {c1}
    NoJob = NoJob
    ActiveLimit = 1
    MaxAttempts = 2
    LeaseTime = 1
    JobWindow = 3
    Retention = 1
    Heartbeats = FALSE
    MaxTime = 6
    MaxLag = 1
    CrashHorizon = 4

PROPERTIES
    EveryJobEnds
