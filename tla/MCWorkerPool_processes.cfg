\* Two processes with a worker each, one job, every mishap once.
CONSTANTS
    j1 = j1
    j2 = j2
    j3 = j3
    p1 = p1
    p2 = p2
    w1 = w1
    w2 = w2
    NoEntry = NoEntry
    Jobs <- JustJ2
    Procs <- TwoProcs
    Workers <- OneWorker
    Unknown = {}
    Poison = {}
    DefaultMaxAttempts = 2
    MaxAttempts <- Limits
    Budget <- AllMishaps
SPECIFICATION Spec
INVARIANTS
    NoJobLost
    DeadLetterEarned
    IndInv
