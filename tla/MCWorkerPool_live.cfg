\* One process, crashes and shutdowns, no lost command and no expiry.
CONSTANTS
    j1 = j1
    j2 = j2
    j3 = j3
    p1 = p1
    p2 = p2
    w1 = w1
    w2 = w2
    NoEntry = NoEntry
    Jobs <- ThreeJobs
    Procs <- OneProc
    Workers <- OneWorker
    Unknown <- JustJ2
    Poison <- JustJ3
    DefaultMaxAttempts = 2
    MaxAttempts <- Limits
    Budget <- Restarts
SPECIFICATION FairSpec
PROPERTIES
    KeepsFairPromise
    EventuallySettled
