\* One process, a handler that outlives ackTimeout, a shutdown.
CONSTANTS
    j1 = j1
    j2 = j2
    j3 = j3
    p1 = p1
    p2 = p2
    w1 = w1
    w2 = w2
    NoEntry = NoEntry
    Jobs <- OneJob
    Procs <- OneProc
    Workers <- OneWorker
    Unknown = {}
    Poison = {}
    DefaultMaxAttempts = 2
    MaxAttempts <- Limits
    Budget <- OnlyExpiry
SPECIFICATION Spec
PROPERTIES
    FinishedIsSettled
