\* One process, two workers, two jobs, two crashes and every other mishap once.
CONSTANTS
    j1 = j1
    j2 = j2
    j3 = j3
    p1 = p1
    p2 = p2
    w1 = w1
    w2 = w2
    NoEntry = NoEntry
    Jobs <- TwoJobs
    Procs <- OneProc
    Workers <- TwoWorkers
    Unknown = {}
    Poison = {}
    DefaultMaxAttempts = 2
    MaxAttempts <- Limits
    Budget <- TwoCrashes
SPECIFICATION FairSpec
INVARIANTS
    TypeOK
    NoDuplicate
    HeldIsProcessing
    OneHolder
    NothingStranded
    RunsBounded
PROPERTIES
    RecoverOnlyOrphans
    SettledNeverRuns
    KeepsPromise
    ShutdownCompletes
