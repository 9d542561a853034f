\* Two tasks; one request fails or loses its reply, or one ranking is asked for.
CONSTANTS
    t1 = t1
    t2 = t2
    None = None
    Undefined = Undefined
    Tasks <- TwoTasks
    Budget = 1
SPECIFICATION Spec
SYMMETRY Symmetric
CHECK_DEADLOCK FALSE
INVARIANTS
    TypeOK
    ShownIsTrue
    InsightsSettle
    RankingFollows
