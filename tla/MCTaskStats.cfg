\* Two tasks, a trend of two of four days.
CONSTANTS
    t1 = t1
    t2 = t2
    Tasks = {t1, t2}
    TrendDays = 2
    LastDay = 3
SYMMETRY Symmetry
SPECIFICATION Spec
CHECK_DEADLOCK FALSE
INVARIANTS
    TypeOK
    TrendIsRight
    TrendIsCounted
