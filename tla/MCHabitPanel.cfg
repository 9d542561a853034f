\* Two habits at most, a window of three days, two requests at once.
CONSTANTS
    Undefined = Undefined
    None = None
    h1 = h1
    h2 = h2
    Habits = {h1, h2}
    s1 = s1
    s2 = s2
    Slots = {s1, s2}
    Window = 3
    LastDay = 4
    Budget <- Clicks
SYMMETRY Symmetry
SPECIFICATION Spec
CHECK_DEADLOCK FALSE
INVARIANTS
    TypeOK
    ShownIsTrue
    StreakIsRight
