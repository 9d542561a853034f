\* Two dates; the user goes to the other one and back around a request, or generates
\* one date twice; a request is lost; nobody regenerates in haste.
CONSTANTS
    Undefined = Undefined
    monday = monday
    tuesday = tuesday
    Dates <- TwoDates
    Today = monday
    Budgets <- Patient
SPECIFICATION FairSpec
CHECK_DEADLOCK FALSE
INVARIANTS
    TypeOK
    PollingKicksIn
    QuietShowsRow
PROPERTIES
    ShownSettles
