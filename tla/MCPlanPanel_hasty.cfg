\* The user regenerates within staleTime of the last poll.
CONSTANTS
    Undefined = Undefined
    monday = monday
    tuesday = tuesday
    Dates <- OneDate
    Today = monday
    Budgets <- OnlyHasty
SPECIFICATION Spec
CHECK_DEADLOCK FALSE
INVARIANTS
    PollingKicksIn
