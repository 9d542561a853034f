\* Two requests for one plan, two workers, every mishap once.
CONSTANTS
    r1 = r1
    r2 = r2
    monday = monday
    None = None
    Plans = {monday}
    Requests = {r1, r2}
    PlanOf <- PlanOfRequest
    MaxAttempts = 2
    Concurrency = 2
    Budget <- AllMishaps
SPECIFICATION FairSpec
CHECK_DEADLOCK FALSE
INVARIANTS
    TypeOK
    InProgressHasJob
    AnswerPresent
    AloneIsAnswered
PROPERTIES
    PlanSettles
