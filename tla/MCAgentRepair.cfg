CONSTANTS
    NoReply = NoReply
    Fields <- ReportFields
    Required <- ReportRequired
SPECIFICATION Spec
CHECK_DEADLOCK FALSE
INVARIANTS
    TypeOK
    SuccessIsLastAnswer
    RepairIsOfRefused
