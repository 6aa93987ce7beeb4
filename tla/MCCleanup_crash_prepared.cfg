CONSTANTS
    NoCommand = NoCommand
    Command = {c1}
    Kind <- OneFormula
    Owner <- NoOwner
    PlanSize <- OneRevisionOfOne
    MaxRuns = 1
    Budget <- OneCrash
SPECIFICATION Spec
INVARIANTS UnresolvedRunIsRecoverable
CHECK_DEADLOCK FALSE
