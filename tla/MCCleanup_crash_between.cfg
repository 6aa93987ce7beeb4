CONSTANTS
    NoCommand = NoCommand
    Command = {c1}
    Kind <- TwoFormulae
    Owner <- NoOwners
    PlanSize <- OneRevisionOfTwo
    MaxRuns = 1
    Budget <- OneCrash
SPECIFICATION Spec
INVARIANTS ApprovedUndoIsAccepted
CHECK_DEADLOCK FALSE
