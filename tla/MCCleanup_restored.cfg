CONSTANTS
    NoCommand = NoCommand
    Command = {c1}
    Kind <- TwoFormulae
    Owner <- NoOwners
    PlanSize <- OneRevisionOfTwo
    MaxRuns = 1
    Budget <- TwoCommands
SPECIFICATION Spec
INVARIANTS RestoredRunTerminates
CHECK_DEADLOCK FALSE
