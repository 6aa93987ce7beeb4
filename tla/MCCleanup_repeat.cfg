CONSTANTS
    NoCommand = NoCommand
    Command = {c1}
    Kind <- TwoFormulae
    Owner <- NoOwners
    PlanSize <- TwoRevisions
    MaxRuns = 3
    Budget <- OneDrift
SPECIFICATION Spec
INVARIANTS PlanRevisionRunsOnce
CHECK_DEADLOCK FALSE
