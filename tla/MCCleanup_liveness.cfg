CONSTANTS
    NoCommand = NoCommand
    Command = {c1, c2}
    Kind <- ThreeItems
    Owner <- FormulaOfFirst
    PlanSize <- OneRevisionOfThree
    MaxRuns = 1
    Budget <- TwoCrashesAtRest
SPECIFICATION UndoingSpec
PROPERTIES LockIsReleased RecoveryEnds
CHECK_DEADLOCK FALSE
