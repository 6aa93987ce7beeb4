CONSTANTS
    NoCommand = NoCommand
    Command = {c1, c2}
    Kind <- ThreeItems
    Owner <- FormulaOfFirst
    PlanSize <- OneRevisionOfThree
    MaxRuns = 1
    Budget <- TwoCrashes
SPECIFICATION Spec
SYMMETRY Symmetry
INVARIANTS TypeOK JournalTellsTheTruth UndoneInReverse ManifestsAreValid
PROPERTIES WriteAhead
CHECK_DEADLOCK FALSE
