CONSTANTS
    NoRun = NoRun
    Run = {r1, r2}
    Plan = {p1, p2}
    MaxRevision = 3
SPECIFICATION Spec
SYMMETRY Symmetry
INVARIANTS TypeOK SingleUnresolved PointerIsNewestRow UndoReachesTheRightRun HistoryIsLegal
PROPERTIES KeepsLedger
CHECK_DEADLOCK FALSE
