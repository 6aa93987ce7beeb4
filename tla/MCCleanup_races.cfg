CONSTANTS
    NoCommand = NoCommand
    Command = {c1, c2}
    Kind <- AppThenFormula
    Owner <- NoOwners
    PlanSize <- TwoRevisions
    MaxRuns = 2
    Budget <- OneOfAll
SPECIFICATION Spec
INVARIANTS EvidenceBacksClaims OnlyWhatWasReviewed
PROPERTIES NoBundleLost KeepsLedger
CHECK_DEADLOCK FALSE
