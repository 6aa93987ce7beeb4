CONSTANTS
    Versions = {v1, v2}
    Foreign = foreign
    Others = {other}
    NoTree = NoTree
    MaxFaults = 2
    MaxEdits = 1
SPECIFICATION Spec
INVARIANTS RepairsOnlyCompleteTrees
