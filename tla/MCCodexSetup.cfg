CONSTANTS
    Versions = {v1, v2}
    Foreign = foreign
    Others = {other}
    NoTree = NoTree
    MaxFaults = 3
    MaxEdits = 1
SPECIFICATION FairSpec
INVARIANTS TypeOK PromisedTreeKept OneRemnant SuccessIsReal RestoredIsTrue
PROPERTIES ForeignTreeUntouched SetupConverges
