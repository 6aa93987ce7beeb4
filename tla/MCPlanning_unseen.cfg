CONSTANTS
    a = a
    twin = twin
    b = b
    tied = tied
    k = k
    f = f
    g = g
    Apps = {a, twin, b, tied}
    Casks = {k}
    Formulae = {f, g}
    None = None
    NoPlan = NoPlan
    NoAudit = NoAudit
    NoSnapshot = NoSnapshot
    Commands = {c1, c2}
    Clients = {x1, x2}
    PageSize = 2
    SystemApps = {}
    StoreApps = {twin}
    NestedApps = {twin}
    Bundle <- BundleOf
    Role <- RoleOf
    Rank <- RankOf
    Relations <- Pairs
    Plists <- AgentFiles
    Scenarios <- Managed
SPECIFICATION Spec
SYMMETRY Symmetry
INVARIANT UnseenUseBlocks
CHECK_DEADLOCK FALSE
