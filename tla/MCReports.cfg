CONSTANTS
    Repos = {A, B}
    NoRepo = NoRepo
    Hooks = {h1}
    Runs = {1, 2}
    MaxPrompts = 3
    MaxGeneration = 8
    MaxBreaks = 1
    Audits = {r1, r2}
    MaxRuns = 1
    MaxEdits = 1
    MaxCuts = 1
    Trees = {0, 1}
    BaseTree = 0
    Branches = {"main", "other"}
    NoBranch = NoBranch
    MaxCommits = 2
    UserActs = {"edit", "commit", "undo", "switch", "run", "kill"}
    Packagers = {p1, p2}
    NoPackager = NoPackager
    Versions = {1, 2}
    MaxBuilds = 3
    MaxTroubles = 3
SPECIFICATION ReportsSpec
SYMMETRY Symmetry
VIEW View
INVARIANTS
    ReportsTypesOK
    CompletionBound
    EvidenceStands
    OneReleasedCommit
    ReleaseRecoverable
CHECK_DEADLOCK FALSE
