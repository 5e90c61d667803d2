CONSTANTS
    NTasks = 3
    Faults = {"kill", "create", "closing", "worker", "gate", "error", "source"}
    MaxFaults = 4
    None = None
    SkillCount = 4
    NameOf <- TwoOfOneName
    SkillTrees = {1, 2, 3}
    Unsuitable = {2}
    Relevant = {"y", "own"}
    Reserved = {"own"}
    Requests <- AskedOrDenied
    Calls = {k1, k2}
    NoCall = NoCall
    MaxSelected = 1
    MaxChars = 2
    MaxChanges = 1
SPECIFICATION TaskAndRoutingSpec
SYMMETRY Symmetry
VIEW View
INVARIANTS
    EveryTaskDelivered
    OnlyVerifiedEdits
    EvidenceRecoverable
    LaunchedRouteCurrent
CHECK_DEADLOCK FALSE
