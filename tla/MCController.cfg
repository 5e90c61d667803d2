CONSTANTS
    Controllers = {c1, c2}
    Sessions = {s1, s2}
    Choices = {a, b}
    Faults = {"kill", "hangup", "write"}
    MaxFaults = 2
    None = None
    RunTasks = {t1, t2}
    MaxPlans = 3
    MaxTrees = 4
    MaxOpenings = 3
    ReviewLimit = 2
    RepairLimit = 1
    KillsAllowed = TRUE
    Lanes = 2
    MaxCommits = 4
    MaxEntries = 3
    Runners = {r1, r2}
    Threads = {h1, h2}
    NoThread = NoThread
    NoRunner = NoRunner
    Providers <- TwoProviders
    MaxCalls = 2
    MaxProcs = 3
    MaxStops = 1
    GateList <- RequiredAndDiagnostic
    MaxWrites = 1
SPECIFICATION ControllerSpec
SYMMETRY Symmetry
VIEW View
INVARIANTS
    ControllerTypesOK
    OneDecision
    SubmissionKept
    DeliveredAsVerified
    
    LaunchesWithinBudget
    AnswerAlone
    ValidationSettled
CHECK_DEADLOCK FALSE
