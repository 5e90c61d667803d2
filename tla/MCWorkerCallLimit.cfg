CONSTANTS
    Procs = {p1, p2}
    Specs = {s1}
    Spec0 = s1
    Results = {r1}
    Forms = {f1}
    MaxAttempts = 4
    AttemptPad = 1000
    MaxWorkerAttempts = 2
    Tampering = FALSE
    Crashes = FALSE
    DiskFails = FALSE
    None = None
SPECIFICATION FairSpec
INVARIANTS
    AttemptBudget
PROPERTIES
    CallEnds
CHECK_DEADLOCK FALSE
