CONSTANTS
    Procs = {p1, p2}
    Specs = {s1}
    Spec0 = s1
    Results = {r1, r2}
    Forms = {f1}
    MaxAttempts = 2
    AttemptPad = 1000
    MaxWorkerAttempts = 0
    Tampering = TRUE
    Crashes = TRUE
    DiskFails = TRUE
    None = None
SPECIFICATION CallSpec
SYMMETRY Symmetry
INVARIANTS
    OneWorker
    WorkerOwnsAttempt
    AnswerIsAttempted
CHECK_DEADLOCK FALSE
