CONSTANTS
    Procs = {p1, p2}
    Specs = {s1, s2}
    Results = {r1, r2}
    Forms = {f1}
    MaxAttempts = 3
    AttemptPad = 1000
    None = None
SPECIFICATION Spec
SYMMETRY Symmetry
INVARIANTS
    OneRunningAttempt
    CompleteJobAgrees
PROPERTIES
    FinishedAttemptsKept
