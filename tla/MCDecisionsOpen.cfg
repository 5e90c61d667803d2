CONSTANTS
    Controllers = {c1, c2}
    Sessions = {s1}
    Choices = {a, b}
    Faults = {"kill"}
    MaxFaults = 1
    None = None
SPECIFICATION Spec
SYMMETRY Symmetry
INVARIANT NoOpenDecision
CHECK_DEADLOCK FALSE
