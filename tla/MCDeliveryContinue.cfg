CONSTANTS
    Files = {a, b, c}
    Patched = {a, b}
    Faults = {"kill"}
    MaxFaults = 1
    MaxEdits = 0
    None = None
SPECIFICATION Spec
INVARIANTS
    ContinuedRunCanDeliver
