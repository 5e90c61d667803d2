CONSTANTS
    Files = {a, b, c}
    Patched = {a, b}
    Faults = {"kill", "interrupt", "disk", "git", "cleanup", "torn"}
    MaxFaults = 3
    MaxEdits = 2
    None = None
SPECIFICATION Spec
INVARIANTS
    PatchAccounted
    CompleteIsProven
PROPERTIES
    OperatorEditsKept
