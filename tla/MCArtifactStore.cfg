CONSTANTS
    Procs = {p1, p2}
    Paths = {a1, a2}
    Contents = {c1, c2}
    Faults = {"kill", "interrupt", "disk"}
    MaxFaults = 2
    MaxEdits = 1
    None = None
SPECIFICATION Spec
SYMMETRY Symmetry
INVARIANTS
    TypeOK
    OneTransaction
    ClaimInUse
PROPERTIES
    ImplementsAtomic
