CONSTANTS
    Files = {a, b, c}
    Patched = {a, b}
    Faults = {"kill", "interrupt", "disk", "git", "cleanup", "torn"}
    MaxFaults = 4
    MaxEdits = 0
    None = None
SPECIFICATION FairSpec
PROPERTIES
    ImplementsAtomic
    TransactionResolved
