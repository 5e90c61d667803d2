CONSTANTS
    Prefixes = {x1, x2}
    NoPrefix = NoPrefix
    MaxSources = 2
    MaxIds = 2
    MaxEvents = 2
    Updaters = {u1, u2}
    Queues = {q1, q2}
    Nobody = Nobody
    BundledGate = v100
    RequiredGate = v110
    Legacy = Legacy
    Packages = {p1}
    MaxActs = 2
    CoreSkills = {s1, s2}
    RetiredSkills = {r1}
    NoSkill = NoSkill
    MaxEdits = 1
    PackFailures = {"kill", "install", "ledger", "finish"}
    MaxFailures = 2
    Commands = {c1, c2}
    NoCommand = NoCommand
    Presets = {a1, a2}
    GateIds = {g1}
    Notes = {n1, n2}
    MaxStarts = 3
    MaxTouches = 1
SPECIFICATION HostSpec
SYMMETRY Symmetry
VIEW View
INVARIANTS
    HostTypesOK
    InstalledAsRecorded
    UpdateExcludesQueues
    FailedPackRestores
    CompletedWritesStand
PROPERTY
    ReplacedAsPlanned
CHECK_DEADLOCK FALSE
