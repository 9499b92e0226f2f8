SPECIFICATION Spec
CONSTANTS
    Vms = {v1, v2}
    NoVm = NoVm
    Ports = {p1, p2}
    Ips = {i1, i2}
    NoIp = NoIp
    Slots = {s1, s2}
    MaxCalls = 2
    MaxFailures = 1
    MaxCrashes = 1
SYMMETRY Symmetry
CONSTRAINT WithinBounds
CHECK_DEADLOCK FALSE
INVARIANTS
    TypeOK
    RulesMatchForwards
    ListedIsForwarded
    PersistedMatchesForwards
PROPERTIES
    ForwardNeverStolen
