SPECIFICATION Spec
CONSTANTS
    Vms = {v1, v2}
    NoVm = NoVm
    Slots = {s1, s2}
    MaxOffset = 2
    Pool = {a1, a2}
    NoAddr = NoAddr
    NotRegistered = NotRegistered
    Faults = {"slow_restart", "cleanup_fails", "cancel"}
    MaxCrashes = 0
SYMMETRY Symmetry
INVARIANTS
    TypeOK
    UniqueIp
    RunningUnitConnected
PROPERTIES
    HandleNeverReplaced
