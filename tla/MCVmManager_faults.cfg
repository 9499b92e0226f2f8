SPECIFICATION FairSpec
CONSTANTS
    Vms = {v1}
    NoVm = NoVm
    Slots = {s1, s2}
    MaxOffset = 2
    Pool = {a1, a2}
    NoAddr = NoAddr
    NotRegistered = NotRegistered
    Faults = {"unlink_fails", "cleanup_fails", "load_fails", "cancel"}
    MaxCrashes = 1
INVARIANTS
    RunningVmReachable
PROPERTIES
    RequestsAnswered
    ImplementsRegistry
