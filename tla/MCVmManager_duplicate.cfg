SPECIFICATION Spec
CONSTANTS
    Vms = {v1}
    NoVm = NoVm
    Slots = {s1, s2}
    MaxOffset = 2
    Pool = {a1, a2}
    NoAddr = NoAddr
    NotRegistered = NotRegistered
    Faults = {}
    MaxCrashes = 0
INVARIANTS
    ReservationsMatch
