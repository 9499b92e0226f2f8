SPECIFICATION Spec
CONSTANTS
    Vms = {v1}
    NoVm = NoVm
    Slots = {s1}
    MaxOffset = 2
    Pool = {a1}
    NoAddr = NoAddr
    NotRegistered = NotRegistered
    Faults = {"slow_restart"}
    MaxCrashes = 1
INVARIANTS
    StoppedHasNoProcess
