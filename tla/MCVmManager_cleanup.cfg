SPECIFICATION FairSpec
CONSTANTS
    Vms = {v1}
    NoVm = NoVm
    Slots = {s1}
    MaxOffset = 2
    Pool = {a1}
    NoAddr = NoAddr
    NotRegistered = NotRegistered
    Faults = {}
    MaxCrashes = 0
PROPERTIES
    SpawnFailureFreesAddress
