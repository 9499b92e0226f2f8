SPECIFICATION Spec
CONSTANTS
    Vms = {v1, v2}
    NoVm = NoVm
    Ports = {1}
    Ips = {i1, i2}
    NoIp = NoIp
    Slots = {s1, s2}
    MaxCalls = 2
    MaxFailures = 0
    MaxCrashes = 0
INVARIANTS
    HostPortUnambiguous
CHECK_DEADLOCK FALSE
