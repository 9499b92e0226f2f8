SPECIFICATION Spec
CONSTANTS
    NumNodes = 2
    Cpus <- MCCpus
    Total2m <- MCTotal2m
    Total1g <- MCTotal1g
    Vms = {v1, v2, v3}
    Requests <- MCRequests
    MaxRestarts = 1
SYMMETRY VmSymmetry
INVARIANTS
    TypeOK
    WithinCapacity
    VcpusExact
    GigapagesExact
    NoSmallPageLost
