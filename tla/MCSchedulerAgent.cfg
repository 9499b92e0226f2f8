SPECIFICATION Spec
CONSTANTS
    Vms <- MCVms
    Addresses = {a1}
    NotListed = NotListed
    NoPath = NoPath
    Absolute <- MCPaths
    Existing <- MCPaths
    WithComma = {}
    Tasks = {h1, h2}
    Volumes <- MCVolumes
    Cached <- MCCached
    Inodes = {i1, i2, i3}
    NoInode = NoInode
    Messages <- MCMessages
    Bodies <- MCBodies
    TokenConfigured = TRUE
    KernelPath <- MCKernel
    InitrdPath <- MCInitrd
    MaxFaults = 1
    MaxAllocations = 2
INVARIANTS
    SchedTypeOK
    AnswerTellsTruth
    CountsReported
    DisksReady
    CachedVolumeComplete
PROPERTIES
    AllocationsAnswered
CHECK_DEADLOCK FALSE
