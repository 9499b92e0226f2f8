SPECIFICATION Spec
CONSTANTS
    Published <- MCPublished
    Posts <- MCPosts
    Domain = "node"
    OwnHashes = {"set1", "set2"}
    Unset = Unset
    Pids = {p1, p2}
    MaxSets = 2
    Taps = {t1, t2}
    NoRange = NoRange
    Range1 = Range1
    Torn = Torn
    Callers = {c1, c2}
    NoCaller = NoCaller
    Creates = {c1, c2}
    NoTree = NoTree
    MaxClock = 3
    MaxFormats = 3
    Hosts <- MCHosts
    Headrooms = {0, 3, 8}
    Limits = {0, 9, 31}
    NoLimit = NoLimit
    Word = 32
    MbPerGb = 4
    Verifiers = {v1, v2}
    Reports <- MCReports
    VcekIds = {"chip1", "chip2"}
    Foreign <- MCForeign
    Vceks <- MCVceks
    Chains <- MCChains
    NoCert = NoCert
    AddrBits = 5
    Pool <- MCPool
    DefaultPrefix = 5
    RandomLimit = 8
    Requested <- MCRequested
    VmIds = {m1, m2, m3}
    NoNet = NoNet
SYMMETRY Symmetry
INVARIANTS
    NodeTypeOK
    HashAgrees
    NdpServesRanges
    RootHashMatchesTree
    PagesLeaveHeadroom
    VerdictIsRight
    RangesDisjoint
CHECK_DEADLOCK FALSE
