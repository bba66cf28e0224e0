SPECIFICATION LateSpec
CONSTANTS
    A = A
    B = B
    a1 = a1
    a2 = a2
    b1 = b1
    Cluster = {A, B}
    Host = {a1, a2, b1}
    HostsOf <- MCHostsOf
    ServerOf <- MCServerOf
    Unverified = {B}
    Slots = {s1, s2}
    Idle = Idle
    Hosts = {n1, n2}
    MaxAsked = 1
    Listings = {{}, {n1}, {n1, n2}}
    MaxViews = 2
    MaxStreams = 2
    MaxStarted = 3
    Cap = 1
    Node = {n1}
    S3Cluster = {A, B}
    NoCluster = NoCluster
    MaxSeq = 3
    MaxGen = 1
    MaxCmds = 1
    None = None
INVARIANTS
    NoForeignClient
    SwitchDropsLines
    GuardedResultsAreOurs
PROPERTIES
    OpenedIsExplained
