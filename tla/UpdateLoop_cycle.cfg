SPECIFICATION FairSpec
CONSTANTS
    Cluster = {A}
    NoCluster = NoCluster
    MaxSeq = 3
    Node = {n1, n2}
    None = None
    EtcdNode = {n1}
    SSHNodes = {}
    Hosts = {n1}
    Login = {root}
    Backoff = TRUE
    Failing = {}
    Moved = {}
    MaxGen = 0
    MaxStack = 2
INVARIANTS
    NoStackedProbes
PROPERTIES
    PendingClears
    RefreshesForever
