SPECIFICATION Spec
SYMMETRY Symmetry
CONSTANTS
    Cluster = {A, B}
    NoCluster = NoCluster
    MaxSeq = 3
    Node = {n1}
    None = None
    EtcdNode = {n1}
    SSHNodes = {n1}
    Hosts = {}
    Login = {root, admin}
    Backoff = FALSE
    Failing = {n1}
    Moved = {n1}
    MaxGen = 1
    MaxStack = 2
INVARIANTS
    OneLiveMessage
    NothingForeign
