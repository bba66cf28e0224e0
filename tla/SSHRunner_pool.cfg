SPECIFICATION FairSpec
CONSTANTS
    Host = {h1}
    Caller = {c1, c2}
    Streams = {c2}
    Conn = {k1, k2, k3}
    None = None
    Slots = 2
    Bastion = TRUE
INVARIANTS
    PoolIsTidy
PROPERTIES
    CallsEnd
