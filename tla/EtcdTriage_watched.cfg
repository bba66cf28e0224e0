SPECIFICATION Spec
CONSTANTS
    n1 = n1
    n2 = n2
    n3 = n3
    Servers <- MCServers
    Memberships <- MCMemberships
    MaxChanges = 1
    MaxTerm = 1
    None = None
INVARIANTS
    WatchedOutage
