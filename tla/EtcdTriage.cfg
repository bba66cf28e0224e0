SPECIFICATION Spec
CONSTANTS
    n1 = n1
    n2 = n2
    n3 = n3
    Servers <- MCServers
    Memberships <- MCMemberships
    MaxChanges = 2
    MaxTerm = 2
    None = None
INVARIANTS
    LostIsTrue
    BrokenAreCovered
    OutageIsDiagnosed
