SPECIFICATION Spec
CONSTANTS
    Hosts = {n1, n2}
    MaxAsked = 2
    Listings = {{}, {n1}, {n1, n2}}
    None = None
INVARIANTS
    ContextIsItsIncident
