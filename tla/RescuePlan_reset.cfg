SPECIFICATION PlanSpec
CONSTANTS
    t = t
    f1 = f1
    f2 = f2
    Target = t
    Followers <- MCFollowers
CHECK_DEADLOCK FALSE
INVARIANTS
    NoServerDuringReset
