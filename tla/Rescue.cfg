SPECIFICATION RescueSpec
CONSTANTS
    Member = {m1, m2}
    None = None
    Node = {n1, n2}
    MaxViews = 2
    Events = 3
    Cap = 1
    f1 = f1
    f2 = f2
    Target = t
    Followers <- MCFollowers
CHECK_DEADLOCK FALSE
INVARIANTS
    OneMemberDown
    RescueIsWatched
    NoNewCluster
    LeftoversAreReported
    SuccessMeansRestored
PROPERTIES
    TargetIsChosen
    RescueEnds
    CutsOver
    RescueCompletes
