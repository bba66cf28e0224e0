SPECIFICATION FairSpec
CONSTANTS
    Node = {n1, n2}
    None = None
    Stages = 2
    MaxScans = 2
    MaxSwitch = 1
    MaxApply = 1
INVARIANTS
    FactsFromHere
    CompleteIsAdopted
    ResultsAreCurrent
PROPERTIES
    FactsNeverOlder
    UndisturbedScanEnds
