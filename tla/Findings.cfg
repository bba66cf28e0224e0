SPECIFICATION Spec
CONSTANTS
    Node <- MCNode
    Volume <- MCVolume
    Scenes <- MCScenes
    Benchmarks <- MCBenchmarks
    MaxMissing = 2
INVARIANTS
    ClaimsAreGrounded
    UnscannedIsNotPassed
CHECK_DEADLOCK FALSE
