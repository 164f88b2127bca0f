SPECIFICATION Spec
CONSTANTS
    a = a
    b = b
    c = c
    Thread = {a, b, c}
    CpuCount = 2
    MaxCpus = 3
    TopPriority = 1
    MaxBoosted = 1
    Balancers = {"balance_load"}
    BalanceThreshold = 1
    Tuned = {a}
    NewPriorities = {0, 1}
    Masks <- MCMasks
SYMMETRY Symmetry
INVARIANTS
    TypeOK
    SummaryExact
    QueuedOnce
    LocationTracked
    Conserved
    StateTracksPlace
PROPERTIES
    SpreadShrinks
    NoOvertaking
