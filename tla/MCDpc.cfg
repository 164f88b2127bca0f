SPECIFICATION Spec
CONSTANTS
    CPU = {c0, c1}
    SlotCount = 2
    Object = {d, b}
    Bare = {b}
    MaxInserts = 3
INVARIANTS
    TypeOK
    NoDoubleRun
    CollectedOnce
    RemovedNeverRuns
    NothingLost
    Accounting
PROPERTIES
    CollectedRuns
CHECK_DEADLOCK FALSE
