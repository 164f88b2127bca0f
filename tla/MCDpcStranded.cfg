SPECIFICATION Spec
CONSTANTS
    CPU = {c0, c1}
    SlotCount = 2
    Object = {d, b}
    Bare = {b}
    MaxInserts = 3
INVARIANT
    NoneStranded
CHECK_DEADLOCK FALSE
