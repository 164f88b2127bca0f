CONSTANTS
    Client = {c1, c2}
    MaxObjects = 2
    Name = {a}
    Process = {p1, p2}
    KernelSlots = 3
    ScanLimit = 1
    ProcessSlots = 1
    DirSize = 1
    MaxHandles = 1
SPECIFICATION Spec
INVARIANTS TypeOK HandleCountExact  NoDangling OneDeleter
PROPERTIES Implements CallsEnd
CHECK_DEADLOCK FALSE
