SPECIFICATION Spec
CONSTANTS
    CPU = {c0, c1}
    TicketMod = 5
INVARIANTS
    TypeOK
    TicketQueue
    MutualExclusion
    OwnerExact
PROPERTIES
    NoStarvation
    ImplementsFifo
CHECK_DEADLOCK FALSE
