SPECIFICATION Spec
CONSTANTS
    CPU = {c0, c1}
    TicketMod = 5
INVARIANTS
 ReentryDetected
CHECK_DEADLOCK FALSE
