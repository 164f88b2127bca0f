SPECIFICATION Spec
CONSTANTS
    Thread = {boot, a, s}
    CpuCount = 1
    MaxCpus = 2
    TopPriority = 1
    MaxBoosted = 1
    BootThread = boot
    Unseeded = {}
    Waiters = {boot, a}
    Object = {o}
    SlotCount = 2
    Quantum = 2
    Boost = 1
INVARIANT
    ResultDelivered
